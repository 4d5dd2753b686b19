------------------------------ MODULE MCIntents ------------------------------
(* A slider and the mute button beside it share a module (ADR 0025).       *)
EXTENDS Intents

OneModule == [e \in Element |-> CHOOSE c \in Channel : TRUE]
=============================================================================
