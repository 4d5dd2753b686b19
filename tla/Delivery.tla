------------------------------ MODULE Delivery ------------------------------
(* What the user may count on between the pointer and a module (ADR 0025), *)
(* whoever carries it (Intents): the queues a press goes through, and that *)
(* none is lost in them, doubled or overtaken.                             *)
EXTENDS Naturals, Sequences

CONSTANT
  Channel      \* modules

VARIABLES
  incoming,    \* pointer events sent by the presenter and not drained
  batch,       \* the drained events this Pass still has to handle
  stdin,       \* per channel, the intents written and not read
  read,        \* per channel, the intents read, oldest first
  counts       \* pointer events, presses, unprompted lines and intents so far

(* The intents a module has read or is going to, and the events on their   *)
(* way to the handlers, oldest first.                                      *)
Written(c) == read[c] \o stdin[c]
Ahead == batch \o incoming

Fired(c) == {i \in DOMAIN Written(c) : Written(c)[i].press # 0}
Presses == {i \in DOMAIN Ahead : Ahead[i].phase = "press"}

(* "A click is never superseded" (ADR 0025), nor swallowed by the motions  *)
(* around it (pointer.rs:133-135): every press is accounted for, and a     *)
(* module hears of its presses in the order they were made.                *)
PressesDelivered ==
  /\ 1..counts.presses = {Ahead[i].nth : i \in Presses}
                           \cup UNION {{Written(c)[i].press : i \in Fired(c)} : c \in Channel}
  /\ \A i, j \in Presses : i < j => Ahead[i].nth < Ahead[j].nth
  /\ \A c \in Channel : \A i \in Fired(c) :
       /\ \A j \in Fired(c) : i < j => Written(c)[i].press <= Written(c)[j].press
       /\ \A j \in Presses : Written(c)[i].press < Ahead[j].nth
=============================================================================
