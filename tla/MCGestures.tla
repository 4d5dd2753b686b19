----------------------------- MODULE MCGestures -----------------------------
(* A play button, a slider and a plain mute button change places with a    *)
(* slider of intents and a bell made at module scope; the panel may go.    *)
EXTENDS Gestures

Bars ==
  {[tree |-> <<"mute", "play", "vol", "dim">>, made |-> <<"play", "vol">>, kept |-> <<>>],
   [tree |-> <<"vol", "bell">>, made |-> <<"vol">>, kept |-> [e \in {"bell"} |-> 1]],
   [tree |-> None, made |-> <<>>, kept |-> <<>>]}
=============================================================================
