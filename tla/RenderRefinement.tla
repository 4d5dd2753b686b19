-------------------------- MODULE RenderRefinement --------------------------
(* The render pipeline implements LatestFrame: the frame wanted for a      *)
(* panel is the newest request for it that is anywhere on its way, the     *)
(* frame shown is the one in its window.  A panel whose calls on the       *)
(* display may fail is left out: a frame that failed is not shown again.   *)
EXTENDS RenderPipeline, FiniteSetsExt

Named(p) == tracked[p] # None \/ (wait # None /\ wait.id = p)

(* -1, which no LatestFrame allows, should every request have been lost.   *)
LastAsked(p) == Max({r.seq : r \in Carried(p)} \cup {-1})

Wanted(p) == IF Named(p) THEN LastAsked(p) ELSE 0

OnScreen(p) == IF window[p] = None THEN 0 ELSE window[p].frame.request.seq

Latest == INSTANCE LatestFrame WITH
  Panel <- Panel \ Unreliable,
  latest <- asked,
  want <- [p \in Panel \ Unreliable |-> Wanted(p)],
  shown <- [p \in Panel \ Unreliable |-> OnScreen(p)]

(* Superseding, reordering between the two senders of commands and frames  *)
(* that arrive for a dead window never show: seen from outside, a window   *)
(* only skips forward, and closes only once its panel is unwanted          *)
(* (worker.rs:184-189, presentation/mod.rs:227-240).                       *)
ShowsLatestFrame == Latest!Spec

(* And the last frame asked for is shown, a dropped panel closed (ADR 0023:*)
(* superseded, not cancelled).                                             *)
EndsOnLatestFrame == Latest!FairSpec
=============================================================================
