-------------------------- MODULE RepaintScheduler --------------------------
(* Which target the render worker draws next (src/src/render/worker.rs),   *)
(* on a clock of its own: RenderPipeline only says that the floor elapses  *)
(* some time, here a draw takes time and the floor is measured in it.      *)
(* Repaint requests come without end; Now renders, which the worker        *)
(* answers first and which the tick thread waits for one at a time, are    *)
(* left to RenderPipeline.                                                 *)
EXTENDS Integers, FiniteSets

CONSTANTS
  Target, \* render targets, numbers: the order in which they are considered
  Floor,  \* REPAINT_FLOOR, in ticks of the clock
  Draws,  \* how many ticks drawing a frame may take
  None

ASSUME TargetsAssumption == Target \subseteq Nat /\ None \notin Target
ASSUME ClockAssumption == Floor \in Nat /\ Draws \subseteq Nat \ {0}

VARIABLES
  pending, \* targets with a request nobody has painted yet
  since,   \* ticks since a target was last drawn, counted up to Floor
  drawing, \* the target under the renderer, None between two draws
  left,    \* ticks until that frame is done
  passed   \* history: per target that is due, those drawn since before it

vars == <<pending, since, drawing, left, passed>>

Init == /\ pending = {}
        /\ since = [p \in Target |-> Floor]
        /\ drawing = None /\ left = 0
        /\ passed = [p \in Target |-> {}]

(* A request arrives, over an older one for the same target if need be.    *)
Ask(p) ==
  /\ pending' = pending \cup {p}
  /\ UNCHANGED <<since, drawing, left, passed>>

DueWithoutFloor == pending

(* repaint_decision: render now, or wait until the floor is over.          *)
Due == {p \in pending : since[p] >= Floor}

DrawNext ==
  /\ drawing = None
  /\ \E p \in Due, ticks \in Draws :
       /\ \A q \in Due : p <= q
       /\ pending' = pending \ {p}
       /\ drawing' = p /\ left' = ticks
       /\ passed' = [q \in Target |-> IF q \in Due \ {p} THEN passed[q] \cup {p} ELSE {}]
  /\ UNCHANGED since

Drawn ==
  /\ drawing # None /\ left = 0
  /\ since' = [since EXCEPT ![drawing] = 0]
  /\ drawing' = None
  /\ UNCHANGED <<pending, left, passed>>

(* Time goes by while a frame is drawn, or while there is none to draw:    *)
(* choosing takes microseconds.                                            *)
Clock ==
  /\ \/ drawing # None /\ left > 0 /\ left' = left - 1
     \/ drawing = None /\ Due = {} /\ UNCHANGED left
  /\ since' = [p \in Target |-> IF since[p] < Floor THEN since[p] + 1 ELSE Floor]
  /\ UNCHANGED <<pending, drawing, passed>>

Next == (\E p \in Target : Ask(p)) \/ DrawNext \/ Drawn \/ Clock

(* The worker's thread runs and so does the clock.                         *)
Spec == Init /\ [][Next]_vars /\ WF_vars(DrawNext) /\ WF_vars(Drawn) /\ WF_vars(Clock)

-----------------------------------------------------------------------------
(* "Nothing is ever abandoned mid-draw, which is what makes starvation     *)
(* impossible" (worker.rs:17-18): whatever else keeps being asked for, a   *)
(* pending target is drawn.  Not so of every target: see the README.       *)
NoStarvation == \A p \in Target : p \in pending ~> drawing = p

(* The targets before which there is time to draw those ahead, short of    *)
(* one, within a floor: the first two however long draws take, more if     *)
(* draws are that much shorter than the floor.                             *)
Prompt == {p \in Target : \A d \in Draws : d * (Cardinality({q \in Target : q < p}) - 1) < Floor}

(* These are drawn, whatever else keeps being asked for.                   *)
PromptIsServed == \A p \in Prompt : p \in pending ~> drawing = p

(* How long that takes: one that is due waits for those before it and for  *)
(* none of them twice.                                                     *)
PassedOnce ==
  [][\A p \in Prompt, q \in Target : p \in Due \ {q} /\ drawing # q /\ drawing' = q
       => q < p /\ q \notin passed[p]]_vars
=============================================================================
