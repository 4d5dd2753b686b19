----------------------------- MODULE LatestFrame -----------------------------
(* What the render pipeline promises, seen from outside: frames are asked  *)
(* for per panel, in one order; the screen may skip frames but never goes  *)
(* back, and it comes to show the last one asked for.  A frame is known by *)
(* its place in that order; 0 is no frame.                                 *)
EXTENDS Integers

CONSTANT Panel

VARIABLES
  latest, \* frames asked for so far, for panels and wallpapers alike
  want,   \* the last frame asked for, per panel the layout still names
  shown   \* the frame in the panel's window

vars == <<latest, want, shown>>

Init == /\ latest = 0
        /\ want = [p \in Panel |-> 0]
        /\ shown = [p \in Panel |-> 0]

Ask(p) == /\ latest' = latest + 1
          /\ want' = [want EXCEPT ![p] = latest + 1]
          /\ UNCHANGED shown

AskElsewhere == latest' = latest + 1 /\ UNCHANGED <<want, shown>>

(* The layout stops naming the panel; its window outlives that for a while.*)
Drop(p) == /\ want[p] # 0
           /\ want' = [want EXCEPT ![p] = 0]
           /\ UNCHANGED <<latest, shown>>

(* A later frame than the one on the screen, not past the last asked for.  *)
Show(p, n) == /\ shown[p] < n /\ n <= (IF want[p] = 0 THEN latest ELSE want[p])
              /\ shown' = [shown EXCEPT ![p] = n]
              /\ UNCHANGED <<latest, want>>

(* A window only ever closes on a frame that is no longer wanted.          *)
Hide(p) == /\ shown[p] # 0 /\ shown[p] # want[p]
           /\ shown' = [shown EXCEPT ![p] = 0]
           /\ UNCHANGED <<latest, want>>

Next == \/ AskElsewhere
        \/ \E p \in Panel : Ask(p) \/ Drop(p) \/ Hide(p) \/ \E n \in 1 .. latest : Show(p, n)

Spec == Init /\ [][Next]_vars

(* A wanted frame is shown in the end, and a dropped panel disappears.     *)
CatchUp(p) == want[p] # 0 /\ Show(p, want[p])
Close(p) == want[p] = 0 /\ Hide(p)

FairSpec == Spec /\ \A p \in Panel : WF_vars(CatchUp(p)) /\ WF_vars(Close(p))
=============================================================================
