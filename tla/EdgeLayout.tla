----------------------------- MODULE EdgeLayout -----------------------------
(* <I3Layout> (src/tauler-core/src/ui/components/i3_layout.rs, with the    *)
(* shim in globals.rs and the frame of <Workspaces> in src/workspaces.rs): *)
(* panels eat from the edges of the screen in document order, and what     *)
(* they have eaten is what i3 keeps free of windows.  A <Workspaces> after *)
(* them draws one picture over the rest, and its <Contents> say where the  *)
(* windows go.  Lengths are u32 and wrap, as release builds do; those of   *)
(* <Contents> are fractions, in quarters of a pixel here.                  *)
EXTENDS Integers, Sequences

CONSTANTS
  Width, Height,  \* the screen
  Word,           \* 2^32
  Sizes,          \* the sizes panels are declared with
  Quarters,       \* where the edges of <Contents> may be, in quarters of a pixel
  MaxPanels       \* bound: panels

Edge == {"left", "right", "top", "bottom"}

VARIABLES
  gaps,     \* what each edge has given up
  panels,   \* the panels so far, and where they are
  framed,   \* <Workspaces>: "no" (not laid out), "yes", or "unmeasured"
  contents, \* where it has the windows, in quarters of a pixel from its own corner
  fits      \* history: has everything found the room it asks for

vars == <<gaps, panels, framed, contents, fits>>

Plus(a, b) == IF a + b < Word THEN a + b ELSE a + b - Word
Minus(a, b) == IF b <= a THEN a - b ELSE 0

-----------------------------------------------------------------------------
(* Whatever no earlier panel has claimed.                                  *)
FreeWidth == Minus(Width, Plus(gaps["left"], gaps["right"]))
FreeHeight == Minus(Height, Plus(gaps["top"], gaps["bottom"]))
At(x, y, width, height) == [x |-> x, y |-> y, width |-> width, height |-> height]

Free == At(gaps["left"], gaps["top"], FreeWidth, FreeHeight)

(* An anchor that is none covers what is free and reserves nothing.        *)
Placed(anchor, size) ==
  CASE anchor = "left" -> At(gaps["left"], gaps["top"], size, FreeHeight)
    [] anchor = "top" -> At(gaps["left"], gaps["top"], FreeWidth, size)
    [] anchor = "right" ->
         At(Minus(Width, Plus(gaps["right"], size)), gaps["top"], size, FreeHeight)
    [] anchor = "bottom" ->
         At(gaps["left"], Minus(Height, Plus(gaps["bottom"], size)), FreeWidth, size)
    [] OTHER -> Free

Fits(anchor, size) ==
  /\ anchor \in {"left", "right"} => size <= FreeWidth
  /\ anchor \in {"top", "bottom"} => size <= FreeHeight

Place(anchor, size) ==
  /\ framed = "no" /\ Len(panels) < MaxPanels
  /\ panels' = Append(panels, [anchor |-> anchor, rect |-> Placed(anchor, size)])
  /\ gaps' = IF anchor \in Edge THEN [gaps EXCEPT ![anchor] = Plus(@, size)] ELSE gaps
  /\ fits' = (fits /\ Fits(anchor, size))
  /\ UNCHANGED <<framed, contents>>

-----------------------------------------------------------------------------
(* What the shim has left for <Workspaces>: a JS number does not wrap.     *)
Left == At(gaps["left"], gaps["top"],
           Minus(Width, gaps["left"] + gaps["right"]),
           Minus(Height, gaps["top"] + gaps["bottom"]))

(* What of an area lies before an edge of <Contents>, and its whole pixels.*)
Depth(rect, area) ==
  [left |-> rect.x, top |-> rect.y,
   right |-> 4 * area.width - (rect.x + rect.width),
   bottom |-> 4 * area.height - (rect.y + rect.height)]

Round(quarters) == (quarters + 2) \div 4

Strip(depth) == IF depth > 0 THEN Round(depth) ELSE 0

(* One picture over what is left; its edges are reserved as well.          *)
Frame(rect) ==
  /\ framed = "no" /\ framed' = "yes" /\ contents' = rect
  /\ panels' = Append(panels, [anchor |-> "frame", rect |-> Left])
  /\ gaps' = [edge \in Edge |-> gaps[edge] + Strip(Depth(rect, Left)[edge])]
  /\ fits' = (fits /\ \A edge \in Edge : Depth(rect, Left)[edge] >= 0)

(* <Contents> is missing or never painted: no frame, nothing reserved.     *)
Unmeasured ==
  framed = "no" /\ framed' = "unmeasured" /\ UNCHANGED <<gaps, panels, contents, fits>>

-----------------------------------------------------------------------------
Contents == [x : Quarters, y : Quarters, width : Quarters, height : Quarters]
Nowhere == At(0, 0, 0, 0)

Init ==
  /\ gaps = [edge \in Edge |-> 0] /\ panels = <<>> /\ framed = "no"
  /\ contents = Nowhere /\ fits = TRUE

Next ==
  \/ \E anchor \in Edge \cup {"typo"}, size \in Sizes : Place(anchor, size)
  \/ \E rect \in Contents : Frame(rect)
  \/ Unmeasured

Spec == Init /\ [][Next]_vars

-----------------------------------------------------------------------------
(* Lengths are u32; the screen and every panel have one.                   *)
Lengths ==
  /\ Word \in Nat /\ Width \in 0..(Word - 1) /\ Height \in 0..(Word - 1)
  /\ Sizes \subseteq 0..(Word - 1) /\ Quarters \subseteq Int

Area == [x : Int, y : Int, width : Int, height : Int]
Panel == [anchor : Edge \cup {"typo", "frame"}, rect : Area]

(* The values of the variables.                                            *)
TypeOK ==
  /\ gaps \in [Edge -> Int]
  /\ panels \in Seq(Panel)
  /\ framed \in {"no", "yes", "unmeasured"}
  /\ framed = "yes" => panels # <<>> /\ contents \in Area
  /\ fits \in BOOLEAN

(* While everything fits, opposite edges have not met, and so no sum has   *)
(* wrapped.                                                                *)
EdgesApart ==
  /\ framed = "no" => \A edge \in Edge : gaps[edge] \in 0..(Word - 1)
  /\ fits /\ framed # "yes" =>
       /\ \A edge \in Edge : gaps[edge] \in 0..(Word - 1)
       /\ gaps["left"] + gaps["right"] <= Width
       /\ gaps["top"] + gaps["bottom"] <= Height

-----------------------------------------------------------------------------
In(px, py, rect) ==
  /\ rect.x <= px /\ px < rect.x + rect.width
  /\ rect.y <= py /\ py < rect.y + rect.height

Anchored == {i \in DOMAIN panels : panels[i].anchor \in Edge}

(* What the anchored panels leave: the frame's area, or the free one.      *)
Rest == IF framed = "yes" THEN panels[Len(panels)].rect ELSE Free

(* A pixel is in one anchored panel and in no other, or in the rest and in *)
(* none.                                                                   *)
Owned(px, py) ==
  IF In(px, py, Rest)
  THEN \A i \in Anchored : ~In(px, py, panels[i].rect)
  ELSE \E i \in Anchored :
         /\ In(px, py, panels[i].rect)
         /\ \A j \in Anchored \ {i} : ~In(px, py, panels[j].rect)

(* As long as the panels fit, they tile the screen with what they leave.   *)
Tiled == fits => \A px \in 0..(Width - 1), py \in 0..(Height - 1) : Owned(px, py)

(* And the windows, which the gaps keep from the edges of the screen, are  *)
(* where the picture has its <Contents>, each edge to half a pixel.        *)
WindowsMeetContents ==
  framed = "yes" /\ fits =>
    /\ 4 * (gaps["left"] - Rest.x) - contents.x \in -2..2
    /\ 4 * (gaps["top"] - Rest.y) - contents.y \in -2..2
    /\ 4 * (Width - gaps["right"] - Rest.x) - (contents.x + contents.width) \in -2..2
    /\ 4 * (Height - gaps["bottom"] - Rest.y) - (contents.y + contents.height) \in -2..2
=============================================================================
