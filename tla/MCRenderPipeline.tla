-------------------------- MODULE MCRenderPipeline --------------------------
(* Small instances of RenderPipeline for TLC: a layout is picked from a    *)
(* handful of desired sets that differ in one field each.                  *)
EXTENDS RenderRefinement

PanelSpec(c, s, pl) == [content |-> c, size |-> s, place |-> pl, output |-> "o1"]
WallSpec(c, o) == [content |-> c, size |-> "screen", place |-> "origin", output |-> o]

(* One panel over one wallpaper: the panel's content, size and place and   *)
(* the wallpaper's content change, and either may be absent.               *)
OnePanel ==
  {[s \in Surface |-> IF s \in Wall THEN w ELSE p] :
     w \in {None, WallSpec("a", "o1"), WallSpec("b", "o1")},
     p \in {None, PanelSpec("a", "small", "left"), PanelSpec("fig", "small", "left"),
            PanelSpec("a", "big", "left"), PanelSpec("a", "small", "right")}}

(* The panel alone, so that a third pass stays cheap under faults: two     *)
(* repaints in a row, or one after a resize that failed.                   *)
PanelAlone == {layout \in OnePanel : \A w \in Wall : layout[w] = None}

(* The panel's repaints, resizes and moves over no wallpaper, and a panel  *)
(* that stays over a wallpaper that changes.                               *)
Lively ==
  PanelAlone \cup
  {[s \in Surface |-> IF s \in Wall THEN WallSpec(c, "o1")
                                     ELSE PanelSpec("a", "small", "left")] :
     c \in {"a", "b"}}

Layout(w, p, q) ==
  [s \in Surface |-> CASE s \in Wall -> w [] s = 1 -> p [] OTHER -> q]

(* Two panels over one wallpaper: what one waits for, the other may show,  *)
(* and what one drops, the other may still need.  The second is resized    *)
(* and then repainted, so that the resize may fail before the repaint.     *)
TwoPanels ==
  LET bg == [c \in {"a", "b"} |-> WallSpec(c, "o1")]
      left == [c \in Content |-> PanelSpec(c, "small", "left")]
      big == PanelSpec("a", "big", "left")
      moved == PanelSpec("a", "small", "right")
      wide == PanelSpec("a", "big", "right")
  IN {Layout(bg["a"], left["a"], None), Layout(bg["b"], left["a"], None),
      Layout(bg["a"], left["fig"], None), Layout(None, moved, None),
      Layout(None, None, None), Layout(bg["a"], left["b"], moved),
      Layout(bg["b"], big, wide), Layout(bg["a"], None, wide)}

(* A wallpaper that changes outputs under a panel that stays.              *)
WallpaperMoves ==
  {[s \in Surface |-> IF s \in Wall THEN WallSpec("a", o)
                                     ELSE PanelSpec("a", "small", "left")] :
     o \in Output}
=============================================================================
