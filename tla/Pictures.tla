------------------------------ MODULE Pictures ------------------------------
(* The Picture store (src/src/render/picture.rs): what has been drawn for  *)
(* the keys of figures, what a key shows until its own drawing is there,   *)
(* and what may be promised of it, whoever draws (Figures).                *)
CONSTANTS
  Name,       \* the names of Pictures: the key of a figure and its size
  Blank       \* no Picture, no key

VARIABLES
  calls,      \* last_eval: the keys of its figures
  spawning,   \* is the Loop in a load, before spawn_draw_runtime
  generation, \* of the newest draw runtime
  entries,    \* Pictures: which runtime drew the Picture of each key
  fallback,   \* Pictures: the key to show meanwhile
  recorded    \* what each figure showed when the frame was last asked for

(* What a key shows: its own Picture, else that of its fallback, if any.   *)
Resolve(key, pics, falls) ==
  LET from == IF pics[key] # Blank THEN key ELSE falls[key]
  IN IF from = Blank THEN Blank
     ELSE IF pics[from] = Blank THEN Blank
     ELSE [key |-> from, by |-> pics[from]]

(* The stamp of a frame: a Surface is rendered again when it moves.        *)
FrameStamp(keys, pics, falls) == [i \in DOMAIN keys |-> Resolve(keys[i], pics, falls)]

(* A fallback that shows a fallback itself is passed on, one level.        *)
SetFallback(fallbacks, key, from) ==
  LET source == IF entries[from] = Blank /\ fallbacks[from] # Blank
                THEN fallbacks[from] ELSE from
  IN IF key = source THEN fallbacks ELSE [fallbacks EXCEPT ![key] = source]

RetainNamedOnly(named, pics, falls) ==
  [pics |-> [k \in Name |-> IF k \in named THEN pics[k] ELSE Blank],
   falls |-> [k \in Name |-> IF k \in named THEN falls[k] ELSE Blank]]

(* Pictures nobody names go, unless a named key shows them meanwhile.      *)
Retain(named, pics, falls) ==
  LET kept == [k \in Name |-> IF k \in named THEN falls[k] ELSE Blank]
      shown == {kept[k] : k \in Name}
  IN [pics |-> [k \in Name |-> IF k \in named \cup shown THEN pics[k] ELSE Blank],
      falls |-> kept]

-----------------------------------------------------------------------------
(* A Picture that is stored was drawn by the layout in use: what a dropped *)
(* runtime still delivers never replaces anything (draw.rs: current_only). *)
StoresOnlyCurrent ==
  [][\A k \in Name : entries'[k] \notin {entries[k], Blank} => entries'[k] = generation]_entries

(* Once a figure shows a Picture no frame is asked for that leaves it      *)
(* blank, whatever key it changes to, while the layout stays loaded; and   *)
(* no reload blanks one that keeps its key (d3_figure/mod.rs: until its    *)
(* drawing arrives it shows its previous key's Picture).  It holds of      *)
(* layouts that are Structured.                                            *)
NeverBlankAgain ==
  [][\A i \in DOMAIN recorded \cap DOMAIN recorded' :
       /\ spawning' = spawning \/ calls[i] = calls'[i]
       /\ recorded[i] # Blank
       => recorded'[i] # Blank]_recorded

(* "A layout reload is no exception: each figure keeps showing what it     *)
(* showed until the new Draw runtime's drawing arrives" (d3_figure/mod.rs).*)
(* The code breaks it.                                                     *)
KeepsShowing ==
  [][\A i \in DOMAIN recorded \cap DOMAIN recorded' :
       recorded[i] # Blank => recorded'[i] # Blank]_recorded
=============================================================================
