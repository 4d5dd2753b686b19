------------------------------- MODULE MCLoop -------------------------------
(* A bar with a clock and a module that only runs while the clock says so. *)
EXTENDS Loop

(* "plain" runs the clock; "lib" does, too, through an import; "branch"    *)
(* also calls a module inside a branch, and throws on a line it cannot     *)
(* read.                                                                   *)
WantsOf(source, vals) ==
  CASE source \in {"plain", "lib"} -> {"clock"}
    [] source = "branch" ->
         IF vals["clock"] = "on" THEN {"clock", "module"}
         ELSE IF vals["clock"] = "bad" THEN None ELSE {"clock"}
    [] OTHER -> {}
=============================================================================
