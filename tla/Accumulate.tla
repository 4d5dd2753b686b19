----------------------------- MODULE Accumulate -----------------------------
(* tauler-accumulate (src/tauler-accumulate/src/main.rs): a layout sees    *)
(* only the latest line of a stream, so this module prints, for each line  *)
(* it reads, the last Count of them.                                       *)
EXTENDS Naturals, Sequences

CONSTANTS
  Value,    \* what a line parses to
  Count,    \* -n
  MaxLines  \* bound: lines read

VARIABLES
  read,     \* history: the lines so far
  window,
  printed,  \* the arrays written and flushed, one for each line
  over      \* a line that is no UTF-8, or a reader that is gone, ends it

vars == <<read, window, printed, over>>

Init == read = <<>> /\ window = <<>> /\ printed = <<>> /\ over = FALSE

(* A full window loses its oldest value first; one of no size stays empty. *)
Push(value) ==
  window' = IF Count = 0 THEN window
            ELSE Append(IF Len(window) = Count THEN Tail(window) ELSE window, value)

Line(value) ==
  /\ ~over /\ Len(read) < MaxLines
  /\ read' = Append(read, value)
  /\ Push(value)
  /\ \/ printed' = Append(printed, window') /\ over' = FALSE
     \/ over' = TRUE /\ UNCHANGED printed

Misread == ~over /\ over' = TRUE /\ UNCHANGED <<read, window, printed>>

Next == (\E value \in Value : Line(value)) \/ Misread

Spec == Init /\ [][Next]_vars

-----------------------------------------------------------------------------
(* Every variable has its type.                                            *)
TypeOK ==
  /\ read \in Seq(Value) /\ window \in Seq(Value) /\ printed \in Seq(Seq(Value))
  /\ over \in BOOLEAN

(* A window shows lines at a line: all of them while they are few, the     *)
(* last Count once they are not, oldest first.                             *)
Shows(seen, line, lines) ==
  /\ Len(seen) = IF line < Count THEN line ELSE Count
  /\ \A i \in 1..Len(seen) : seen[i] = lines[line - Len(seen) + i]

(* There is an array for each line read, but for one that could not be     *)
(* written; each shows the lines as they were then, whatever came since.   *)
HistoryIsTrue ==
  /\ Len(printed) \in {Len(read), Len(read) - 1}
  /\ Len(printed) = Len(read) \/ over
  /\ \A line \in 1..Len(printed) : Shows(printed[line], line, read)
=============================================================================
