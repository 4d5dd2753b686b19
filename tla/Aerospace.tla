------------------------------ MODULE Aerospace ------------------------------
(* tauler-aerospace (src/tauler-aerospace/): the workspaces of AeroSpace   *)
(* for a layout.  Its events only say that something changed: each is a    *)
(* hint to ask for the workspaces and for their windows, two queries apart.*)
(* A click is a command to AeroSpace, and a hint, too.  When the process   *)
(* ends, tauler starts it again.                                           *)
EXTENDS Naturals, Sequences

CONSTANTS
  Workspace,
  None,
  MaxEvents   \* bound: changes in AeroSpace, clicks, restarts and failing queries

VARIABLES
  focus,      \* AeroSpace: the focused workspace
  windows,    \* AeroSpace: how often its windows have changed
  subscribed, \* is `aerospace subscribe` connected
  stream,     \* its events, not read yet
  lines,      \* what tauler has written to stdin
  stdin,      \* the thread that reads it
  heard,      \* the subscribe thread: has it read an event and not sent the hint
  hints,      \* channel: refresh hints
  at,         \* the main thread
  listed,     \* what the first query of a refresh got
  printed,    \* the strip last printed
  failed,     \* history: has the last refresh failed
  events

aerospace == <<focus, windows, subscribed, stream>>
clicks == <<lines, stdin>>
strip == <<at, listed, printed, failed>>
vars == <<aerospace, clicks, heard, hints, strip, events>>

Strip == [focus : Workspace, windows : Nat]
InitEvent == [type |-> "init"]
Line == {InitEvent} \cup [type : {"switchWorkspace"}, to : Workspace]

Init ==
  /\ focus \in Workspace /\ windows = 0 /\ subscribed = FALSE /\ stream = <<>>
  /\ lines = <<InitEvent>> /\ stdin = "new" /\ heard = FALSE /\ hints = 0
  /\ at = "init" /\ listed = None /\ printed = None /\ failed = FALSE /\ events = 0

Event == events < MaxEvents /\ events' = events + 1

-----------------------------------------------------------------------------
(* AeroSpace and tauler.                                                   *)

(* Every change is an event for who has subscribed.                        *)
Raise(event) == stream' = IF subscribed THEN Append(stream, event) ELSE stream

Change ==
  /\ Event
  /\ \/ focus' \in Workspace /\ Raise("focus") /\ UNCHANGED windows
     \/ windows' = windows + 1 /\ Raise("window") /\ UNCHANGED focus
  /\ UNCHANGED <<subscribed, clicks, heard, hints, strip>>

Click(w) ==
  /\ Event /\ lines' = Append(lines, [type |-> "switchWorkspace", to |-> w])
  /\ UNCHANGED <<aerospace, stdin, heard, hints, strip>>

(* The event stream is closed, the module is killed, or the Loop reloads   *)
(* the layout: it is started again, and told so.                           *)
Restart ==
  /\ Event
  /\ subscribed' = FALSE /\ stream' = <<>> /\ lines' = <<InitEvent>> /\ stdin' = "new"
  /\ heard' = FALSE /\ hints' = 0 /\ at' = "init" /\ listed' = None
  /\ UNCHANGED <<focus, windows, printed, failed>>

-----------------------------------------------------------------------------
(* The stdin thread.                                                       *)

(* What comes before the init event is dropped.                            *)
ReadInit ==
  /\ stdin = "new" /\ lines # <<>> /\ lines' = Tail(lines)
  /\ stdin' = IF Head(lines) = InitEvent THEN "read" ELSE "new"
  /\ UNCHANGED <<aerospace, heard, hints, strip, events>>

(* AeroSpace may reject the switch; the hint is sent either way.           *)
Switch ==
  /\ stdin = "read" /\ lines # <<>> /\ lines' = Tail(lines)
  /\ IF Head(lines) = InitEvent THEN UNCHANGED <<stdin, focus, stream>>
     ELSE /\ stdin' = "switched"
          /\ \/ focus' = Head(lines).to /\ Raise("focus")
             \/ UNCHANGED <<focus, stream>>
  /\ UNCHANGED <<windows, subscribed, heard, hints, strip, events>>

SendHint ==
  /\ stdin = "switched" /\ stdin' = "read" /\ hints' = hints + 1
  /\ UNCHANGED <<aerospace, lines, heard, strip, events>>

-----------------------------------------------------------------------------
(* The subscribe thread.                                                   *)

ReadEvent ==
  /\ ~heard /\ stream # <<>> /\ heard' = TRUE /\ stream' = Tail(stream)
  /\ UNCHANGED <<focus, windows, subscribed, clicks, hints, strip, events>>

SendEventHint ==
  /\ heard /\ heard' = FALSE /\ hints' = hints + 1
  /\ UNCHANGED <<aerospace, clicks, strip, events>>

-----------------------------------------------------------------------------
(* The main thread.                                                        *)

(* Once subscribed, AeroSpace sends the state there is as the first event. *)
Subscribe ==
  /\ at = "init" /\ stdin # "new" /\ at' = "wait"
  /\ subscribed' = TRUE /\ stream' = <<"initial">>
  /\ UNCHANGED <<focus, windows, clicks, heard, hints, listed, printed, failed, events>>

Receive ==
  /\ at = "wait" /\ hints > 0 /\ hints' = hints - 1 /\ at' = "workspaces"
  /\ UNCHANGED <<aerospace, clicks, heard, listed, printed, failed, events>>

ListWorkspaces ==
  /\ at = "workspaces" /\ at' = "windows" /\ listed' = focus
  /\ UNCHANGED <<aerospace, clicks, heard, hints, printed, failed, events>>

ListWindows ==
  /\ at = "windows" /\ at' = "wait" /\ listed' = None
  /\ printed' = [focus |-> listed, windows |-> windows] /\ failed' = FALSE
  /\ UNCHANGED <<aerospace, clicks, heard, hints, events>>

(* Without either answer nothing is printed; no query is repeated.         *)
QueryFails ==
  /\ at \in {"workspaces", "windows"} /\ Event
  /\ at' = "wait" /\ listed' = None /\ failed' = TRUE
  /\ UNCHANGED <<aerospace, clicks, heard, hints, printed>>

-----------------------------------------------------------------------------
Stdin == ReadInit \/ Switch \/ SendHint
Pump == ReadEvent \/ SendEventHint
Main == Subscribe \/ Receive \/ ListWorkspaces \/ ListWindows

Next == \/ Change \/ (\E w \in Workspace : Click(w)) \/ Restart
        \/ Stdin \/ Pump \/ Main \/ QueryFails

Spec == Init /\ [][Next]_vars
FairSpec == Spec /\ WF_vars(Stdin) /\ WF_vars(Pump) /\ WF_vars(Main)

-----------------------------------------------------------------------------
(* Every variable has its type.                                            *)
TypeOK ==
  /\ focus \in Workspace /\ windows \in Nat /\ subscribed \in BOOLEAN
  /\ stream \in Seq({"initial", "focus", "window"})
  /\ lines \in Seq(Line) /\ stdin \in {"new", "read", "switched"}
  /\ heard \in BOOLEAN /\ hints \in Nat
  /\ at \in {"init", "wait", "workspaces", "windows"}
  /\ listed \in Workspace \cup {None} /\ (at = "windows" => listed \in Workspace)
  /\ printed \in Strip \cup {None} /\ failed \in BOOLEAN /\ events \in Nat

(* Nothing more of AeroSpace is on its way to the main thread.             *)
Quiet == subscribed /\ stream = <<>> /\ ~heard /\ hints = 0

(* When the module waits with nothing on its way, the strip on the screen  *)
(* is AeroSpace's, both halves of it: what changes between or during the   *)
(* two queries of a refresh always leads to another.  Unless the last one  *)
(* failed: then nothing asks again.                                        *)
StripIsCurrent ==
  Quiet /\ at = "wait" /\ ~failed => printed = [focus |-> focus, windows |-> windows]

(* And the strip ends up so.                                               *)
CatchesUp == <>[](failed \/ printed = [focus |-> focus, windows |-> windows])
=============================================================================
