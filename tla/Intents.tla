------------------------------- MODULE Intents -------------------------------
(* From the pointer to a module's stdin (src/src/pointer.rs, outbox.rs and *)
(* the input part of app.rs).  The presenter queues pointer events; a Pass *)
(* of the tick thread first hears what the modules printed, then handles   *)
(* the events it drained; what a drag wants sent goes through an Outbox    *)
(* that keeps a module to one intent at a time, the newest of the rest     *)
(* waiting.  A module is a subprocess that reads its stdin line by line.   *)
EXTENDS Integers, SequencesExt, Delivery

CONSTANTS
  Element,       \* what a press can hit on a panel: what has a handler
  Click,         \* the elements with an on_click
  Drag,          \* the elements with an on_drag
  ChannelOf,     \* the module the handlers of an element talk to
  Position,      \* where a drag can be: its handler sends one value for each
  MaxEvents,     \* bound: pointer events
  MaxPresses,    \* bound: presses among them
  MaxUnprompted, \* bound: lines printed that answer nothing
  SlowPass,      \* may REPLY_GRACE run out in the middle of a Pass
  None

ASSUME ElementsAssumption == /\ Element = Click \cup Drag
                             /\ ChannelOf \in [Element -> Channel]
ASSUME BoundsAssumption == /\ MaxEvents \in Nat /\ MaxPresses \in Nat
                           /\ MaxUnprompted \in Nat /\ SlowPass \in BOOLEAN

VARIABLES
  pass,    \* where the tick thread is in its Pass
  capture, \* the drag under way: its element and the last value sent
  busy,    \* the channels with an intent in flight and within REPLY_GRACE
  waiting, \* per channel, the intent held back
  working, \* the modules that have read an intent and not reacted to it
  lines,   \* per channel, the lines printed and not drained
  newest   \* per channel, the last intent produced

outbox == <<busy, waiting>>
modules == <<working, lines, read>>
vars == <<incoming, pass, batch, capture, outbox, stdin, modules, newest, counts>>

Event == [phase : {"press"}, element : Element, at : Position, nth : Nat]
           \cup [phase : {"move"}, at : Position]
           \cup [phase : {"release"}]

(* The number of the press that fired an intent is 0 for one of a motion.  *)
Intent == [value : Position \cup {"click"}, press : Nat, seq : Nat]

Init ==
  /\ incoming = <<>> /\ pass = "idle" /\ batch = <<>> /\ capture = None
  /\ busy = {} /\ waiting = [c \in Channel |-> None]
  /\ stdin = [c \in Channel |-> <<>>]
  /\ working = {} /\ lines = [c \in Channel |-> 0]
  /\ read = [c \in Channel |-> <<>>] /\ newest = [c \in Channel |-> None]
  /\ counts = [events |-> 0, presses |-> 0, unprompted |-> 0, intents |-> 0]

-----------------------------------------------------------------------------
(* The presenter thread.                                                   *)
Send(event) ==
  /\ counts.events < MaxEvents
  /\ incoming' = Append(incoming, event)
  /\ counts' = [counts EXCEPT !.events = @ + 1,
                              !.presses = IF event.phase = "press" THEN @ + 1 ELSE @]
  /\ UNCHANGED <<pass, batch, capture, outbox, stdin, modules, newest>>

Press(e, at) ==
  /\ counts.presses < MaxPresses
  /\ Send([phase |-> "press", element |-> e, at |-> at, nth |-> counts.presses + 1])

Move(at) == Send([phase |-> "move", at |-> at])

Release == Send([phase |-> "release"])

-----------------------------------------------------------------------------
(* The Outbox, and what the tick thread writes for it.                     *)
(* A position is held while the channel is busy, replacing what was held.  *)
Offer(c, intent) ==
  IF c \in busy
    THEN /\ waiting' = [waiting EXCEPT ![c] = intent]
         /\ UNCHANGED <<busy, stdin>>
    ELSE /\ busy' = busy \cup {c}
         /\ stdin' = [stdin EXCEPT ![c] = Append(@, intent)]
         /\ UNCHANGED waiting

(* What happened is written at once, and takes the channel.                *)
Urgent(c, intents) ==
  /\ busy' = busy \cup {c}
  /\ stdin' = [stdin EXCEPT ![c] = @ \o intents]
  /\ UNCHANGED waiting

ReleasedOnAnswer(c) == waiting[c] # None /\ lines[c] > 0
ReleasedAnyway(c) == lines[c] > 0 \/ c \notin busy

(* A waiting intent goes out on a line of its module, whatever the line is *)
(* about, or once the grace of the one before it is over.                  *)
Released(c) == waiting[c] # None /\ (lines[c] > 0 \/ c \notin busy)

(* A Pass begins.  Every line frees its channel: the first sends on what   *)
(* waits, and the next frees the channel again.                            *)
BeginPass ==
  /\ pass = "idle"
  /\ pass' = "drained"
  /\ stdin' = [c \in Channel |-> IF Released(c) THEN Append(stdin[c], waiting[c])
                                                ELSE stdin[c]]
  /\ waiting' = [c \in Channel |-> IF Released(c) THEN None ELSE waiting[c]]
  /\ busy' = {c \in Channel : IF Released(c) THEN lines[c] <= 1
                                             ELSE c \in busy /\ lines[c] = 0}
  /\ lines' = [c \in Channel |-> 0]
  /\ UNCHANGED <<incoming, batch, capture, working, read, newest, counts>>

(* REPLY_GRACE has passed since the intent in flight was sent.             *)
GraceEnds(c) ==
  /\ c \in busy /\ (SlowPass \/ pass = "idle")
  /\ busy' = busy \ {c}
  /\ UNCHANGED <<incoming, pass, batch, capture, waiting, stdin, modules, newest, counts>>

-----------------------------------------------------------------------------
(* The rest of the Pass: the events.                                       *)
CompressAny(events) ==
  LET after[n \in 0..Len(events)] ==
        IF n = 0 THEN <<>>
        ELSE Append(IF events[n].phase = "move" /\ after[n - 1] # <<>>
                      THEN Front(after[n - 1]) ELSE after[n - 1],
                    events[n])
  IN after[Len(events)]

(* compress_motion: of motions in a row only the last counts.              *)
Compress(events) ==
  LET after[n \in 0..Len(events)] ==
        IF n = 0 THEN <<>>
        ELSE Append(IF /\ events[n].phase = "move"
                       /\ after[n - 1] # <<>> /\ Last(after[n - 1]).phase = "move"
                      THEN Front(after[n - 1]) ELSE after[n - 1],
                    events[n])
  IN after[Len(events)]

DrainEvents ==
  /\ pass = "drained"
  /\ pass' = "handling"
  /\ batch' = Compress(incoming) /\ incoming' = <<>>
  /\ UNCHANGED <<capture, outbox, stdin, modules, newest, counts>>

EndPass ==
  /\ pass = "handling" /\ batch = <<>>
  /\ pass' = "idle"
  /\ UNCHANGED <<incoming, batch, capture, outbox, stdin, modules, newest, counts>>

Handling(phase) ==
  /\ pass = "handling" /\ batch # <<>> /\ Head(batch).phase = phase
  /\ batch' = Tail(batch)
  /\ UNCHANGED <<incoming, pass, modules>>

(* A press ends the drag before it, sends what its element's handlers want *)
(* and starts a drag, if the element has one.                              *)
PressIntents(press) ==
  (IF press.element \in Click
     THEN <<[value |-> "click", press |-> press.nth, seq |-> counts.intents + 1]>>
     ELSE <<>>)
  \o (IF press.element \in Drag
        THEN <<[value |-> press.at, press |-> press.nth, seq |-> counts.intents + 2]>>
        ELSE <<>>)

HandlePress ==
  /\ Handling("press")
  /\ LET press == Head(batch)
         c == ChannelOf[press.element]
         intents == PressIntents(press)
     IN /\ capture' = IF press.element \in Drag
                        THEN [element |-> press.element, last |-> press.at]
                        ELSE None
        /\ Urgent(c, intents)
        /\ newest' = [newest EXCEPT ![c] = Last(intents)]
        /\ counts' = [counts EXCEPT !.intents = @ + 2]

(* A motion is for the drag under way, if there is one, and says nothing   *)
(* new when its value is the one sent last.                                *)
HandleMove ==
  /\ Handling("move")
  /\ LET at == Head(batch).at
     IN IF capture = None \/ (capture # None /\ capture.last = at)
          THEN UNCHANGED <<capture, outbox, stdin, newest, counts>>
          ELSE LET c == ChannelOf[capture.element]
                   intent == [value |-> at, press |-> 0, seq |-> counts.intents + 1]
               IN /\ capture' = [capture EXCEPT !.last = at]
                  /\ Offer(c, intent)
                  /\ newest' = [newest EXCEPT ![c] = intent]
                  /\ counts' = [counts EXCEPT !.intents = @ + 1]

HandleRelease ==
  /\ Handling("release")
  /\ capture' = None
  /\ UNCHANGED <<outbox, stdin, newest, counts>>

Pass == BeginPass \/ DrainEvents \/ HandlePress \/ HandleMove \/ HandleRelease \/ EndPass

-----------------------------------------------------------------------------
(* Modules.  One may print whenever it likes, and need not answer.         *)
Read(c) ==
  /\ stdin[c] # <<>> /\ c \notin working
  /\ read' = [read EXCEPT ![c] = Append(@, Head(stdin[c]))]
  /\ stdin' = [stdin EXCEPT ![c] = Tail(@)]
  /\ working' = working \cup {c}
  /\ UNCHANGED <<incoming, pass, batch, capture, outbox, lines, newest, counts>>

React(c) ==
  /\ c \in working
  /\ working' = working \ {c}
  /\ \E answers \in {0, 1} : lines' = [lines EXCEPT ![c] = @ + answers]
  /\ UNCHANGED <<incoming, pass, batch, capture, outbox, stdin, read, newest, counts>>

PrintUnprompted(c) ==
  /\ counts.unprompted < MaxUnprompted
  /\ counts' = [counts EXCEPT !.unprompted = @ + 1]
  /\ lines' = [lines EXCEPT ![c] = @ + 1]
  /\ UNCHANGED <<incoming, pass, batch, capture, outbox, stdin, working, read, newest>>

Next ==
  \/ \E at \in Position : Move(at) \/ \E e \in Element : Press(e, at)
  \/ Release
  \/ Pass
  \/ \E c \in Channel : GraceEnds(c) \/ Read(c) \/ React(c) \/ PrintUnprompted(c)

Spec == Init /\ [][Next]_vars

(* Passes keep coming (every event and line pings the loop, and so does    *)
(* the supervision timer), a module keeps reading, and time goes by.  No   *)
(* module has to answer, and no pointer has to move.                       *)
FairSpec ==
  /\ Spec /\ WF_vars(Pass)
  /\ \A c \in Channel : WF_vars(GraceEnds(c)) /\ WF_vars(Read(c)) /\ WF_vars(React(c))

-----------------------------------------------------------------------------
(* Properties.                                                             *)
TypeOK ==
  /\ incoming \in Seq(Event) /\ batch \in Seq(Event)
  /\ pass \in {"idle", "drained", "handling"}
  /\ capture \in [element : Drag, last : Position] \cup {None}
  /\ busy \subseteq Channel
  /\ waiting \in [Channel -> Intent \cup {None}]
  /\ stdin \in [Channel -> Seq(Intent)]
  /\ working \subseteq Channel /\ lines \in [Channel -> Nat]
  /\ read \in [Channel -> Seq(Intent)]
  /\ newest \in [Channel -> Intent \cup {None}]
  /\ counts \in [events : Nat, presses : Nat, unprompted : Nat, intents : Nat]

(* Once the pointer rests, its module has read the last intent it produced *)
(* or will, although the channel was busy and no module has to answer      *)
(* (outbox.rs:16-20).                                                      *)
NewestIsRead ==
  \A c \in Channel : <>[](newest[c] # None => newest[c] \in Range(read[c]))

(* On its way there it is never lost: in any state, the last intent        *)
(* produced for a module is held back for it, or written (outbox.rs:16-20).*)
NewestIsKept ==
  \A c \in Channel : newest[c] # None =>
    newest[c] = waiting[c] \/ newest[c] \in Range(Written(c))

(* What a module receives next "is the newest one" (ADR 0025): it never    *)
(* reads an intent older than one it has read.                             *)
NeverOlder ==
  \A c \in Channel : \A i, j \in DOMAIN read[c] :
    i < j => read[c][i].seq < read[c][j].seq

(* "The queue is at most one deep" (ADR 0025), clicks apart: of the        *)
(* positions of a drag at most one is written and unread.                  *)
QueueOneDeep ==
  \A c \in Channel : Len(SelectSeq(stdin[c], LAMBDA i : i.press = 0)) <= 1
=============================================================================
