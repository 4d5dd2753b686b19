------------------------------ MODULE I3Bridge ------------------------------
(* tauler-i3 (src/tauler-i3/): four threads between tauler and i3.  One    *)
(* follows i3's events; one publishes the workspaces, on a schedule of a   *)
(* debounce under a heartbeat; one runs commands, among them the gaps of   *)
(* the focused workspace; one reads the props and clicks tauler sends.     *)
EXTENDS Integers, Sequences

CONSTANTS
  Workspace,
  Output,
  Bar,        \* the output the bar is on
  MaxConfig,  \* bound: the gaps a layout declares are 1..MaxConfig
  Heartbeat,  \* ticks between two refreshes, at most
  Debounce,   \* ticks a change waits for more of them
  None,       \* no change is pending
  MaxEvents   \* bound: changes in i3, clicks, props, restarts and failures

ASSUME BarAssumption == Bar \in Output
ASSUME TicksAssumption == Heartbeat \in Nat /\ Debounce \in Nat /\ Debounce < Heartbeat /\ None \notin Nat
ASSUME BoundsAssumption == MaxConfig \in Nat \ {0} /\ MaxEvents \in Nat

Gap == 0..MaxConfig
Request == [kind : {"reconcile"}] \cup [kind : {"update"}, gap : Gap \ {0}]
           \cup [kind : {"switch"}, to : Workspace]

VARIABLES
  focus,      \* i3: the focused workspace
  output,     \* i3: the output of each workspace
  gaps,       \* i3: the gaps of each workspace
  tree,       \* i3: how often the tree has changed
  subscribed, \* is the subscription connected
  stream,     \* the events sent on it, not read yet
  hints,      \* channel: refresh hints
  commands,   \* channel: requests of the command worker
  props,      \* the gaps tauler declared last
  config,     \* those the command worker goes by
  worker,     \* what the command worker does
  since,      \* ticks since the last refresh
  pending,    \* ticks the oldest change received has waited, or None
  fetched,    \* the tree a refresh has got
  shown,      \* the tree last published
  lag,        \* history: ticks for which what is published has been stale
  lost,       \* history: has a change been lost since the last refresh
  missed,     \* history: has the focused workspace changed with nobody told since
  events      \* changes, clicks, props, restarts and failures so far

i3 == <<focus, output, gaps, tree>>
subscription == <<subscribed, stream>>
refresh == <<hints, since, pending, fetched, shown>>
command == <<commands, props, config, worker>>
history == <<lag, lost, missed>>
vars == <<i3, subscription, refresh, command, history, events>>

Idle == [kind |-> "idle"]

(* desired_gaps: a workspace that left the bar's output has them revoked.  *)
Desired(w, gap) == IF output[w] = Bar THEN gap ELSE 0

Event == events < MaxEvents /\ events' = events + 1

Init ==
  /\ focus \in Workspace /\ output \in [Workspace -> Output]
  /\ gaps = [w \in Workspace |-> 0] /\ tree = 1
  /\ subscribed = FALSE /\ stream = <<>>
  /\ hints = 0 /\ commands = <<[kind |-> "reconcile"]>>
  /\ props = 1 /\ config = 1 /\ worker = Idle
  /\ since = Heartbeat /\ pending = None /\ fetched = None /\ shown = 0
  /\ lag = 0 /\ lost = TRUE /\ missed = FALSE /\ events = 0

-----------------------------------------------------------------------------
(* i3.                                                                     *)

(* A change of the tree, told to whoever is subscribed.                    *)
Tell(kind) ==
  /\ tree' = tree + 1
  /\ stream' = IF subscribed THEN Append(stream, kind) ELSE stream
  /\ lost' = (lost \/ ~subscribed)
  /\ missed' = (missed \/ (kind = "workspace" /\ ~subscribed))
  /\ UNCHANGED <<subscribed, lag>>

FocusOn(w) == focus' = w /\ Tell("workspace")

UserFocuses(w) ==
  /\ Event /\ w # focus /\ FocusOn(w)
  /\ UNCHANGED <<output, gaps, refresh, command>>

MoveToOutput(w, o) ==
  /\ Event /\ o # output[w] /\ output' = [output EXCEPT ![w] = o] /\ Tell("workspace")
  /\ UNCHANGED <<focus, gaps, refresh, command>>

WindowChanges ==
  /\ Event /\ Tell("window")
  /\ UNCHANGED <<focus, output, gaps, refresh, command>>

(* i3 restarts: connections end, and it forgets the gaps.                  *)
I3Restarts ==
  /\ Event /\ gaps' = [w \in Workspace |-> 0]
  /\ subscribed' = FALSE /\ stream' = <<>> /\ lost' = TRUE /\ missed' = TRUE
  /\ UNCHANGED <<focus, output, tree, refresh, command, lag>>

-----------------------------------------------------------------------------
(* The subscribe thread.                                                   *)

Subscribe ==
  /\ ~subscribed /\ subscribed' = TRUE
  /\ UNCHANGED <<i3, stream, refresh, command, history, events>>

(* An event that cannot be read ends the subscription, and those after it. *)
SubscriptionDrops ==
  /\ Event /\ subscribed /\ subscribed' = FALSE /\ stream' = <<>>
  /\ lost' = (lost \/ stream # <<>>)
  /\ missed' = (missed \/ \E i \in DOMAIN stream : stream[i] = "workspace")
  /\ UNCHANGED <<i3, refresh, command, lag>>

ReadEventOfFocusOnly ==
  /\ stream # <<>> /\ stream' = Tail(stream) /\ hints' = hints + 1
  /\ commands' = IF Head(stream) = "workspace" /\ output[focus] = Bar
                 THEN Append(commands, [kind |-> "reconcile"]) ELSE commands
  /\ missed' = (missed /\ Head(stream) # "workspace")
  /\ UNCHANGED <<i3, subscribed, since, pending, fetched, shown, props, config, worker, lag, lost, events>>

ReadEvent ==
  /\ stream # <<>> /\ stream' = Tail(stream) /\ hints' = hints + 1
  /\ commands' = IF Head(stream) = "workspace"
                 THEN Append(commands, [kind |-> "reconcile"]) ELSE commands
  /\ missed' = (missed /\ Head(stream) # "workspace")
  /\ UNCHANGED <<i3, subscribed, since, pending, fetched, shown, props, config, worker, lag, lost, events>>

-----------------------------------------------------------------------------
(* The stdin thread.                                                       *)

NewProps(gap) ==
  /\ Event /\ gap # props /\ props' = gap
  /\ commands' = Append(commands, [kind |-> "update", gap |-> gap]) /\ missed' = FALSE
  /\ UNCHANGED <<i3, subscription, refresh, config, worker, lag, lost>>

Click(w) ==
  /\ Event /\ commands' = Append(commands, [kind |-> "switch", to |-> w])
  /\ UNCHANGED <<i3, subscription, refresh, props, config, worker, history>>

-----------------------------------------------------------------------------
(* The command worker.                                                     *)

TakeCommand ==
  /\ worker = Idle /\ commands # <<>>
  /\ LET request == Head(commands) IN
     /\ config' = IF request.kind = "update" THEN request.gap ELSE config
     /\ worker' = IF request.kind = "switch" THEN request ELSE [kind |-> "ask"]
  /\ commands' = Tail(commands)
  /\ UNCHANGED <<i3, subscription, refresh, props, history, events>>

(* reconcile_gaps: GET_WORKSPACES, for the output of the focused one.      *)
AskFocused ==
  /\ worker.kind = "ask"
  /\ worker' = [kind |-> "apply", gap |-> Desired(focus, config)]
  /\ UNCHANGED <<i3, subscription, refresh, commands, props, config, history, events>>

(* RUN_COMMAND writes the workspace that is focused by then.  If only the  *)
(* reply is lost, with_retry runs it a second time.                        *)
Apply ==
  /\ worker.kind = "apply" /\ gaps' = [gaps EXCEPT ![focus] = worker.gap]
  /\ \/ worker' = Idle /\ UNCHANGED events
     \/ Event /\ UNCHANGED worker
  /\ UNCHANGED <<focus, output, tree, subscription, refresh, commands, props, config, history>>

SwitchWorkspace ==
  /\ worker.kind = "switch"
  /\ IF worker.to = focus THEN UNCHANGED <<i3, subscription, history>>
     ELSE FocusOn(worker.to) /\ UNCHANGED <<output, gaps>>
  /\ \/ worker' = Idle /\ UNCHANGED events
     \/ Event /\ UNCHANGED worker
  /\ UNCHANGED <<refresh, commands, props, config>>

(* Both attempts fail: it is logged, and the request is over.              *)
CommandFails ==
  /\ Event /\ worker # Idle /\ worker' = Idle
  /\ missed' = (missed \/ worker.kind \in {"ask", "apply"})
  /\ UNCHANGED <<i3, subscription, refresh, commands, props, config, lag, lost>>

-----------------------------------------------------------------------------
(* The refresh worker.                                                     *)

DueAfterQuiet == IF pending = None THEN since >= Heartbeat ELSE pending >= Heartbeat

(* next_wakeup.                                                            *)
Due == since >= Heartbeat \/ (pending # None /\ pending >= Debounce)

ReceiveHint ==
  /\ fetched = None /\ ~Due /\ hints > 0 /\ hints' = hints - 1
  /\ pending' = IF pending = None THEN 0 ELSE pending
  /\ UNCHANGED <<i3, subscription, command, since, fetched, shown, history, events>>

Fetch ==
  /\ fetched = None /\ Due /\ fetched' = tree /\ lag' = 0 /\ lost' = FALSE
  /\ UNCHANGED <<i3, subscription, command, hints, since, pending, shown, missed, events>>

PublishAndDrain ==
  /\ fetched # None /\ shown' = fetched /\ fetched' = None
  /\ since' = 0 /\ pending' = None /\ hints' = 0
  /\ UNCHANGED <<i3, subscription, command, history, events>>

(* The hints of changes seen since the tree was got stay in the channel.   *)
Publish ==
  /\ fetched # None /\ shown' = fetched /\ fetched' = None
  /\ since' = 0 /\ pending' = None
  /\ UNCHANGED <<i3, subscription, command, hints, history, events>>

(* GET_TREE fails twice: the schedule starts again as if it had not.       *)
FetchFails ==
  /\ Event /\ fetched = None /\ Due
  /\ since' = 0 /\ pending' = None /\ lag' = 0 /\ lost' = TRUE
  /\ UNCHANGED <<i3, subscription, command, hints, fetched, shown, missed>>

(* Time passes once the threads have done what they can do at once.        *)
Tick ==
  /\ ~Due /\ fetched = None /\ hints = 0 /\ stream = <<>>
  /\ since' = since + 1
  /\ pending' = IF pending = None THEN None ELSE pending + 1
  /\ lag' = IF shown = tree THEN 0 ELSE lag + 1
  /\ UNCHANGED <<i3, subscription, command, hints, fetched, shown, lost, missed, events>>

-----------------------------------------------------------------------------
Subscriber == Subscribe \/ ReadEvent
Commander == TakeCommand \/ AskFocused \/ Apply \/ SwitchWorkspace
Refresher == ReceiveHint \/ Fetch \/ Publish

Next ==
  \/ \E w \in Workspace : UserFocuses(w) \/ Click(w)
  \/ \E w \in Workspace, o \in Output : MoveToOutput(w, o)
  \/ \E gap \in Gap \ {0} : NewProps(gap)
  \/ WindowChanges \/ I3Restarts \/ SubscriptionDrops \/ CommandFails \/ FetchFails
  \/ Subscriber \/ Commander \/ Refresher \/ Tick

Spec == Init /\ [][Next]_vars

(* The threads run, and i3 answers.                                        *)
FairSpec == Spec /\ WF_vars(Subscriber) /\ WF_vars(Commander)

-----------------------------------------------------------------------------
(* Every variable has its type; a change received waits in one place.      *)
TypeOK ==
  /\ focus \in Workspace /\ output \in [Workspace -> Output]
  /\ gaps \in [Workspace -> Gap] /\ tree \in Nat
  /\ subscribed \in BOOLEAN /\ stream \in Seq({"workspace", "window"}) /\ hints \in Nat
  /\ commands \in Seq(Request) /\ props \in Gap \ {0} /\ config \in Gap \ {0}
  /\ \/ worker.kind \in {"idle", "ask"}
     \/ worker.kind = "apply" /\ worker.gap \in Gap
     \/ worker.kind = "switch" /\ worker.to \in Workspace
  /\ since \in 0..Heartbeat /\ pending \in 0..Debounce \cup {None}
  /\ fetched \in 0..tree \cup {None} /\ shown \in 0..tree
  /\ lag \in Nat /\ lost \in BOOLEAN /\ missed \in BOOLEAN /\ events \in 0..MaxEvents

(* What is published is never stale for longer than the debounce, or than  *)
(* the heartbeat if an event was lost or, from then on, a fetch failed:    *)
(* not when changes keep coming, and not for one that comes while the tree *)
(* is fetched (next_wakeup, refresh_worker.rs).                            *)
StaleForABit == lag <= IF lost THEN Heartbeat ELSE Debounce

(* The focused workspace ends up with the gaps the bar declares on its     *)
(* output, and none elsewhere, though the focus may move between the       *)
(* question which it is and the command, which only reaches the focused    *)
(* one; unless nobody told of its last change (reconcile_gaps).            *)
GapsSettle == <>[](missed \/ gaps[focus] = Desired(focus, props))

(* A look at the focused workspace is asked for, or will be, or begins.    *)
ReconcileComing ==
  \/ \E i \in DOMAIN stream : stream[i] = "workspace"
  \/ \E i \in DOMAIN commands : commands[i].kind \in {"reconcile", "update"}
  \/ worker.kind = "ask"

(* What that rests on, in any state: the gaps of the focused workspace, or *)
(* those about to be written to it, are right, or a look is coming.        *)
GapsAreComing ==
  LET intended == IF worker.kind = "apply" THEN worker.gap ELSE gaps[focus]
  IN missed \/ ReconcileComing \/ intended = Desired(focus, props)
=============================================================================
