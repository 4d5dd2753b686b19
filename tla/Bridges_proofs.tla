--------------------------- MODULE Bridges_proofs ---------------------------
(* The modules between tauler and its neighbours: what tauler-i3 publishes *)
(* is not stale for long, what tauler-aerospace shows is AeroSpace's, what *)
(* tauler-accumulate prints is the last of what it read; and <I3Layout>,   *)
(* whose gaps tauler-i3 sets, tiles the screen.  Each theorem is about one *)
(* of the modules alone: the others are instances, whose variables share   *)
(* with I3Bridge no more than names.                                       *)
EXTENDS I3Bridge, TLAPS

(* What the refresh worker goes by, and the rest of TypeOK.                *)
TimingOK ==
  /\ tree \in Nat /\ subscribed \in BOOLEAN /\ stream \in Seq({"workspace", "window"})
  /\ hints \in Nat /\ since \in 0..Heartbeat /\ pending \in 0..Debounce \cup {None}
  /\ fetched \in 0..tree \cup {None} /\ shown \in 0..tree
  /\ lag \in Nat /\ lost \in BOOLEAN

(* Nothing is stale for longer than since the last refresh, nor, unless a  *)
(* change was lost, than the oldest change received has waited; and a      *)
(* change that was not lost is on its way to the worker, or waits there.   *)
Timed ==
  /\ lag <= since
  /\ fetched # None => lag = 0
  /\ ~lost => lag = 0 \/ (pending # None /\ lag <= pending)
  /\ ~lost /\ fetched = None /\ shown # tree => pending # None \/ hints > 0 \/ stream # <<>>
  /\ ~lost /\ fetched # None /\ fetched # tree => hints > 0 \/ stream # <<>>

(* What the tree may do in a step that is not the refresh worker's.        *)
Changes ==
  /\ UNCHANGED <<since, pending, fetched, shown, lag>>
  /\ \/ UNCHANGED <<tree, stream, hints, lost>> /\ subscribed' \in BOOLEAN
     \/ \E kind \in {"workspace", "window"} : Tell(kind) /\ UNCHANGED hints
     \/ UNCHANGED <<tree, hints>> /\ subscribed' = FALSE /\ stream' = <<>> /\ lost' = (lost \/ stream # <<>>)
     \/ UNCHANGED <<tree, hints>> /\ subscribed' = FALSE /\ stream' = <<>> /\ lost' = TRUE
     \/ /\ stream # <<>> /\ stream' = Tail(stream) /\ hints' = hints + 1
        /\ UNCHANGED <<tree, subscribed, lost>>

(* A stream nobody has written to.                                         *)
LEMMA Empty == <<>> \in Seq({"workspace", "window"})
  OBVIOUS

(* A change is told, or it is lost.                                        *)
LEMMA ChangesKeep ==
  ASSUME TimingOK, Timed, Changes
  PROVE  TimingOK' /\ Timed'
<1> USE DEF TimingOK, Timed
<1>0. UNCHANGED <<since, pending, fetched, shown, lag>>  BY DEF Changes
<1>1. CASE UNCHANGED <<tree, stream, hints, lost>> /\ subscribed' \in BOOLEAN
  BY <1>0, <1>1
<1>2. ASSUME NEW kind \in {"workspace", "window"}, Tell(kind), UNCHANGED hints
      PROVE  TimingOK' /\ Timed'
  <2>1. /\ tree' = tree + 1 /\ subscribed' = subscribed
        /\ stream' = IF subscribed THEN Append(stream, kind) ELSE stream
        /\ lost' = (lost \/ ~subscribed)
    BY <1>2 DEF Tell
  <2>2. stream' \in Seq({"workspace", "window"}) /\ (subscribed => stream' # <<>>)
    BY <2>1
  <2>3. fetched' \in 0..tree' \cup {None} /\ shown' \in 0..tree' /\ tree' \in Nat
    BY <1>0, <2>1
  <2>4. TimingOK'  BY <1>0, <1>2, <2>1, <2>2, <2>3
  <2>5. Timed'
    <3>1. ~lost' => stream' # <<>> /\ ~lost  BY <2>1, <2>2
    <3>2. lag' <= since' /\ (fetched' # None => lag' = 0)  BY <1>0
    <3>3. ~lost' => lag' = 0 \/ (pending' # None /\ lag' <= pending')  BY <1>0, <3>1
    <3> QED  BY <3>1, <3>2, <3>3
  <2> QED  BY <2>4, <2>5
<1>3. CASE UNCHANGED <<tree, hints>> /\ subscribed' = FALSE /\ stream' = <<>> /\ lost' = (lost \/ stream # <<>>)
  <2>1. TimingOK'
    <3>1. stream' \in Seq({"workspace", "window"})  BY <1>3, Empty, Zenon
    <3> QED  BY <1>0, <1>3, <3>1
  <2>2. ~lost' => ~lost /\ stream' = stream  BY <1>3
  <2>3. Timed'
    <3>1. lag' <= since' /\ (fetched' # None => lag' = 0)  BY <1>0
    <3>2. ~lost' => lag' = 0 \/ (pending' # None /\ lag' <= pending')  BY <1>0, <2>2
    <3>3. ~lost' /\ fetched' = None /\ shown' # tree' => pending' # None \/ hints' > 0 \/ stream' # <<>>
      BY <1>0, <1>3, <2>2, Zenon
    <3>4. ~lost' /\ fetched' # None /\ fetched' # tree' => hints' > 0 \/ stream' # <<>>
      BY <1>0, <1>3, <2>2, Zenon
    <3> QED  BY <3>1, <3>2, <3>3, <3>4
  <2> QED  BY <2>1, <2>3
<1>4. CASE UNCHANGED <<tree, hints>> /\ subscribed' = FALSE /\ stream' = <<>> /\ lost' = TRUE
  <2>1. stream' \in Seq({"workspace", "window"})  BY <1>4, Empty, Zenon
  <2>2. TimingOK'  BY <1>0, <1>4, <2>1
  <2>3. lost' = TRUE  BY <1>4
  <2>4. Timed'  BY <1>0, <2>3
  <2> QED  BY <2>2, <2>4
<1>5. CASE /\ stream # <<>> /\ stream' = Tail(stream) /\ hints' = hints + 1
           /\ UNCHANGED <<tree, subscribed, lost>>
  <2>1. TimingOK'  BY <1>0, <1>5
  <2>2. Timed'  BY <1>0, <1>5
  <2> QED  BY <2>1, <2>2
<1> QED  BY <1>1, <1>2, <1>3, <1>4, <1>5 DEF Changes

(* The refresh worker and the clock: it does not pass while a change is on *)
(* its way, and a refresh that is due ends what is stale.                  *)
LEMMA RefreshKeeps ==
  ASSUME TimingOK, Timed, ReceiveHint \/ Fetch \/ Publish \/ FetchFails \/ Tick
  PROVE  TimingOK' /\ Timed'
<1> USE TicksAssumption DEF TimingOK, Timed
<1>1. CASE ReceiveHint
  <2>1. /\ hints > 0 /\ hints' = hints - 1 /\ fetched = None
        /\ pending' = IF pending = None THEN 0 ELSE pending
        /\ UNCHANGED <<tree, subscribed, stream, since, fetched, shown, lag, lost>>
    BY <1>1 DEF ReceiveHint, i3, subscription, history
  <2>2. pending' \in 0..Debounce /\ pending' # None  BY <2>1
  <2>3. TimingOK'  BY <2>1, <2>2
  <2>4. Timed'  BY <2>1, <2>2
  <2> QED  BY <2>3, <2>4
<1>2. CASE Fetch
  <2>1. /\ fetched = None /\ fetched' = tree /\ lag' = 0 /\ lost' = FALSE
        /\ UNCHANGED <<tree, subscribed, stream, hints, since, pending, shown>>
    BY <1>2 DEF Fetch, i3, subscription
  <2>2. fetched' \in 0..tree /\ fetched' # None  BY <2>1
  <2>3. TimingOK'  BY <2>1, <2>2
  <2>4. Timed'  BY <2>1, <2>2
  <2> QED  BY <2>3, <2>4
<1>3. CASE Publish
  <2>1. /\ fetched # None /\ shown' = fetched /\ fetched' = None /\ since' = 0 /\ pending' = None
        /\ UNCHANGED <<tree, subscribed, stream, hints, lag, lost>>
    BY <1>3 DEF Publish, i3, subscription, history
  <2>2. lag = 0  BY <2>1
  <2>3. TimingOK'  BY <2>1
  <2>4. Timed'  BY <2>1, <2>2
  <2> QED  BY <2>3, <2>4
<1>4. CASE FetchFails
  <2>1. /\ fetched = None /\ since' = 0 /\ pending' = None /\ lag' = 0 /\ lost' = TRUE
        /\ UNCHANGED <<tree, subscribed, stream, hints, fetched, shown>>
    BY <1>4 DEF FetchFails, i3, subscription
  <2>2. TimingOK'  BY <2>1
  <2>3. Timed'  BY <2>1
  <2> QED  BY <2>2, <2>3
<1>5. CASE Tick
  <2>1. /\ ~Due /\ fetched = None /\ hints = 0 /\ stream = <<>> /\ since' = since + 1
        /\ pending' = IF pending = None THEN None ELSE pending + 1
        /\ lag' = IF shown = tree THEN 0 ELSE lag + 1
        /\ UNCHANGED <<tree, subscribed, stream, hints, fetched, shown, lost>>
    BY <1>5 DEF Tick, i3, subscription
  <2>2. since < Heartbeat /\ (pending # None => pending < Debounce)
    BY <2>1 DEF Due
  <2>3. pending' \in 0..Debounce \cup {None} /\ since' \in 0..Heartbeat  BY <2>1, <2>2
  <2>4. TimingOK'  BY <2>1, <2>3
  <2>5. lag' <= since' /\ fetched' = None  BY <2>1
  <2>6. ~lost' => lag' = 0 \/ (pending' # None /\ lag' <= pending')
    <3>1. CASE shown = tree  BY <2>1, <3>1
    <3>2. CASE shown # tree
      <4>1. ~lost => pending # None  BY <2>1, <3>2
      <4>2. ~lost => lag <= pending
        BY <4>1
      <4>3. ~lost => pending' = pending + 1 /\ pending \in Nat /\ pending' \in Nat  BY <2>1, <4>1
      <4>4. lag' = lag + 1  BY <2>1, <3>2
      <4> QED  BY <2>1, <4>2, <4>3, <4>4
    <3> QED  BY <3>1, <3>2
  <2>7. ~lost' /\ shown' # tree' => pending' # None
    <3>1. ~lost /\ shown # tree => pending # None  BY <2>1
    <3>2. pending # None => pending' # None  BY <2>1, <2>2
    <3> QED  BY <2>1, <3>1, <3>2
  <2>8. Timed'  BY <2>5, <2>6, <2>7
  <2> QED  BY <2>4, <2>8
<1> QED  BY <1>1, <1>2, <1>3, <1>4, <1>5

(* Every other step changes the tree at most, and tells it or loses it.    *)
LEMMA OtherSteps ==
  ASSUME TimingOK, Next
  PROVE  Changes \/ ReceiveHint \/ Fetch \/ Publish \/ FetchFails \/ Tick
<1> USE DEF i3, subscription, refresh, history, Changes
<1>1. ASSUME NEW w \in Workspace, UserFocuses(w) PROVE Changes
  BY <1>1, Zenon DEF UserFocuses, FocusOn, Tell
<1>2. ASSUME NEW w \in Workspace, Click(w) PROVE Changes
  <2>1. UNCHANGED <<since, pending, fetched, shown, lag, tree, stream, hints, lost, subscribed>>
    BY <1>2 DEF Click
  <2> QED  BY <2>1 DEF TimingOK
<1>3. ASSUME NEW w \in Workspace, NEW o \in Output, MoveToOutput(w, o) PROVE Changes
  BY <1>3, Zenon DEF MoveToOutput, Tell
<1>4. ASSUME NEW gap \in Gap \ {0}, NewProps(gap) PROVE Changes
  <2>1. UNCHANGED <<since, pending, fetched, shown, lag, tree, stream, hints, lost, subscribed>>
    BY <1>4 DEF NewProps
  <2> QED  BY <2>1 DEF TimingOK
<1>5. CASE WindowChanges  BY <1>5, Zenon DEF WindowChanges, Tell
<1>6. CASE I3Restarts  BY <1>6 DEF I3Restarts
<1>7. CASE SubscriptionDrops  BY <1>7 DEF SubscriptionDrops
<1>8. CASE CommandFails
  <2>1. UNCHANGED <<since, pending, fetched, shown, lag, tree, stream, hints, lost, subscribed>>
    BY <1>8 DEF CommandFails
  <2> QED  BY <2>1 DEF TimingOK
<1>9. CASE Subscribe  BY <1>9 DEF Subscribe
<1>10. CASE ReadEvent  BY <1>10 DEF ReadEvent
<1>11. CASE TakeCommand \/ AskFocused \/ Apply
  <2>1. UNCHANGED <<since, pending, fetched, shown, lag, tree, stream, hints, lost, subscribed>>
    BY <1>11 DEF TakeCommand, AskFocused, Apply
  <2> QED  BY <2>1 DEF TimingOK
<1>12. CASE SwitchWorkspace
  <2>1. CASE worker.to = focus
    <3>1. UNCHANGED <<since, pending, fetched, shown, lag, tree, stream, hints, lost, subscribed>>
      BY <1>12, <2>1 DEF SwitchWorkspace
    <3> QED  BY <3>1 DEF TimingOK
  <2>2. CASE worker.to # focus
    <3>1. Tell("workspace") /\ UNCHANGED <<since, pending, fetched, shown, hints>>
      BY <1>12, <2>2, Zenon DEF SwitchWorkspace, FocusOn
    <3>2. UNCHANGED lag  BY <3>1, Zenon DEF Tell
    <3> QED  BY <3>1, <3>2, Zenon
  <2> QED  BY <2>1, <2>2
<1> QED
  BY <1>1, <1>2, <1>3, <1>4, <1>5, <1>6, <1>7, <1>8, <1>9, <1>10, <1>11, <1>12, Zenon
     DEF Next, Subscriber, Commander, Refresher

(* Both hold of every step of the bridge.                                  *)
LEMMA TimedHolds == Spec => [](TimingOK /\ Timed)
<1>1. Init => TimingOK /\ Timed
  <2> SUFFICES ASSUME Init PROVE TimingOK /\ Timed
    OBVIOUS
  <2>1. /\ tree = 1 /\ subscribed = FALSE /\ stream = <<>> /\ hints = 0
        /\ since = Heartbeat /\ pending = None /\ fetched = None /\ shown = 0
        /\ lag = 0 /\ lost = TRUE
    BY DEF Init
  <2>2. TimingOK
    <3>1. stream \in Seq({"workspace", "window"})  BY <2>1, Empty, Zenon
    <3>2. tree \in Nat /\ shown \in 0..tree /\ since \in 0..Heartbeat
      BY <2>1, TicksAssumption
    <3>3. /\ subscribed \in BOOLEAN /\ hints \in Nat /\ pending \in 0..Debounce \cup {None}
          /\ fetched \in 0..tree \cup {None} /\ lag \in Nat /\ lost \in BOOLEAN
      BY <2>1
    <3> QED  BY <3>1, <3>2, <3>3, Zenon DEF TimingOK
  <2>3. Timed  BY <2>1, TicksAssumption DEF Timed
  <2> QED  BY <2>2, <2>3
<1>2. TimingOK /\ Timed /\ [Next]_vars => TimingOK' /\ Timed'
  <2> SUFFICES ASSUME TimingOK, Timed, [Next]_vars PROVE TimingOK' /\ Timed'
    OBVIOUS
  <2>1. CASE Next  BY <2>1, OtherSteps, ChangesKeep, RefreshKeeps, Zenon
  <2>2. CASE UNCHANGED vars
    <3>1. UNCHANGED <<tree, subscribed, stream, hints, since, pending, fetched, shown, lag, lost>>
      BY <2>2 DEF vars, i3, subscription, refresh, history
    <3> QED  BY <3>1, Zenon DEF TimingOK, Timed
  <2> QED  BY <2>1, <2>2
<1> QED  BY <1>1, <1>2, PTL DEF Spec

(* What is published is never stale for longer than the debounce, or than  *)
(* the heartbeat if a change was lost or a fetch failed, however changes,  *)
(* clicks, restarts of i3 and failures of its connections interleave.      *)
THEOREM NeverStaleForLong == Spec => []StaleForABit
<1>1. TimingOK /\ Timed => StaleForABit
  <2> SUFFICES ASSUME TimingOK, Timed PROVE StaleForABit
    OBVIOUS
  <2>1. CASE lost  BY <2>1, TicksAssumption DEF TimingOK, Timed, StaleForABit
  <2>2. CASE ~lost  BY <2>2, TicksAssumption DEF TimingOK, Timed, StaleForABit
  <2> QED  BY <2>1, <2>2
<1> QED  BY <1>1, TimedHolds, PTL

(* What the command worker goes by.                                        *)
CommandOK ==
  /\ focus \in Workspace /\ output \in [Workspace -> Output] /\ gaps \in [Workspace -> Gap]
  /\ commands \in Seq(Request) /\ props \in Gap \ {0} /\ config \in Gap \ {0}
  /\ \/ worker.kind \in {"idle", "ask"}
     \/ worker.kind = "apply" /\ worker.gap \in Gap
     \/ worker.kind = "switch" /\ worker.to \in Workspace
  /\ missed \in BOOLEAN /\ events \in 0..MaxEvents

(* An event is counted, up to the bound.                                   *)
LEMMA Counted ==
  ASSUME CommandOK, Event \/ UNCHANGED events
  PROVE  events' \in 0..MaxEvents
BY BoundsAssumption DEF CommandOK, Event

(* What is sent to the command worker is a request.                        *)
LEMMA Requested ==
  /\ [kind |-> "reconcile"] \in Request
  /\ \A gap \in Gap \ {0} : [kind |-> "update", gap |-> gap] \in Request
  /\ \A w \in Workspace : [kind |-> "switch", to |-> w] \in Request
BY DEF Request

(* Focus, output and gaps are of workspaces, and every request is one.     *)
LEMMA CommandsKeep ==
  ASSUME CommandOK, [Next]_vars
  PROVE  CommandOK'
<1> USE DEF CommandOK, i3, subscription, refresh, command, history
<1>1. ASSUME NEW w \in Workspace, UserFocuses(w) PROVE CommandOK'
  <2>1. focus' = w /\ missed' \in BOOLEAN /\ events' \in 0..MaxEvents
    BY <1>1, Counted DEF UserFocuses, FocusOn, Tell
  <2> QED  BY <1>1, <2>1 DEF UserFocuses
<1>2. ASSUME NEW w \in Workspace, Click(w) PROVE CommandOK'
  <2>1. commands' \in Seq(Request)  BY <1>2, Requested DEF Click
  <2>2. events' \in 0..MaxEvents  BY <1>2, Counted DEF Click
  <2> QED  BY <1>2, <2>1, <2>2 DEF Click
<1>3. ASSUME NEW w \in Workspace, NEW o \in Output, MoveToOutput(w, o) PROVE CommandOK'
  <2>1. output' \in [Workspace -> Output] /\ missed' \in BOOLEAN /\ events' \in 0..MaxEvents
    BY <1>3, Counted DEF MoveToOutput, Tell
  <2> QED  BY <1>3, <2>1 DEF MoveToOutput
<1>4. ASSUME NEW gap \in Gap \ {0}, NewProps(gap) PROVE CommandOK'
  <2>1. commands' \in Seq(Request)  BY <1>4, Requested DEF NewProps
  <2>2. events' \in 0..MaxEvents  BY <1>4, Counted DEF NewProps
  <2> QED  BY <1>4, <2>1, <2>2 DEF NewProps
<1>5. CASE WindowChanges
  <2>1. missed' \in BOOLEAN /\ events' \in 0..MaxEvents
    BY <1>5, Counted DEF WindowChanges, Tell
  <2> QED  BY <1>5, <2>1 DEF WindowChanges
<1>6. CASE I3Restarts
  <2>1. gaps' \in [Workspace -> Gap]  BY <1>6, BoundsAssumption DEF I3Restarts, Gap
  <2>2. missed' \in BOOLEAN /\ events' \in 0..MaxEvents  BY <1>6, Counted DEF I3Restarts
  <2> QED  BY <1>6, <2>1, <2>2 DEF I3Restarts
<1>7. CASE SubscriptionDrops
  <2>1. missed' \in BOOLEAN /\ events' \in 0..MaxEvents  BY <1>7, Counted DEF SubscriptionDrops
  <2> QED  BY <1>7, <2>1 DEF SubscriptionDrops
<1>8. CASE CommandFails
  <2>1. missed' \in BOOLEAN /\ events' \in 0..MaxEvents  BY <1>8, Counted DEF CommandFails
  <2> QED  BY <1>8, <2>1 DEF CommandFails, Idle
<1>9. CASE Subscribe  BY <1>9 DEF Subscribe
<1>10. CASE ReadEvent
  <2>1. commands' \in Seq(Request)  BY <1>10, Requested DEF ReadEvent
  <2>2. missed' \in BOOLEAN  BY <1>10 DEF ReadEvent
  <2> QED  BY <1>10, <2>1, <2>2 DEF ReadEvent
<1>11. CASE TakeCommand
  <2> DEFINE request == Head(commands)
  <2>1. request \in Request /\ Tail(commands) \in Seq(Request)  BY <1>11 DEF TakeCommand
  <2>2. /\ request.kind = "update" => request.gap \in Gap \ {0}
        /\ request.kind = "switch" => request.to \in Workspace
    <3> HIDE DEF request
    <3>1. CASE request \in [kind : {"reconcile"}]
      BY <3>1
    <3>2. CASE request \in [kind : {"update"}, gap : Gap \ {0}]
      BY <3>2
    <3>3. CASE request \in [kind : {"switch"}, to : Workspace]
      BY <3>3
    <3> QED
      BY <2>1, <3>1, <3>2, <3>3 DEF Request
  <2>3. config' \in Gap \ {0}  BY <1>11, <2>2 DEF TakeCommand
  <2>4. \/ worker'.kind \in {"idle", "ask"}
        \/ worker'.kind = "switch" /\ worker'.to \in Workspace
    BY <1>11, <2>2 DEF TakeCommand
  <2> QED  BY <1>11, <2>1, <2>3, <2>4 DEF TakeCommand
<1>12. CASE AskFocused
  <2>1. Desired(focus, config) \in Gap  BY BoundsAssumption DEF Desired, Gap
  <2>2. worker'.kind = "apply" /\ worker'.gap \in Gap  BY <1>12, <2>1 DEF AskFocused
  <2> QED  BY <1>12, <2>2 DEF AskFocused
<1>13. CASE Apply
  <2>1. gaps' \in [Workspace -> Gap] /\ events' \in 0..MaxEvents  BY <1>13, Counted DEF Apply
  <2>2. worker' = Idle \/ UNCHANGED worker  BY <1>13 DEF Apply
  <2> QED  BY <1>13, <2>1, <2>2 DEF Apply, Idle
<1>14. CASE SwitchWorkspace
  <2>1. events' \in 0..MaxEvents  BY <1>14, Counted DEF SwitchWorkspace
  <2>2. worker' = Idle \/ UNCHANGED worker  BY <1>14 DEF SwitchWorkspace
  <2>3. focus' \in Workspace /\ missed' \in BOOLEAN  BY <1>14 DEF SwitchWorkspace, FocusOn, Tell
  <2>4. UNCHANGED <<output, gaps, commands, props, config>>  BY <1>14 DEF SwitchWorkspace
  <2> QED  BY <2>1, <2>2, <2>3, <2>4 DEF Idle
<1>15. CASE Refresher \/ Tick
  BY <1>15 DEF Refresher, ReceiveHint, Fetch, Publish, Tick
<1>16. CASE FetchFails
  <2>1. events' \in 0..MaxEvents  BY <1>16, Counted DEF FetchFails
  <2> QED  BY <1>16, <2>1 DEF FetchFails
<1>17. CASE UNCHANGED vars  BY <1>17 DEF vars
<1> QED
  BY <1>1, <1>2, <1>3, <1>4, <1>5, <1>6, <1>7, <1>8, <1>9, <1>10, <1>11, <1>12, <1>13, <1>14,
     <1>15, <1>16, <1>17, Zenon DEF Next, Subscriber, Commander

(* Every variable has its type, under the bound on events: what queues and *)
(* workers hold is of workspaces, gaps and ticks.                          *)
THEOREM I3Typed == Spec => []TypeOK
<1>1. Init => CommandOK
  <2> SUFFICES ASSUME Init PROVE CommandOK
    OBVIOUS
  <2>1. gaps \in [Workspace -> Gap] /\ props \in Gap \ {0} /\ config \in Gap \ {0}
    BY BoundsAssumption DEF Init, Gap
  <2>2. commands \in Seq(Request)  BY Requested DEF Init
  <2>3. worker.kind = "idle"
    <3>1. worker = [kind |-> "idle"]  BY DEF Init, Idle
    <3> QED  BY <3>1
  <2>4. missed = FALSE /\ events = 0
    BY Zenon DEF Init
  <2>5. focus \in Workspace /\ output \in [Workspace -> Output]
    BY DEF Init
  <2>6. missed \in BOOLEAN /\ events \in 0..MaxEvents
    <3>1. 0 \in 0..MaxEvents  BY BoundsAssumption
    <3> QED  BY <2>4, <3>1, Zenon
  <2> QED  BY <2>1, <2>2, <2>3, <2>5, <2>6, Zenon DEF CommandOK
<1>2. TimingOK /\ CommandOK => TypeOK
  BY DEF TimingOK, CommandOK, TypeOK
<1>3. CommandOK /\ [Next]_vars => CommandOK'
  BY CommandsKeep
<1> QED  BY <1>1, <1>2, <1>3, TimedHolds, PTL DEF Spec

(* Once the requests that wait are taken, the worker goes by the props     *)
(* declared last.                                                          *)
LastUpdate ==
  \/ config = props /\ \A i \in DOMAIN commands : commands[i].kind # "update"
  \/ \E i \in DOMAIN commands :
       /\ commands[i].kind = "update" /\ commands[i].gap = props
       /\ \A j \in DOMAIN commands : j > i => commands[j].kind # "update"

(* A change of the focused workspace is told, or it is missed.             *)
LEMMA TellingComes ==
  ASSUME TypeOK, Tell("workspace")
  PROVE  missed' \/ ReconcileComing'
<1>1. CASE subscribed
  <2>1. stream' = Append(stream, "workspace") /\ stream \in Seq({"workspace", "window"})
    BY <1>1 DEF Tell, TypeOK
  <2>2. Len(stream') \in DOMAIN stream' /\ stream'[Len(stream')] = "workspace"
    BY <2>1
  <2> QED BY <2>2 DEF ReconcileComing
<1>2. CASE ~subscribed
  BY <1>2 DEF Tell
<1> QED BY <1>1, <1>2

(* A request sent is the last there is.                                    *)
LEMMA SendingLasts ==
  ASSUME TypeOK, NEW request \in Request, commands' = Append(commands, request),
         LastUpdate, UNCHANGED config,
         IF request.kind = "update" THEN request.gap = props' ELSE UNCHANGED props
  PROVE  /\ LastUpdate'
         /\ \E i \in DOMAIN commands' : commands'[i] = request
         /\ \A i \in DOMAIN commands : i \in DOMAIN commands' /\ commands'[i] = commands[i]
<1>1. /\ DOMAIN commands = 1..Len(commands) /\ Len(commands) \in Nat
      /\ DOMAIN commands' = 1..(Len(commands) + 1)
      /\ commands'[Len(commands) + 1] = request
      /\ \A i \in 1..Len(commands) : commands'[i] = commands[i]
  BY DEF TypeOK
<1>2. CASE request.kind = "update"
  <2>1. \A j \in DOMAIN commands' : ~(j > Len(commands) + 1)
    BY <1>1
  <2> QED BY <1>1, <1>2, <2>1 DEF LastUpdate
<1>3. CASE request.kind # "update"
  <2>1. CASE config = props /\ \A i \in DOMAIN commands : commands[i].kind # "update"
    BY <1>1, <1>3, <2>1 DEF LastUpdate
  <2>2. ASSUME NEW i \in DOMAIN commands, commands[i].kind = "update", commands[i].gap = props,
               \A j \in DOMAIN commands : j > i => commands[j].kind # "update"
        PROVE  LastUpdate'
    <3>1. \A j \in DOMAIN commands' : j > i => commands'[j].kind # "update"
      BY <1>1, <1>3, <2>2
    <3> QED BY <1>1, <1>3, <2>2, <3>1 DEF LastUpdate
  <2> QED BY <1>1, <2>1, <2>2 DEF LastUpdate
<1> QED BY <1>1, <1>2, <1>3

(* No step takes away a look that is needed without having it.             *)
LEMMA StepLooks == TypeOK /\ LastUpdate /\ GapsAreComing /\ [Next]_vars => LastUpdate' /\ GapsAreComing'
<1> SUFFICES ASSUME TypeOK, LastUpdate, GapsAreComing, [Next]_vars PROVE LastUpdate' /\ GapsAreComing'
  OBVIOUS
<1> USE DEF i3, subscription, refresh, command, history
<1>0. /\ gaps \in [Workspace -> Gap] /\ focus \in Workspace /\ missed \in BOOLEAN
      /\ stream \in Seq({"workspace", "window"}) /\ commands \in Seq(Request)
  BY DEF TypeOK
<1>1. ASSUME UNCHANGED <<commands, props, config>> PROVE LastUpdate'
  BY <1>1 DEF LastUpdate
<1>2. ASSUME UNCHANGED <<commands, props, config>>, Tell("workspace") PROVE LastUpdate' /\ GapsAreComing'
  BY <1>1, <1>2, TellingComes DEF GapsAreComing
<1>3. ASSUME UNCHANGED <<focus, output, gaps, commands, props, config, worker>>, missed => missed',
             ReconcileComing => missed' \/ ReconcileComing'
      PROVE  LastUpdate' /\ GapsAreComing'
  <2>1. LastUpdate'
    BY <1>1, <1>3
  <2>2. GapsAreComing'
    BY <1>3 DEF GapsAreComing, Desired
  <2> QED BY <2>1, <2>2
<1>4. ASSUME NEW w \in Workspace, UserFocuses(w) PROVE LastUpdate' /\ GapsAreComing'
  BY <1>2, <1>4 DEF UserFocuses, FocusOn
<1>5. ASSUME NEW w \in Workspace, NEW o \in Output, MoveToOutput(w, o) PROVE LastUpdate' /\ GapsAreComing'
  BY <1>2, <1>5 DEF MoveToOutput
<1>6. CASE WindowChanges
  <2>1. /\ UNCHANGED <<focus, output, gaps, commands, props, config, worker>> /\ Tell("window")
    BY <1>6 DEF WindowChanges
  <2>2. missed => missed'
    BY <2>1 DEF Tell
  <2>3. \A i \in DOMAIN stream : i \in DOMAIN stream' /\ stream'[i] = stream[i]
    BY <1>0, <2>1 DEF Tell
  <2>4. ReconcileComing => ReconcileComing'
    BY <2>1, <2>3 DEF ReconcileComing
  <2> QED BY <1>3, <2>1, <2>2, <2>4
<1>7. CASE I3Restarts
  <2>1. missed' /\ UNCHANGED <<commands, props, config>>
    BY <1>7 DEF I3Restarts
  <2> QED BY <1>1, <2>1 DEF GapsAreComing
<1>8. CASE SubscriptionDrops
  <2>1. /\ UNCHANGED <<focus, output, gaps, commands, props, config, worker>>
        /\ missed' = (missed \/ \E i \in DOMAIN stream : stream[i] = "workspace")
    BY <1>8 DEF SubscriptionDrops
  <2>2. ReconcileComing => missed' \/ ReconcileComing'
    BY <2>1 DEF ReconcileComing
  <2>3. missed => missed'
    BY <2>1
  <2> QED BY <1>3, <2>1, <2>2, <2>3
<1>9. CASE ReadEvent
  <2>1. /\ UNCHANGED <<focus, output, gaps, props, config, worker>>
        /\ stream # <<>> /\ stream' = Tail(stream)
    BY <1>9 DEF ReadEvent
  <2>2. CASE Head(stream) = "workspace"
    <3>1. commands' = Append(commands, [kind |-> "reconcile"])
      BY <1>9, <2>2 DEF ReadEvent
    <3>2. LastUpdate' /\ \E i \in DOMAIN commands' : commands'[i] = [kind |-> "reconcile"]
      BY <2>1, <3>1, Requested, SendingLasts
    <3>3. ReconcileComing'
      BY <3>2 DEF ReconcileComing
    <3> QED BY <3>2, <3>3 DEF GapsAreComing
  <2>3. CASE Head(stream) # "workspace"
    <3>1. commands' = commands /\ missed' = missed
      BY <1>0, <1>9, <2>3, Zenon DEF ReadEvent
    <3>2. \A i \in DOMAIN stream : i # 1 => i - 1 \in DOMAIN stream' /\ stream'[i - 1] = stream[i]
      BY <1>0, <2>1
    <3>3. stream[1] # "workspace"
      BY <1>0, <2>1, <2>3
    <3>4. ReconcileComing => ReconcileComing'
      BY <2>1, <3>1, <3>2, <3>3 DEF ReconcileComing
    <3> QED BY <1>3, <2>1, <3>1, <3>4
  <2> QED BY <2>2, <2>3
<1>10. ASSUME NEW gap \in Gap \ {0}, NewProps(gap) PROVE LastUpdate' /\ GapsAreComing'
  <2> DEFINE request == [kind |-> "update", gap |-> gap]
  <2>1. commands' = Append(commands, request) /\ props' = gap /\ UNCHANGED config
    BY <1>10 DEF NewProps
  <2>2. request.kind = "update" /\ request.gap = gap /\ request \in Request
    BY Requested
  <2> HIDE DEF request
  <2>3. LastUpdate' /\ \E i \in DOMAIN commands' : commands'[i] = request
    BY <2>1, <2>2, SendingLasts
  <2> QED BY <2>2, <2>3 DEF GapsAreComing, ReconcileComing
<1>11. ASSUME NEW w \in Workspace, Click(w) PROVE LastUpdate' /\ GapsAreComing'
  <2> DEFINE request == [kind |-> "switch", to |-> w]
  <2>1. commands' = Append(commands, request) /\ UNCHANGED <<focus, output, gaps, stream, props, config, worker, missed>>
    BY <1>11 DEF Click
  <2>2. request.kind # "update" /\ request \in Request
    BY Requested
  <2> HIDE DEF request
  <2>3. /\ LastUpdate' /\ \A i \in DOMAIN commands : i \in DOMAIN commands' /\ commands'[i] = commands[i]
    BY <2>1, <2>2, SendingLasts
  <2>4. ReconcileComing => ReconcileComing'
    BY <2>1, <2>3 DEF ReconcileComing
  <2> QED BY <2>1, <2>3, <2>4 DEF GapsAreComing, Desired
<1>12. CASE TakeCommand
  <2> DEFINE request == Head(commands)
  <2>1. /\ worker = Idle /\ commands # <<>> /\ commands' = Tail(commands)
        /\ UNCHANGED <<focus, output, gaps, stream, props, missed>>
        /\ config' = IF request.kind = "update" THEN request.gap ELSE config
        /\ worker' = IF request.kind = "switch" THEN request ELSE [kind |-> "ask"]
    BY <1>12 DEF TakeCommand
  <2>2. /\ request = commands[1] /\ 1 \in DOMAIN commands /\ DOMAIN commands \subseteq Nat \ {0}
        /\ \A i \in DOMAIN commands : i # 1 => i - 1 \in DOMAIN commands' /\ commands'[i - 1] = commands[i]
        /\ \A i \in DOMAIN commands' : i \in Nat \ {0} /\ i + 1 \in DOMAIN commands /\ commands'[i] = commands[i + 1]
    BY <1>0, <2>1
  <2> HIDE DEF request
  <2>3. LastUpdate'
    <3>1. CASE config = props /\ \A i \in DOMAIN commands : commands[i].kind # "update"
      BY <2>1, <2>2, <3>1 DEF LastUpdate
    <3>2. ASSUME NEW i \in DOMAIN commands, commands[i].kind = "update", commands[i].gap = props,
                 \A j \in DOMAIN commands : j > i => commands[j].kind # "update"
          PROVE  LastUpdate'
      <4>1. CASE i = 1
        <5>1. config' = props'
          BY <2>1, <2>2, <3>2, <4>1
        <5>2. \A j \in DOMAIN commands' : commands'[j].kind # "update"
          BY <2>2, <3>2, <4>1
        <5> QED BY <5>1, <5>2 DEF LastUpdate
      <4>2. CASE i # 1
        <5>1. i - 1 \in DOMAIN commands' /\ commands'[i - 1] = commands[i]
          BY <2>2, <4>2
        <5>2. \A j \in DOMAIN commands' : j > i - 1 => commands'[j].kind # "update"
          BY <2>2, <3>2
        <5> QED BY <2>1, <3>2, <5>1, <5>2 DEF LastUpdate
      <4> QED BY <4>1, <4>2
    <3> QED BY <3>1, <3>2 DEF LastUpdate
  <2>4. CASE request.kind = "switch"
    <3>1. worker'.kind = "switch" /\ worker.kind = "idle"
      BY <2>1, <2>4 DEF Idle
    <3>2. ReconcileComing => ReconcileComing'
      BY <2>1, <2>2, <2>4, <3>1 DEF ReconcileComing
    <3> QED BY <2>1, <2>3, <3>1, <3>2 DEF GapsAreComing, Desired
  <2>5. CASE request.kind # "switch"
    <3>1. worker'.kind = "ask"
      BY <2>1, <2>5
    <3> QED BY <2>3, <3>1 DEF GapsAreComing, ReconcileComing
  <2> QED BY <2>4, <2>5
<1>13. CASE AskFocused
  <2>1. /\ UNCHANGED <<focus, output, gaps, stream, commands, props, config, missed>>
        /\ worker'.kind = "apply" /\ worker'.gap = Desired(focus, config)
    BY <1>13 DEF AskFocused
  <2>2. CASE config = props
    <3>1. worker'.gap = Desired(focus', props')
      BY <2>1, <2>2 DEF Desired
    <3> QED BY <1>1, <2>1, <3>1 DEF GapsAreComing, Desired
  <2>3. CASE config # props
    <3>1. \E i \in DOMAIN commands : commands[i].kind = "update"
      BY <2>3 DEF LastUpdate
    <3> QED BY <1>1, <2>1, <3>1 DEF GapsAreComing, ReconcileComing
  <2> QED BY <2>2, <2>3
<1>14. CASE Apply
  <2>1. /\ UNCHANGED <<focus, output, stream, commands, props, config, missed>>
        /\ worker.kind = "apply" /\ gaps'[focus] = worker.gap
    BY <1>0, <1>14 DEF Apply
  <2>2. (worker'.kind = "idle") \/ worker' = worker
    BY <1>14 DEF Apply, Idle
  <2>3. ReconcileComing => ReconcileComing'
    BY <2>1 DEF ReconcileComing
  <2> QED BY <1>1, <2>1, <2>2, <2>3 DEF GapsAreComing, Desired
<1>15. CASE SwitchWorkspace
  <2>1. UNCHANGED <<commands, props, config>> /\ worker.kind = "switch"
    BY <1>15 DEF SwitchWorkspace
  <2>2. CASE worker.to = focus
    <3>1. UNCHANGED <<focus, output, gaps, stream, missed>>
      BY <1>15, <2>2 DEF SwitchWorkspace
    <3>2. worker'.kind \in {"idle", "switch"}
      BY <1>15 DEF SwitchWorkspace, Idle
    <3>3. ReconcileComing => ReconcileComing'
      BY <2>1, <3>1 DEF ReconcileComing
    <3> QED BY <1>1, <2>1, <3>1, <3>2, <3>3 DEF GapsAreComing, Desired
  <2>3. CASE worker.to # focus
    BY <1>2, <1>15, <2>1, <2>3 DEF SwitchWorkspace, FocusOn
  <2> QED BY <2>2, <2>3
<1>16. CASE CommandFails
  <2>1. /\ UNCHANGED <<focus, output, gaps, stream, commands, props, config>> /\ worker'.kind = "idle"
        /\ missed' = (missed \/ worker.kind \in {"ask", "apply"})
    BY <1>16 DEF CommandFails, Idle
  <2>2. ReconcileComing => missed' \/ ReconcileComing'
    BY <2>1 DEF ReconcileComing
  <2>3. missed => missed'
    BY <2>1
  <2> QED BY <1>1, <2>1, <2>2, <2>3 DEF GapsAreComing, Desired
<1>17. CASE Subscribe \/ Refresher \/ Tick \/ FetchFails \/ UNCHANGED vars
  <2>1. UNCHANGED <<focus, output, gaps, stream, commands, props, config, worker, missed>>
    BY <1>17 DEF Subscribe, Refresher, ReceiveHint, Fetch, Publish, Tick, FetchFails, vars
  <2>2. ReconcileComing => ReconcileComing'
    BY <2>1 DEF ReconcileComing
  <2> QED BY <1>3, <2>1, <2>2
<1> QED
  BY <1>4, <1>5, <1>6, <1>7, <1>8, <1>9, <1>10, <1>11, <1>12, <1>13, <1>14, <1>15, <1>16, <1>17, Zenon
  DEF Next, Subscriber, Commander

(* The gaps of the focused workspace, or those about to be written to it,  *)
(* are what the bar declares for it, or a look at it is coming, although   *)
(* the focus may move between the question and the command, and a request  *)
(* may run twice: what is left of GapsSettle is that the threads go on and *)
(* i3 answers (ipc.rs: reconcile_gaps).                                    *)
THEOREM NoLookIsMissed == Spec => []GapsAreComing
<1>1. Init => LastUpdate /\ GapsAreComing
  <2> SUFFICES ASSUME Init PROVE LastUpdate /\ GapsAreComing
    OBVIOUS
  <2>1. /\ commands = <<[kind |-> "reconcile"]>> /\ config = props
    BY DEF Init
  <2>2. DOMAIN commands = {1} /\ commands[1].kind = "reconcile"
    BY <2>1
  <2> QED BY <2>1, <2>2 DEF LastUpdate, GapsAreComing, ReconcileComing
<1> QED BY <1>1, StepLooks, I3Typed, PTL DEF Spec

-----------------------------------------------------------------------------
(* tauler-aerospace.                                                       *)
VARIABLES windows, lines, stdin, heard, at, listed, printed, failed

Aero == INSTANCE Aerospace

(* Every variable has its type: what the channels and pipes carry, and the *)
(* answer of the first query while the second is out.                      *)
THEOREM AerospaceTyped == Aero!Spec => []Aero!TypeOK
<1> USE DEF Aero!TypeOK
<1>0. <<Aero!InitEvent>> \in Seq(Aero!Line)
  BY DEF Aero!Line
<1>1. Aero!Init => Aero!TypeOK
  <2> SUFFICES ASSUME Aero!Init PROVE Aero!TypeOK
    OBVIOUS
  <2>1. focus \in Workspace /\ windows \in Nat /\ subscribed \in BOOLEAN
    BY DEF Aero!Init
  <2>2. stream \in Seq({"initial", "focus", "window"})
    BY DEF Aero!Init
  <2>3. lines \in Seq(Aero!Line) /\ stdin \in {"new", "read", "switched"}
    BY <1>0 DEF Aero!Init
  <2>4. heard \in BOOLEAN /\ hints \in Nat
    BY DEF Aero!Init
  <2>5. at \in {"init", "wait", "workspaces", "windows"} /\ listed \in Workspace \cup {None}
    BY DEF Aero!Init
  <2>6. at # "windows" /\ printed \in Aero!Strip \cup {None} /\ failed \in BOOLEAN /\ events \in Nat
    BY DEF Aero!Init
  <2> QED
    BY <2>1, <2>2, <2>3, <2>4, <2>5, <2>6
<1>2. Aero!TypeOK /\ [Aero!Next]_(Aero!vars) => Aero!TypeOK'
  <2> SUFFICES ASSUME Aero!TypeOK, [Aero!Next]_(Aero!vars) PROVE Aero!TypeOK'
    OBVIOUS
  <2> USE DEF Aero!Event, Aero!Raise, Aero!aerospace, Aero!clicks, Aero!strip
  <2>1. CASE Aero!Change
    BY <2>1 DEF Aero!Change
  <2>2. ASSUME NEW w \in Workspace, Aero!Click(w) PROVE Aero!TypeOK'
    <3>1. [type |-> "switchWorkspace", to |-> w] \in Aero!Line
      BY DEF Aero!Line
    <3> QED
      BY <2>2, <3>1 DEF Aero!Click
  <2>3. CASE Aero!Restart
    <3>1. subscribed' \in BOOLEAN /\ heard' \in BOOLEAN /\ hints' \in Nat
      BY <2>3 DEF Aero!Restart
    <3>2. stream' \in Seq({"initial", "focus", "window"})
      BY <2>3 DEF Aero!Restart
    <3>3. lines' \in Seq(Aero!Line) /\ stdin' \in {"new", "read", "switched"}
      BY <1>0, <2>3 DEF Aero!Restart
    <3>4. /\ at' = "init" /\ listed' \in Workspace \cup {None} /\ events' \in Nat
          /\ UNCHANGED <<focus, windows, printed, failed>>
      BY <2>3 DEF Aero!Restart
    <3> QED
      BY <3>1, <3>2, <3>3, <3>4
  <2>4. CASE Aero!ReadInit
    BY <2>4 DEF Aero!ReadInit
  <2>5. CASE Aero!Switch
    <3>1. Head(lines) \in Aero!Line /\ Tail(lines) \in Seq(Aero!Line)
      BY <2>5 DEF Aero!Switch
    <3>2. Head(lines) # Aero!InitEvent => Head(lines).to \in Workspace
      BY <3>1 DEF Aero!Line
    <3> QED
      <4>1. CASE Head(lines) = Aero!InitEvent
        BY <2>5, <3>1, <4>1 DEF Aero!Switch
      <4>2. CASE Head(lines) # Aero!InitEvent
        <5>1. lines' \in Seq(Aero!Line) /\ focus' \in Workspace /\ stdin' \in {"new", "read", "switched"}
          BY <2>5, <3>1, <3>2, <4>2 DEF Aero!Switch
        <5>2. stream' = stream \/ stream' = Append(stream, "focus")
          BY <2>5, <4>2 DEF Aero!Switch
        <5>3. stream' \in Seq({"initial", "focus", "window"})
          BY <5>2
        <5> QED
          BY <2>5, <5>1, <5>3 DEF Aero!Switch
      <4> QED
        BY <4>1, <4>2
  <2>6. CASE Aero!SendHint
    BY <2>6 DEF Aero!SendHint
  <2>7. CASE Aero!ReadEvent
    BY <2>7 DEF Aero!ReadEvent
  <2>8. CASE Aero!SendEventHint
    <3>1. heard' = FALSE /\ hints' \in Nat
      BY <2>8 DEF Aero!SendEventHint
    <3>2. UNCHANGED <<focus, windows, subscribed, stream, lines, stdin, at, listed,
                      printed, failed, events>>
      BY <2>8 DEF Aero!SendEventHint
    <3> QED
      BY <3>1, <3>2
  <2>9. CASE Aero!Subscribe
    BY <2>9 DEF Aero!Subscribe
  <2>10. CASE Aero!Receive
    BY <2>10 DEF Aero!Receive
  <2>11. CASE Aero!ListWorkspaces
    BY <2>11 DEF Aero!ListWorkspaces
  <2>12. CASE Aero!ListWindows
    BY <2>12 DEF Aero!ListWindows, Aero!Strip
  <2>13. CASE Aero!QueryFails
    BY <2>13 DEF Aero!QueryFails
  <2>14. CASE UNCHANGED Aero!vars
    BY <2>14 DEF Aero!vars
  <2> QED
    BY <2>1, <2>2, <2>3, <2>4, <2>5, <2>6, <2>7, <2>8, <2>9, <2>10, <2>11,
       <2>12, <2>13, <2>14 DEF Aero!Next, Aero!Stdin, Aero!Pump, Aero!Main
<1> QED
  BY <1>1, <1>2, PTL DEF Aero!Spec

(* Between the two queries, what the first one got is still the focus, or  *)
(* something is on its way that asks again.                                *)
HalfIsCurrent == Aero!Quiet /\ at = "windows" => listed = focus

(* The strip of a module that waits with nothing on its way is AeroSpace's *)
(* own.  Whatever changes AeroSpace raises an event, or finds the module   *)
(* not subscribed: in both cases it is not quiet, and a refresh is due.    *)
THEOREM StripStaysCurrent == Aero!Spec => []Aero!StripIsCurrent
<1> DEFINE IInv == Aero!StripIsCurrent /\ HalfIsCurrent
<1> USE DEF Aero!StripIsCurrent, HalfIsCurrent, Aero!Quiet
<1>1. Aero!Init => IInv
  BY DEF Aero!Init
<1>2. Aero!TypeOK /\ IInv /\ [Aero!Next]_(Aero!vars) => IInv'
  <2> SUFFICES ASSUME Aero!TypeOK, IInv, [Aero!Next]_(Aero!vars) PROVE IInv'
    OBVIOUS
  <2> USE DEF Aero!aerospace, Aero!clicks, Aero!strip
  <2>0. \A e : Aero!Raise(e) => (subscribed => stream' # <<>>)
    BY DEF Aero!Raise, Aero!TypeOK
  <2>1. CASE Aero!Change
    BY <2>0, <2>1 DEF Aero!Change
  <2>2. ASSUME NEW w \in Workspace, Aero!Click(w) PROVE IInv'
    BY <2>2 DEF Aero!Click
  <2>3. CASE Aero!Restart
    BY <2>3 DEF Aero!Restart
  <2>4. CASE Aero!ReadInit
    BY <2>4 DEF Aero!ReadInit
  <2>5. CASE Aero!Switch
    BY <2>0, <2>5 DEF Aero!Switch
  <2>6. CASE Aero!SendHint
    BY <2>6 DEF Aero!SendHint, Aero!TypeOK
  <2>7. CASE Aero!ReadEvent
    BY <2>7 DEF Aero!ReadEvent
  <2>8. CASE Aero!SendEventHint
    BY <2>8 DEF Aero!SendEventHint, Aero!TypeOK
  <2>9. CASE Aero!Subscribe
    BY <2>9 DEF Aero!Subscribe
  <2>10. CASE Aero!Receive
    BY <2>10 DEF Aero!Receive
  <2>11. CASE Aero!ListWorkspaces
    BY <2>11 DEF Aero!ListWorkspaces
  <2>12. CASE Aero!ListWindows
    BY <2>12 DEF Aero!ListWindows
  <2>13. CASE Aero!QueryFails
    BY <2>13 DEF Aero!QueryFails
  <2>14. CASE UNCHANGED Aero!vars
    BY <2>14 DEF Aero!vars
  <2> QED
    BY <2>1, <2>2, <2>3, <2>4, <2>5, <2>6, <2>7, <2>8, <2>9, <2>10, <2>11,
       <2>12, <2>13, <2>14 DEF Aero!Next, Aero!Stdin, Aero!Pump, Aero!Main
<1> QED
  BY <1>1, <1>2, AerospaceTyped, PTL DEF Aero!Spec

-----------------------------------------------------------------------------
(* tauler-accumulate.                                                      *)
CONSTANTS Value, Count, MaxLines
VARIABLES read, window, over

Window == INSTANCE Accumulate

(* For any length of the window, that of none included, and any lines.     *)
THEOREM HistoryStaysTrue ==
  ASSUME Count \in Nat PROVE Window!Spec => [](Window!TypeOK /\ Window!HistoryIsTrue)
<1> DEFINE IInv == Window!TypeOK /\ Window!HistoryIsTrue /\ Window!Shows(window, Len(read), read)
<1>1. Window!Init => IInv
  <2> SUFFICES ASSUME Window!Init PROVE IInv
    OBVIOUS
  <2>1. read = <<>> /\ window = <<>> /\ printed = <<>> /\ over = FALSE
    BY DEF Window!Init
  <2>2. Window!TypeOK
    <3>1. <<>> \in Seq(Value) /\ <<>> \in Seq(Seq(Value))
      OBVIOUS
    <3> QED
      BY <2>1, <3>1 DEF Window!TypeOK
  <2>3. Window!HistoryIsTrue
    BY <2>1 DEF Window!HistoryIsTrue
  <2>4. Window!Shows(window, Len(read), read)
    BY <2>1 DEF Window!Shows
  <2> QED
    BY <2>2, <2>3, <2>4
<1>2. IInv /\ [Window!Next]_(Window!vars) => IInv'
  <2> SUFFICES ASSUME IInv, [Window!Next]_(Window!vars) PROVE IInv'
    OBVIOUS
  <2> USE DEF Window!TypeOK
  <2>1. ASSUME NEW value \in Value, Window!Line(value) PROVE IInv'
    <3>1. /\ read' = Append(read, value) /\ read' \in Seq(Value)
          /\ Len(read') = Len(read) + 1 /\ read'[Len(read')] = value
          /\ \A i \in 1..Len(read) : read'[i] = read[i]
      BY <2>1 DEF Window!Line
    <3>2. \A w \in Seq(Value), line \in 0..Len(read) :
            Window!Shows(w, line, read) => Window!Shows(w, line, read')
      <4> SUFFICES ASSUME NEW w \in Seq(Value), NEW line \in 0..Len(read),
                          Window!Shows(w, line, read), NEW i \in 1..Len(w)
                   PROVE  w[i] = read'[line - Len(w) + i]
        BY DEF Window!Shows
      <4>1. Len(w) \in Nat /\ Len(w) <= line
        BY DEF Window!Shows
      <4>2. line - Len(w) + i \in 1..Len(read)
        BY <4>1
      <4> QED
        BY <3>1, <4>2 DEF Window!Shows
    <3>3. window' \in Seq(Value) /\ Window!Shows(window', Len(read'), read')
      <4>0. Len(window) \in Nat /\ Len(read) \in Nat
        OBVIOUS
      <4>1. /\ Len(window) = IF Len(read) < Count THEN Len(read) ELSE Count
            /\ \A i \in 1..Len(window) : window[i] = read[Len(read) - Len(window) + i]
        BY DEF Window!Shows
      <4>2. CASE Count = 0
        BY <2>1, <3>1, <4>0, <4>1, <4>2 DEF Window!Line, Window!Push, Window!Shows
      <4>3. CASE Count # 0 /\ Len(window) = Count
        <5>1. /\ window' = Append(Tail(window), value) /\ Len(window') = Count
              /\ window' \in Seq(Value) /\ window'[Count] = value
              /\ \A i \in 1..(Count - 1) : window'[i] = window[i + 1]
          BY <2>1, <4>1, <4>3 DEF Window!Line, Window!Push
        <5>2. \A i \in 1..(Count - 1) : window'[i] = read'[Len(read') - Count + i]
          <6> TAKE i \in 1..(Count - 1)
          <6>1. i + 1 \in 1..Len(window)
            BY <4>3
          <6>2. window[i + 1] = read[Len(read) - Count + (i + 1)]
            BY <4>1, <4>3, <6>1
          <6>3. Len(read) - Count + (i + 1) \in 1..Len(read)
            BY <4>0, <4>1, <4>3
          <6> QED
            BY <3>1, <4>0, <5>1, <6>2, <6>3
        <5>3. \A i \in 1..Len(window') : window'[i] = read'[Len(read') - Len(window') + i]
          <6> TAKE i \in 1..Len(window')
          <6>1. CASE i = Count
            <7>0. Len(window') = i /\ i \in Nat
              BY <5>1, <6>1
            <7>1. Len(read') - Len(window') + i = Len(read')
              <8>1. Len(read') \in Nat
                BY <3>1, <4>0
              <8> QED
                BY <7>0, <8>1
            <7>2. window'[i] = read'[Len(read')]
              BY <3>1, <5>1, <6>1
            <7> QED
              BY <7>1, <7>2
          <6>2. CASE i \in 1..(Count - 1)
            <7>1. window'[i] = read'[Len(read') - Count + i]
              BY <5>2, <6>2
            <7> QED
              BY <5>1, <7>1
          <6> QED
            BY <4>3, <5>1, <6>1, <6>2
        <5>4. Len(window') = IF Len(read') < Count THEN Len(read') ELSE Count
          BY <3>1, <4>0, <4>1, <4>3, <5>1
        <5> QED
          BY <5>1, <5>3, <5>4 DEF Window!Shows
      <4>4. CASE Count # 0 /\ Len(window) # Count
        <5>1. /\ window' = Append(window, value) /\ window' \in Seq(Value)
              /\ Len(window') = Len(window) + 1 /\ window'[Len(window')] = value
              /\ \A i \in 1..Len(window) : window'[i] = window[i]
          BY <2>1, <4>4 DEF Window!Line, Window!Push
        <5>2. Len(window) = Len(read) /\ Len(read) < Count
          BY <4>0, <4>1, <4>4
        <5>3. Len(window') = IF Len(read') < Count THEN Len(read') ELSE Count
          BY <3>1, <4>0, <5>1, <5>2
        <5>4. \A i \in 1..Len(window') : window'[i] = read'[Len(read') - Len(window') + i]
          <6> TAKE i \in 1..Len(window')
          <6>1. CASE i = Len(window')
            BY <3>1, <4>0, <5>1, <6>1
          <6>2. CASE i \in 1..Len(window)
            BY <3>1, <4>0, <4>1, <5>1, <5>2, <6>2
          <6> QED
            BY <4>0, <5>1, <6>1, <6>2
        <5> QED
          BY <5>1, <5>3, <5>4 DEF Window!Shows
      <4> QED
        BY <4>2, <4>3, <4>4
    <3>4. CASE printed' = Append(printed, window') /\ over' = FALSE
      <4>1. ~over /\ Len(printed) = Len(read)
        BY <2>1 DEF Window!Line, Window!HistoryIsTrue
      <4>2. /\ printed' \in Seq(Seq(Value)) /\ Len(printed') = Len(read')
            /\ printed'[Len(printed')] = window'
            /\ \A i \in 1..Len(printed) : printed'[i] = printed[i]
        BY <3>1, <3>3, <3>4, <4>1
      <4>3. \A line \in 1..Len(printed) : Window!Shows(printed'[line], line, read')
        <5> TAKE line \in 1..Len(printed)
        <5>1. printed[line] \in Seq(Value) /\ line \in 0..Len(read)
          BY <4>1
        <5> QED
          BY <3>2, <4>2, <5>1 DEF Window!HistoryIsTrue
      <4>4. \A line \in 1..Len(printed') : Window!Shows(printed'[line], line, read')
        <5> TAKE line \in 1..Len(printed')
        <5>1. CASE line = Len(printed')
          BY <3>3, <4>2, <5>1
        <5>2. CASE line \in 1..Len(printed)
          BY <4>3, <5>2
        <5> QED
          BY <3>1, <4>1, <4>2, <5>1, <5>2
      <4>5. Window!HistoryIsTrue'
        BY <4>2, <4>4 DEF Window!HistoryIsTrue
      <4>6. Window!TypeOK'
        BY <3>1, <3>3, <3>4, <4>2
      <4> QED
        BY <3>3, <4>5, <4>6
    <3>5. CASE over' = TRUE /\ UNCHANGED printed
      <4>1. Len(printed) = Len(read)
        BY <2>1 DEF Window!Line, Window!HistoryIsTrue
      <4>2. \A line \in 1..Len(printed) : Window!Shows(printed[line], line, read')
        <5> TAKE line \in 1..Len(printed)
        <5>1. printed[line] \in Seq(Value) /\ line \in 0..Len(read)
          BY <4>1
        <5> QED
          BY <3>2, <5>1 DEF Window!HistoryIsTrue
      <4>3. Len(printed') = Len(read') - 1
        BY <3>1, <3>5, <4>1
      <4>4. Window!HistoryIsTrue'
        BY <3>5, <4>2, <4>3 DEF Window!HistoryIsTrue
      <4>5. Window!TypeOK'
        BY <3>1, <3>3, <3>5
      <4> QED
        BY <3>3, <4>4, <4>5
    <3> QED
      BY <2>1, <3>4, <3>5 DEF Window!Line
  <2>2. CASE Window!Misread
    BY <2>2 DEF Window!Misread, Window!HistoryIsTrue, Window!Shows
  <2>3. CASE UNCHANGED Window!vars
    BY <2>3 DEF Window!vars, Window!HistoryIsTrue, Window!Shows
  <2> QED
    BY <2>1, <2>2, <2>3 DEF Window!Next
<1> QED
  BY <1>1, <1>2, PTL DEF Window!Spec

-----------------------------------------------------------------------------
(* <I3Layout>, and the frame of <Workspaces>.                              *)
CONSTANTS Width, Height, Word, Sizes, Quarters, MaxPanels
VARIABLES panels, framed, contents, fits

Tiles == INSTANCE EdgeLayout

(* Sums and differences of lengths are lengths.                            *)
LEMMA Lengthy ==
  ASSUME Tiles!Lengths, NEW a \in 0..(Word - 1), NEW b \in 0..(Word - 1)
  PROVE  Tiles!Plus(a, b) \in 0..(Word - 1) /\ Tiles!Minus(a, b) \in 0..(Word - 1)
BY DEF Tiles!Lengths, Tiles!Plus, Tiles!Minus

(* Types, and edges that stay apart.                                       *)
LEMMA Bounds == ASSUME Tiles!Lengths PROVE Tiles!Spec => [](Tiles!TypeOK /\ Tiles!EdgesApart)
<1> USE DEF Tiles!TypeOK, Tiles!EdgesApart
<1>1. Tiles!Init => Tiles!TypeOK /\ Tiles!EdgesApart
  BY DEF Tiles!Init, Tiles!Edge, Tiles!Lengths
<1>2. Tiles!TypeOK /\ Tiles!EdgesApart /\ [Tiles!Next]_(Tiles!vars) => (Tiles!TypeOK /\ Tiles!EdgesApart)'
  <2> SUFFICES ASSUME Tiles!TypeOK, Tiles!EdgesApart, [Tiles!Next]_(Tiles!vars) PROVE (Tiles!TypeOK /\ Tiles!EdgesApart)'
    OBVIOUS
  <2>1. ASSUME NEW anchor \in Tiles!Edge \cup {"typo"}, NEW size \in Sizes, Tiles!Place(anchor, size)
        PROVE (Tiles!TypeOK /\ Tiles!EdgesApart)'
    <3>1. size \in 0..(Word - 1) /\ framed = "no" /\ framed' = "no"
      BY <2>1 DEF Tiles!Lengths, Tiles!Place
    <3>2. \A edge \in Tiles!Edge : gaps[edge] \in 0..(Word - 1)
      BY <3>1
    <3>3. /\ gaps["left"] \in 0..(Word - 1) /\ gaps["right"] \in 0..(Word - 1)
          /\ gaps["top"] \in 0..(Word - 1) /\ gaps["bottom"] \in 0..(Word - 1)
          /\ Width \in 0..(Word - 1) /\ Height \in 0..(Word - 1)
      BY <3>2 DEF Tiles!Edge, Tiles!Lengths
    <3>4. Tiles!Placed(anchor, size) \in Tiles!Area
      <4>1. /\ Tiles!Plus(gaps["left"], gaps["right"]) \in 0..(Word - 1)
            /\ Tiles!Plus(gaps["top"], gaps["bottom"]) \in 0..(Word - 1)
            /\ Tiles!Plus(gaps["right"], size) \in 0..(Word - 1)
            /\ Tiles!Plus(gaps["bottom"], size) \in 0..(Word - 1)
        BY <3>1, <3>3, Lengthy
      <4>2. Tiles!FreeWidth \in 0..(Word - 1) /\ Tiles!FreeHeight \in 0..(Word - 1)
        BY <3>3, <4>1, Lengthy DEF Tiles!FreeWidth, Tiles!FreeHeight
      <4>3. /\ Tiles!Minus(Width, Tiles!Plus(gaps["right"], size)) \in 0..(Word - 1)
            /\ Tiles!Minus(Height, Tiles!Plus(gaps["bottom"], size)) \in 0..(Word - 1)
        BY <3>3, <4>1, Lengthy
      <4>4. \A x, y, width, height \in 0..(Word - 1) : Tiles!At(x, y, width, height) \in Tiles!Area
        BY DEF Tiles!At, Tiles!Area, Tiles!Lengths
      <4> QED
        BY <3>1, <3>3, <4>2, <4>3, <4>4 DEF Tiles!Placed, Tiles!Free
    <3>5. panels' \in Seq(Tiles!Panel)
      <4>1. [anchor |-> anchor, rect |-> Tiles!Placed(anchor, size)] \in Tiles!Panel
        BY <3>4 DEF Tiles!Panel
      <4> QED
        BY <2>1, <4>1 DEF Tiles!Place
    <3>6. CASE anchor \in Tiles!Edge
      <4>1. gaps' = [gaps EXCEPT ![anchor] = Tiles!Plus(@, size)]
        BY <2>1, <3>6 DEF Tiles!Place
      <4>2. \A edge \in Tiles!Edge : gaps'[edge] \in 0..(Word - 1)
        BY <3>1, <3>2, <4>1 DEF Tiles!Plus, Tiles!Lengths
      <4>3. fits' => gaps'["left"] + gaps'["right"] <= Width
                     /\ gaps'["top"] + gaps'["bottom"] <= Height
        <5> SUFFICES ASSUME fits'
                     PROVE gaps'["left"] + gaps'["right"] <= Width
                           /\ gaps'["top"] + gaps'["bottom"] <= Height
          OBVIOUS
        <5>1. fits /\ Tiles!Fits(anchor, size)
          BY <2>1 DEF Tiles!Place
        <5>2. /\ gaps["left"] + gaps["right"] <= Width
              /\ gaps["top"] + gaps["bottom"] <= Height
          BY <3>1, <5>1
        <5>3. Tiles!FreeWidth = Width - (gaps["left"] + gaps["right"])
          BY <3>2, <5>2 DEF Tiles!FreeWidth, Tiles!Plus, Tiles!Minus, Tiles!Edge, Tiles!Lengths
        <5>4. Tiles!FreeHeight = Height - (gaps["top"] + gaps["bottom"])
          BY <3>2, <5>2 DEF Tiles!FreeHeight, Tiles!Plus, Tiles!Minus, Tiles!Edge, Tiles!Lengths
        <5>5. gaps'[anchor] <= gaps[anchor] + size
          BY <3>1, <3>2, <3>6, <4>1 DEF Tiles!Plus, Tiles!Lengths
        <5>6. \A edge \in Tiles!Edge \ {anchor} : gaps'[edge] = gaps[edge]
          BY <4>1
        <5>a. \A edge \in Tiles!Edge : gaps[edge] \in Int /\ gaps'[edge] \in Int
          BY <3>2, <4>2
        <5>b. size \in Int /\ Width \in Int /\ Height \in Int
          BY <3>1 DEF Tiles!Lengths
        <5>7. CASE anchor \in {"left", "right"}
          <6>1. gaps'["top"] = gaps["top"] /\ gaps'["bottom"] = gaps["bottom"]
            BY <5>6, <5>7 DEF Tiles!Edge
          <6>2. size <= Width - (gaps["left"] + gaps["right"])
            BY <5>1, <5>3, <5>7 DEF Tiles!Fits
          <6>3. gaps'["left"] + gaps'["right"] <= gaps["left"] + gaps["right"] + size
            BY <5>5, <5>6, <5>7, <5>a, <5>b DEF Tiles!Edge
          <6> QED
            BY <5>2, <5>a, <5>b, <6>1, <6>2, <6>3 DEF Tiles!Edge
        <5>8. CASE anchor \in {"top", "bottom"}
          <6>1. gaps'["left"] = gaps["left"] /\ gaps'["right"] = gaps["right"]
            BY <5>6, <5>8 DEF Tiles!Edge
          <6>2. size <= Height - (gaps["top"] + gaps["bottom"])
            BY <5>1, <5>4, <5>8 DEF Tiles!Fits
          <6>3. gaps'["top"] + gaps'["bottom"] <= gaps["top"] + gaps["bottom"] + size
            BY <5>5, <5>6, <5>8, <5>a, <5>b DEF Tiles!Edge
          <6> QED
            BY <5>2, <5>a, <5>b, <6>1, <6>2, <6>3 DEF Tiles!Edge
        <5> QED
          BY <3>6, <5>7, <5>8 DEF Tiles!Edge
      <4> QED
        BY <2>1, <3>1, <3>5, <4>1, <4>2, <4>3 DEF Tiles!Place
    <3>7. CASE anchor \notin Tiles!Edge
      BY <2>1, <3>1, <3>5, <3>7 DEF Tiles!Place
    <3> QED
      BY <3>6, <3>7
  <2>2. ASSUME NEW rect \in Tiles!Contents, Tiles!Frame(rect) PROVE (Tiles!TypeOK /\ Tiles!EdgesApart)'
    <3>1. rect \in Tiles!Area
      BY DEF Tiles!Contents, Tiles!Area, Tiles!Lengths
    <3>2. Tiles!Left \in Tiles!Area
      <4>1. \A edge \in Tiles!Edge : gaps[edge] \in 0..(Word - 1)
        BY <2>2 DEF Tiles!Frame, Tiles!EdgesApart
      <4>2. /\ gaps["left"] \in Int /\ gaps["right"] \in Int
            /\ gaps["top"] \in Int /\ gaps["bottom"] \in Int
        BY <4>1 DEF Tiles!Edge, Tiles!Lengths
      <4>3. \A x, y \in Int : Tiles!Minus(x, y) \in Int
        BY DEF Tiles!Minus
      <4>4. Width \in Int /\ Height \in Int
        BY DEF Tiles!Lengths
      <4>5. gaps["left"] + gaps["right"] \in Int /\ gaps["top"] + gaps["bottom"] \in Int
        BY <4>2
      <4>6. /\ Tiles!Minus(Width, gaps["left"] + gaps["right"]) \in Int
            /\ Tiles!Minus(Height, gaps["top"] + gaps["bottom"]) \in Int
        BY <4>3, <4>4, <4>5
      <4>7. \A x, y, width, height \in Int : Tiles!At(x, y, width, height) \in Tiles!Area
        BY DEF Tiles!At, Tiles!Area
      <4> QED
        BY <4>2, <4>6, <4>7 DEF Tiles!Left
    <3>3. \A edge \in Tiles!Edge : Tiles!Depth(rect, Tiles!Left)[edge] \in Int
      <4>1. rect.x \in Int /\ rect.y \in Int /\ rect.width \in Int /\ rect.height \in Int
        BY <3>1 DEF Tiles!Area
      <4>2. Tiles!Left.width \in Int /\ Tiles!Left.height \in Int
        BY <3>2 DEF Tiles!Area
      <4>3. /\ Tiles!Depth(rect, Tiles!Left).left \in Int /\ Tiles!Depth(rect, Tiles!Left).top \in Int
            /\ Tiles!Depth(rect, Tiles!Left).right \in Int /\ Tiles!Depth(rect, Tiles!Left).bottom \in Int
        BY <4>1, <4>2, SMTT(30) DEF Tiles!Depth
      <4> QED
        BY <4>3 DEF Tiles!Edge
    <3>4. \A edge \in Tiles!Edge : Tiles!Strip(Tiles!Depth(rect, Tiles!Left)[edge]) \in Int
      BY <3>3 DEF Tiles!Strip, Tiles!Round
    <3>5. [anchor |-> "frame", rect |-> Tiles!Left] \in Tiles!Panel
      BY <3>2 DEF Tiles!Panel
    <3>6. panels' \in Seq(Tiles!Panel) /\ panels' # <<>> /\ contents' \in Tiles!Area /\ framed' = "yes"
      BY <2>2, <3>1, <3>5 DEF Tiles!Frame
    <3>7. gaps' \in [Tiles!Edge -> Int] /\ fits' \in BOOLEAN
      BY <2>2, <3>4 DEF Tiles!Frame
    <3> QED
      BY <3>6, <3>7
  <2>3. CASE Tiles!Unmeasured
    BY <2>3 DEF Tiles!Unmeasured
  <2>4. CASE UNCHANGED Tiles!vars
    BY <2>4 DEF Tiles!vars
  <2> QED
    BY <2>1, <2>2, <2>3, <2>4 DEF Tiles!Next
<1> QED
  BY <1>1, <1>2, PTL DEF Tiles!Spec

(* Rounded to whole pixels, a depth is off by half of one at most.         *)
LEMMA HalfAPixel ==
  ASSUME NEW d \in Nat PROVE Tiles!Strip(d) \in Nat /\ 4 * Tiles!Strip(d) - d \in -2..2
BY DEF Tiles!Strip, Tiles!Round

(* What is left is what is free, while everything fits.                    *)
LEMMA NoWrap ==
  ASSUME Tiles!Lengths, Tiles!TypeOK, Tiles!EdgesApart, fits, framed # "yes"
  PROVE  /\ Tiles!FreeWidth = Width - gaps["left"] - gaps["right"]
         /\ Tiles!FreeHeight = Height - gaps["top"] - gaps["bottom"]
         /\ Tiles!Left = Tiles!Free
         /\ \A edge \in Tiles!Edge : gaps[edge] \in 0..(Word - 1)
<1>1. /\ gaps["left"] \in 0..(Word - 1) /\ gaps["right"] \in 0..(Word - 1)
      /\ gaps["top"] \in 0..(Word - 1) /\ gaps["bottom"] \in 0..(Word - 1)
      /\ gaps["left"] + gaps["right"] <= Width /\ gaps["top"] + gaps["bottom"] <= Height
  BY DEF Tiles!EdgesApart, Tiles!Edge
<1>2. /\ Tiles!Plus(gaps["left"], gaps["right"]) = gaps["left"] + gaps["right"]
      /\ Tiles!Plus(gaps["top"], gaps["bottom"]) = gaps["top"] + gaps["bottom"]
  BY <1>1 DEF Tiles!Plus, Tiles!Lengths
<1> QED
  BY <1>1, <1>2 DEF Tiles!FreeWidth, Tiles!FreeHeight, Tiles!Free, Tiles!Left, Tiles!Minus, Tiles!EdgesApart, Tiles!Lengths

(* And what is free is an area.                                            *)
LEMMA FreeArea ==
  ASSUME Tiles!Lengths, Tiles!TypeOK, Tiles!EdgesApart, fits, framed # "yes"
  PROVE  Tiles!Free \in Tiles!Area
<1>1. \A edge \in Tiles!Edge : gaps[edge] \in 0..(Word - 1)
  BY NoWrap
<1>2. /\ gaps["left"] \in Int /\ gaps["right"] \in Int
      /\ gaps["top"] \in Int /\ gaps["bottom"] \in Int
  BY <1>1 DEF Tiles!Edge, Tiles!Lengths
<1>3. Width \in Int /\ Height \in Int
  BY DEF Tiles!Lengths
<1>4. Tiles!FreeWidth \in Int /\ Tiles!FreeHeight \in Int
  BY <1>2, <1>3, NoWrap
<1> QED
  BY <1>2, <1>4 DEF Tiles!Free, Tiles!At, Tiles!Area

(* The windows are where the picture has its <Contents>, for any screen,   *)
(* any panels before it and wherever the layout engine puts them.          *)
THEOREM WindowsAreThere == ASSUME Tiles!Lengths PROVE Tiles!Spec => []Tiles!WindowsMeetContents
<1>1. Tiles!Init => Tiles!WindowsMeetContents
  BY DEF Tiles!Init, Tiles!WindowsMeetContents
<1>2. Tiles!TypeOK /\ Tiles!EdgesApart /\ Tiles!WindowsMeetContents /\ [Tiles!Next]_(Tiles!vars) => Tiles!WindowsMeetContents'
  <2> SUFFICES ASSUME Tiles!TypeOK, Tiles!EdgesApart, Tiles!WindowsMeetContents, [Tiles!Next]_(Tiles!vars)
               PROVE  Tiles!WindowsMeetContents'
    OBVIOUS
  <2>1. ASSUME NEW anchor \in Tiles!Edge \cup {"typo"}, NEW size \in Sizes, Tiles!Place(anchor, size)
        PROVE  Tiles!WindowsMeetContents'
    BY <2>1 DEF Tiles!Place, Tiles!WindowsMeetContents
  <2>2. ASSUME NEW rect \in Tiles!Contents, Tiles!Frame(rect), fits' PROVE Tiles!WindowsMeetContents'
    <3> DEFINE D == Tiles!Depth(rect, Tiles!Left)
    <3>1. /\ fits /\ framed = "no" /\ contents' = rect
          /\ \A edge \in Tiles!Edge : D[edge] >= 0
      BY <2>2 DEF Tiles!Frame
    <3>2. Tiles!Left = Tiles!Free /\ \A edge \in Tiles!Edge : gaps[edge] \in 0..(Word - 1)
      BY <3>1, NoWrap
    <3>3. /\ Tiles!Left.x = gaps["left"] /\ Tiles!Left.y = gaps["top"]
          /\ Tiles!Left.width = Width - gaps["left"] - gaps["right"]
          /\ Tiles!Left.height = Height - gaps["top"] - gaps["bottom"]
      BY <3>1, <3>2, NoWrap DEF Tiles!Free, Tiles!At
    <3>4. Tiles!Rest' = Tiles!Left
      BY <2>2 DEF Tiles!Frame, Tiles!Rest, Tiles!TypeOK
    <3>5. /\ rect.x \in Int /\ rect.y \in Int /\ rect.width \in Int /\ rect.height \in Int
          /\ gaps["left"] \in Int /\ gaps["right"] \in Int
          /\ gaps["top"] \in Int /\ gaps["bottom"] \in Int
          /\ Width \in Int /\ Height \in Int
      <4>1. rect \in Tiles!Area
        BY DEF Tiles!Contents, Tiles!Area, Tiles!Lengths
      <4>2. /\ gaps["left"] \in 0..(Word - 1) /\ gaps["right"] \in 0..(Word - 1)
            /\ gaps["top"] \in 0..(Word - 1) /\ gaps["bottom"] \in 0..(Word - 1)
        BY <3>2 DEF Tiles!Edge
      <4>3. rect.x \in Int /\ rect.y \in Int /\ rect.width \in Int /\ rect.height \in Int
        BY <4>1 DEF Tiles!Area
      <4> QED
        BY <4>2, <4>3 DEF Tiles!Lengths
    <3>6. /\ D.left = rect.x /\ D.top = rect.y
          /\ D.right = 4 * Tiles!Left.width - (rect.x + rect.width)
          /\ D.bottom = 4 * Tiles!Left.height - (rect.y + rect.height)
      BY DEF Tiles!Depth
    <3>7. D.left \in Nat /\ D.top \in Nat /\ D.right \in Nat /\ D.bottom \in Nat
      BY <3>1, <3>3, <3>5, <3>6 DEF Tiles!Edge
    <3>8. /\ gaps'["left"] = gaps["left"] + Tiles!Strip(D.left)
          /\ gaps'["top"] = gaps["top"] + Tiles!Strip(D.top)
          /\ gaps'["right"] = gaps["right"] + Tiles!Strip(D.right)
          /\ gaps'["bottom"] = gaps["bottom"] + Tiles!Strip(D.bottom)
      BY <2>2 DEF Tiles!Frame, Tiles!Edge
    <3>9. /\ Tiles!Strip(D.left) \in Nat /\ 4 * Tiles!Strip(D.left) - D.left \in -2..2
          /\ Tiles!Strip(D.top) \in Nat /\ 4 * Tiles!Strip(D.top) - D.top \in -2..2
          /\ Tiles!Strip(D.right) \in Nat /\ 4 * Tiles!Strip(D.right) - D.right \in -2..2
          /\ Tiles!Strip(D.bottom) \in Nat /\ 4 * Tiles!Strip(D.bottom) - D.bottom \in -2..2
      BY <3>7, HalfAPixel
    <3> HIDE DEF D
    <3>10. 4 * (gaps'["left"] - Tiles!Left.x) - rect.x \in -2..2
      BY <3>3, <3>5, <3>6, <3>8, <3>9
    <3>11. 4 * (gaps'["top"] - Tiles!Left.y) - rect.y \in -2..2
      BY <3>3, <3>5, <3>6, <3>8, <3>9
    <3>12. 4 * (Width - gaps'["right"] - Tiles!Left.x) - (rect.x + rect.width) \in -2..2
      BY <3>3, <3>5, <3>6, <3>8, <3>9
    <3>13. 4 * (Height - gaps'["bottom"] - Tiles!Left.y) - (rect.y + rect.height) \in -2..2
      BY <3>3, <3>5, <3>6, <3>8, <3>9
    <3> QED
      BY <3>1, <3>4, <3>10, <3>11, <3>12, <3>13 DEF Tiles!WindowsMeetContents
  <2>3. CASE Tiles!Unmeasured
    BY <2>3 DEF Tiles!Unmeasured, Tiles!WindowsMeetContents
  <2>4. CASE UNCHANGED Tiles!vars
    BY <2>4 DEF Tiles!vars, Tiles!WindowsMeetContents, Tiles!Rest, Tiles!Free, Tiles!FreeWidth, Tiles!FreeHeight
  <2>5. ASSUME NEW rect \in Tiles!Contents, Tiles!Frame(rect), ~fits' PROVE Tiles!WindowsMeetContents'
    BY <2>5 DEF Tiles!WindowsMeetContents
  <2> QED
    BY <2>1, <2>2, <2>3, <2>4, <2>5 DEF Tiles!Next
<1> QED
  BY <1>1, <1>2, Bounds, PTL DEF Tiles!Spec

(* A panel that fits cuts what is free in two: itself, and what is free    *)
(* after it.                                                               *)
LEMMA Slices ==
  ASSUME Tiles!Lengths, Tiles!TypeOK, Tiles!EdgesApart, fits, NEW anchor \in Tiles!Edge, NEW size \in Sizes,
         Tiles!Place(anchor, size), fits', Tiles!EdgesApart', Tiles!TypeOK'
  PROVE  \A px, py \in Int :
           LET new == Tiles!Placed(anchor, size)
           IN  /\ Tiles!In(px, py, Tiles!Free) <=> Tiles!In(px, py, new) \/ Tiles!In(px, py, Tiles!Free')
               /\ ~(Tiles!In(px, py, new) /\ Tiles!In(px, py, Tiles!Free'))
<1> DEFINE l == gaps["left"] r == gaps["right"] t == gaps["top"] b == gaps["bottom"]
<1>1. framed = "no" /\ framed' = "no" /\ Tiles!Fits(anchor, size) /\ size \in 0..(Word - 1)
  BY DEF Tiles!Place, Tiles!Lengths
<1>2. /\ Tiles!FreeWidth = Width - l - r /\ Tiles!FreeHeight = Height - t - b
      /\ \A edge \in Tiles!Edge : gaps[edge] \in 0..(Word - 1)
  BY <1>1, NoWrap
<1>3. /\ l \in 0..(Word - 1) /\ r \in 0..(Word - 1) /\ t \in 0..(Word - 1) /\ b \in 0..(Word - 1)
      /\ l + r <= Width /\ t + b <= Height
      /\ Word \in Nat /\ Width \in 0..(Word - 1) /\ Height \in 0..(Word - 1)
  BY <1>1, <1>2 DEF Tiles!EdgesApart, Tiles!Edge, Tiles!Lengths
<1>4. gaps' = [gaps EXCEPT ![anchor] = Tiles!Plus(@, size)]
  BY DEF Tiles!Place
<1>5. /\ gaps'["left"] + gaps'["right"] <= Width /\ gaps'["top"] + gaps'["bottom"] <= Height
      /\ \A edge \in Tiles!Edge : gaps'[edge] \in 0..(Word - 1)
  BY <1>1 DEF Tiles!EdgesApart
<1>6. /\ Tiles!FreeWidth' = Width - gaps'["left"] - gaps'["right"]
      /\ Tiles!FreeHeight' = Height - gaps'["top"] - gaps'["bottom"]
  <2>1. /\ gaps'["left"] \in 0..(Word - 1) /\ gaps'["right"] \in 0..(Word - 1)
        /\ gaps'["top"] \in 0..(Word - 1) /\ gaps'["bottom"] \in 0..(Word - 1)
    BY <1>5 DEF Tiles!Edge
  <2>2. /\ Tiles!Plus(gaps'["left"], gaps'["right"]) = gaps'["left"] + gaps'["right"]
        /\ Tiles!Plus(gaps'["top"], gaps'["bottom"]) = gaps'["top"] + gaps'["bottom"]
    BY <1>3, <1>5, <2>1 DEF Tiles!Plus
  <2> QED
    BY <1>3, <1>5, <2>1, <2>2 DEF Tiles!FreeWidth, Tiles!FreeHeight, Tiles!Minus
<1>7. /\ Tiles!Free = Tiles!At(l, t, Width - l - r, Height - t - b)
      /\ Tiles!Free' = Tiles!At(gaps'["left"], gaps'["top"], Width - gaps'["left"] - gaps'["right"],
                    Height - gaps'["top"] - gaps'["bottom"])
  BY <1>2, <1>6 DEF Tiles!Free
<1>8. gaps \in [Tiles!Edge -> Int]
  BY DEF Tiles!TypeOK
<1> SUFFICES ASSUME NEW px \in Int, NEW py \in Int
             PROVE  /\ Tiles!In(px, py, Tiles!Free) <=> Tiles!In(px, py, Tiles!Placed(anchor, size)) \/ Tiles!In(px, py, Tiles!Free')
                    /\ ~(Tiles!In(px, py, Tiles!Placed(anchor, size)) /\ Tiles!In(px, py, Tiles!Free'))
  OBVIOUS
<1>9. CASE anchor = "left"
  <2>1. /\ gaps'["left"] = l + size /\ gaps'["right"] = r
        /\ gaps'["top"] = t /\ gaps'["bottom"] = b
    BY <1>1, <1>2, <1>3, <1>4, <1>8, <1>9 DEF Tiles!Plus, Tiles!Fits, Tiles!Edge
  <2>2. Tiles!Placed(anchor, size) = Tiles!At(l, t, size, Height - t - b)
    BY <1>2, <1>9 DEF Tiles!Placed
  <2>3. size \in 0..(Width - l - r)
    BY <1>1, <1>2, <1>3, <1>9 DEF Tiles!Fits
  <2> HIDE DEF l, r, t, b
  <2> QED
    BY <1>3, <1>7, <2>1, <2>2, <2>3 DEF Tiles!In, Tiles!At
<1>10. CASE anchor = "top"
  <2>1. /\ gaps'["left"] = l /\ gaps'["right"] = r
        /\ gaps'["top"] = t + size /\ gaps'["bottom"] = b
    BY <1>1, <1>2, <1>3, <1>4, <1>8, <1>10 DEF Tiles!Plus, Tiles!Fits, Tiles!Edge
  <2>2. Tiles!Placed(anchor, size) = Tiles!At(l, t, Width - l - r, size)
    BY <1>2, <1>10 DEF Tiles!Placed
  <2>3. size \in 0..(Height - t - b)
    BY <1>1, <1>2, <1>3, <1>10 DEF Tiles!Fits
  <2> HIDE DEF l, r, t, b
  <2> QED
    BY <1>3, <1>7, <2>1, <2>2, <2>3 DEF Tiles!In, Tiles!At
<1>11. CASE anchor = "right"
  <2>1. /\ gaps'["left"] = l /\ gaps'["right"] = r + size
        /\ gaps'["top"] = t /\ gaps'["bottom"] = b
    BY <1>1, <1>2, <1>3, <1>4, <1>8, <1>11 DEF Tiles!Plus, Tiles!Fits, Tiles!Edge
  <2>3. size \in 0..(Width - l - r)
    BY <1>1, <1>2, <1>3, <1>11 DEF Tiles!Fits
  <2>2. Tiles!Placed(anchor, size) = Tiles!At(Width - r - size, t, size, Height - t - b)
    <3>1. Tiles!Minus(Width, Tiles!Plus(r, size)) = Width - r - size
      BY <1>3, <2>3 DEF Tiles!Plus, Tiles!Minus
    <3> QED
      BY <1>2, <1>11, <3>1 DEF Tiles!Placed
  <2> HIDE DEF l, r, t, b
  <2> QED
    BY <1>3, <1>7, <2>1, <2>2, <2>3 DEF Tiles!In, Tiles!At
<1>12. CASE anchor = "bottom"
  <2>1. /\ gaps'["left"] = l /\ gaps'["right"] = r
        /\ gaps'["top"] = t /\ gaps'["bottom"] = b + size
    BY <1>1, <1>2, <1>3, <1>4, <1>8, <1>12 DEF Tiles!Plus, Tiles!Fits, Tiles!Edge
  <2>3. size \in 0..(Height - t - b)
    BY <1>1, <1>2, <1>3, <1>12 DEF Tiles!Fits
  <2>2. Tiles!Placed(anchor, size) = Tiles!At(l, Height - b - size, Width - l - r, size)
    <3>1. Tiles!Minus(Height, Tiles!Plus(b, size)) = Height - b - size
      BY <1>3, <2>3 DEF Tiles!Plus, Tiles!Minus
    <3> QED
      BY <1>2, <1>12, <3>1 DEF Tiles!Placed
  <2> HIDE DEF l, r, t, b
  <2> QED
    BY <1>3, <1>7, <2>1, <2>2, <2>3 DEF Tiles!In, Tiles!At
<1> QED
  BY <1>9, <1>10, <1>11, <1>12 DEF Tiles!Edge

(* The panels of <I3Layout> and what they leave tile the screen, for any   *)
(* anchors and sizes in any order, as long as they fit.                    *)
THEOREM PanelsTile == ASSUME Tiles!Lengths PROVE Tiles!Spec => []Tiles!Tiled
<1>1. Tiles!Init => Tiles!Tiled
  <2> SUFFICES ASSUME Tiles!Init, NEW px \in 0..(Width - 1), NEW py \in 0..(Height - 1)
               PROVE  Tiles!In(px, py, Tiles!Rest) /\ Tiles!Anchored = {}
    BY DEF Tiles!Tiled, Tiles!Owned
  <2>1. Tiles!Plus(0, 0) = 0 /\ Tiles!Minus(Width, 0) = Width /\ Tiles!Minus(Height, 0) = Height
    BY DEF Tiles!Lengths, Tiles!Plus, Tiles!Minus
  <2>2. Tiles!Rest = Tiles!At(0, 0, Width, Height)
    BY <2>1 DEF Tiles!Init, Tiles!Rest, Tiles!Free, Tiles!FreeWidth, Tiles!FreeHeight, Tiles!Edge
  <2> QED
    BY <2>2 DEF Tiles!Init, Tiles!In, Tiles!At, Tiles!Anchored, Tiles!Lengths
<1>2. Tiles!TypeOK /\ Tiles!EdgesApart /\ Tiles!Tiled /\ [Tiles!Next]_(Tiles!vars) /\ Tiles!TypeOK' /\ Tiles!EdgesApart' => Tiles!Tiled'
  <2> SUFFICES ASSUME Tiles!TypeOK, Tiles!EdgesApart, Tiles!Tiled, [Tiles!Next]_(Tiles!vars), Tiles!TypeOK', Tiles!EdgesApart', fits',
                      NEW px \in 0..(Width - 1), NEW py \in 0..(Height - 1)
               PROVE  Tiles!Owned(px, py)'
    BY DEF Tiles!Tiled
  <2>0. px \in Int /\ py \in Int
    BY DEF Tiles!Lengths
  <2>1. ASSUME NEW anchor \in Tiles!Edge, NEW size \in Sizes, Tiles!Place(anchor, size)
        PROVE  Tiles!Owned(px, py)'
    <3> DEFINE n == Len(panels) + 1
               new == Tiles!Placed(anchor, size)
    <3>1. fits /\ framed = "no" /\ framed' = "no"
      BY <2>1 DEF Tiles!Place
    <3>2. Tiles!Rest = Tiles!Free /\ Tiles!Rest' = Tiles!Free'
      BY <3>1 DEF Tiles!Rest
    <3>3. /\ n \in Nat \ {0} /\ DOMAIN panels = 1..(n - 1) /\ DOMAIN panels' = 1..n
          /\ panels'[n] = [anchor |-> anchor, rect |-> new]
          /\ \A i \in 1..(n - 1) : panels'[i] = panels[i]
      BY <2>1 DEF Tiles!Place, Tiles!TypeOK
    <3>4. Tiles!Anchored' = Tiles!Anchored \cup {n} /\ n \notin Tiles!Anchored
      BY <3>3 DEF Tiles!Anchored
    <3>5. panels'[n].rect = new /\ \A i \in Tiles!Anchored : panels'[i].rect = panels[i].rect
      BY <3>3 DEF Tiles!Anchored
    <3>6. /\ Tiles!In(px, py, Tiles!Free) <=> Tiles!In(px, py, new) \/ Tiles!In(px, py, Tiles!Free')
          /\ ~(Tiles!In(px, py, new) /\ Tiles!In(px, py, Tiles!Free'))
      BY <2>0, <2>1, <3>1, Slices
    <3>7. Tiles!Owned(px, py)
      BY <3>1 DEF Tiles!Tiled
    <3> HIDE DEF n, new
    <3>8. CASE Tiles!In(px, py, Tiles!Free')
      BY <3>2, <3>4, <3>5, <3>6, <3>7, <3>8 DEF Tiles!Owned
    <3>9. CASE Tiles!In(px, py, Tiles!Free) /\ ~Tiles!In(px, py, Tiles!Free')
      BY <3>2, <3>4, <3>5, <3>6, <3>7, <3>9 DEF Tiles!Owned
    <3>10. CASE ~Tiles!In(px, py, Tiles!Free) /\ ~Tiles!In(px, py, Tiles!Free')
      <4>1. PICK i \in Tiles!Anchored :
              /\ Tiles!In(px, py, panels[i].rect)
              /\ \A j \in Tiles!Anchored \ {i} : ~Tiles!In(px, py, panels[j].rect)
        BY <3>2, <3>7, <3>10 DEF Tiles!Owned
      <4>2. i \in Tiles!Anchored' /\ Tiles!In(px, py, panels'[i].rect)
        BY <3>4, <3>5, <4>1
      <4>3. \A j \in Tiles!Anchored' \ {i} : ~Tiles!In(px, py, panels'[j].rect)
        BY <3>4, <3>5, <3>6, <3>10, <4>1
      <4> QED
        BY <3>2, <3>10, <4>2, <4>3 DEF Tiles!Owned
    <3> QED
      BY <3>8, <3>9, <3>10
  <2>2. ASSUME NEW edge \in {"typo", "frame"}, NEW rect \in Tiles!Area,
               panels' = Append(panels, [anchor |-> edge, rect |-> rect]), fits, Tiles!Rest' = Tiles!Rest
        PROVE  Tiles!Owned(px, py)'
    <3> DEFINE n == Len(panels) + 1
    <3>1. /\ n \in Nat \ {0} /\ DOMAIN panels = 1..(n - 1) /\ DOMAIN panels' = 1..n
          /\ panels'[n].anchor = edge
          /\ \A i \in 1..(n - 1) : panels'[i] = panels[i]
      BY <2>2 DEF Tiles!TypeOK
    <3>2. Tiles!Anchored' = Tiles!Anchored /\ \A i \in Tiles!Anchored : panels'[i] = panels[i]
      BY <3>1 DEF Tiles!Anchored, Tiles!Edge
    <3>3. Tiles!Owned(px, py)
      BY <2>2 DEF Tiles!Tiled
    <3> QED
      BY <2>2, <3>2, <3>3 DEF Tiles!Owned
  <2>3. ASSUME NEW size \in Sizes, Tiles!Place("typo", size)
        PROVE  Tiles!Owned(px, py)'
    <3>1. /\ fits /\ framed = "no" /\ framed' = "no" /\ gaps' = gaps
          /\ panels' = Append(panels, [anchor |-> "typo", rect |-> Tiles!Placed("typo", size)])
      BY <2>3 DEF Tiles!Place, Tiles!Edge
    <3>2. Tiles!Rest' = Tiles!Rest /\ Tiles!Placed("typo", size) = Tiles!Free
      BY <3>1 DEF Tiles!Rest, Tiles!Free, Tiles!FreeWidth, Tiles!FreeHeight, Tiles!Placed
    <3>3. Tiles!Free \in Tiles!Area
      BY <3>1, FreeArea
    <3> QED
      BY <2>2, <3>1, <3>2, <3>3
  <2>4. ASSUME NEW rect \in Tiles!Contents, Tiles!Frame(rect)
        PROVE  Tiles!Owned(px, py)'
    <3>1. /\ fits /\ framed = "no" /\ framed' = "yes"
          /\ panels' = Append(panels, [anchor |-> "frame", rect |-> Tiles!Left])
      BY <2>4 DEF Tiles!Frame
    <3>2. Tiles!Left = Tiles!Free
      BY <3>1, NoWrap
    <3>3. Tiles!Left \in Tiles!Area
      BY <3>1, <3>2, FreeArea
    <3>4. Tiles!Rest = Tiles!Free /\ Tiles!Rest' = Tiles!Left
      BY <3>1 DEF Tiles!Rest, Tiles!TypeOK
    <3> QED
      BY <2>2, <3>1, <3>2, <3>3, <3>4
  <2>5. CASE Tiles!Unmeasured
    <3>1. Tiles!Rest' = Tiles!Rest /\ Tiles!Anchored' = Tiles!Anchored /\ panels' = panels /\ fits
      BY <2>5 DEF Tiles!Unmeasured, Tiles!Rest, Tiles!Free, Tiles!FreeWidth, Tiles!FreeHeight, Tiles!Anchored
    <3>2. Tiles!Owned(px, py)
      BY <3>1 DEF Tiles!Tiled
    <3> QED
      BY <3>1, <3>2 DEF Tiles!Owned
  <2>6. CASE UNCHANGED Tiles!vars
    <3>1. Tiles!Rest' = Tiles!Rest /\ Tiles!Anchored' = Tiles!Anchored /\ panels' = panels /\ fits
      BY <2>6 DEF Tiles!vars, Tiles!Rest, Tiles!Free, Tiles!FreeWidth, Tiles!FreeHeight, Tiles!Anchored
    <3>2. Tiles!Owned(px, py)
      BY <3>1 DEF Tiles!Tiled
    <3> QED
      BY <3>1, <3>2 DEF Tiles!Owned
  <2> QED
    BY <2>1, <2>3, <2>4, <2>5, <2>6 DEF Tiles!Next
<1> QED
  <2>1. Tiles!Spec => [](Tiles!TypeOK /\ Tiles!EdgesApart)
    BY Bounds
  <2> QED
    BY <1>1, <1>2, <2>1, PTL DEF Tiles!Spec
=============================================================================
