----------------------------- MODULE Loop_proofs -----------------------------
(* What holds of the Loop for every layout, line and bound; then of the    *)
(* Figures it draws and of the Intents it passes to modules.               *)
EXTENDS Loop, Pictures, Delivery, SequenceTheorems, WellFoundedInduction, TLAPS

(* Reconciling keeps the types of the pool, stops what is not in the set,  *)
(* and leaves a process up or counts its new start.                        *)
LEMMA ReconcileTypes ==
  ASSUME pool \in [Key -> Subprocess], said \in Values, NEW set \in SUBSET Key, Reconcile(set)
  PROVE  pool' \in [Key -> Subprocess] /\ said' \in Values
BY DEF Reconcile, Subprocess, Values

(* What is up after a reconcile is in the set: kept, or started anew.      *)
LEMMA ReconcileStarts ==
  ASSUME pool \in [Key -> Subprocess], NEW set \in SUBSET Key, Reconcile(set), NEW k \in Key
  PROVE  /\ pool'[k].start >= pool[k].start
         /\ pool'[k].state = "up" =>
              k \in set /\ (pool'[k] = pool[k] \/ pool'[k].start > pool[k].start)
BY DEF Reconcile, Subprocess

(* The values a trial eval is given are values.                            *)
LEMMA NoValuesIsValues == NoValues \in Values
BY DEF NoValues, Values

(* What an eval that comes to something declares is a desired set.         *)
LEMMA WantsTypes ==
  ASSUME NEW source \in Source, NEW vals \in Values, Applies(source, vals)
  PROVE  Wants(source, vals) \in SUBSET Key
BY WantsAssumption DEF Applies, Evaluates

(* What an eval declares fits the channel of desired sets.                 *)
LEMMA DeclaresTypes ==
  ASSUME NEW source \in Source, NEW vals \in Values
  PROVE  Declares(source, vals) \in Seq(SUBSET Key)
<1>1. CASE Applies(source, vals)
  <2>1. Wants(source, vals) \in SUBSET Key BY <1>1, WantsTypes
  <2> DEFINE wants == Wants(source, vals)
  <2> HIDE DEF wants
  <2>2. <<wants>> \in Seq(SUBSET Key) BY <2>1 DEF wants
  <2> QED BY <1>1, <2>2 DEF Declares, wants
<1>2. CASE ~Applies(source, vals)
  BY <1>2 DEF Declares
<1> QED BY <1>1, <1>2

(* An evaluator is only built from files that are there.                   *)
LEMMA BuiltTypes ==
  ASSUME NEW file \in File, Loads(file), NEW displays \in Nat
  PROVE  Built(file, displays) \in Layout /\ Built(file, displays) # None
BY NoneAssumption DEF Loads, Built, File, Layout

Shown == [evaluator : Layout, values : Values, displays : Nat]

(* An eval shows and declares what has its types.                          *)
LEMMA EvalAndApplyTypes ==
  ASSUME TypeOK, NEW vals \in Values, NEW displays \in Nat, EvalAndApply(vals, displays)
  PROVE  /\ shown' \in Shown \cup {None}
         /\ declared' \in Seq(SUBSET Key) /\ ping' \in BOOLEAN
<1>1. CASE installed # None /\ Applies(installed.source, vals)
  <2>1. installed \in Layout /\ installed.source \in Source
    BY <1>1 DEF TypeOK, Layout
  <2>2. Wants(installed.source, vals) \in SUBSET Key
    BY <1>1, <2>1, WantsTypes
  <2>3. shown' \in Shown
    BY <1>1, <2>1 DEF EvalAndApply, Eval, Shown
  <2>4. declared' \in Seq(SUBSET Key) /\ ping' \in BOOLEAN
    <3> DEFINE wants == Wants(installed.source, vals)
    <3>1. declared' = declared \o <<wants>> /\ ping' = TRUE
      BY <1>1 DEF EvalAndApply, Declare
    <3>2. wants \in SUBSET Key /\ declared \in Seq(SUBSET Key)
      BY <2>2 DEF TypeOK
    <3> HIDE DEF wants
    <3> QED BY <3>1, <3>2
  <2> QED BY <2>3, <2>4
<1>2. CASE ~(installed # None /\ Applies(installed.source, vals))
  BY <1>2 DEF EvalAndApply, TypeOK, Shown
<1> QED BY <1>1, <1>2

-----------------------------------------------------------------------------
(* Every variable keeps its type, and a layout is being installed exactly  *)
(* between its load and its installation.                                  *)
LEMMA InitTypes == Init => TypeOK
<1> SUFFICES ASSUME Init PROVE TypeOK
  OBVIOUS
<1>1. PICK file \in File :
        LET shows == Loads(file) /\ Applies(file.source, NoValues)
        IN /\ disk = file
           /\ installed = IF Loads(file) THEN Built(file, 0) ELSE None
           /\ shown = IF shows THEN Eval(Built(file, 0), NoValues, 0) ELSE None
           /\ declared = IF shows THEN Declares(file.source, NoValues) ELSE <<>>
           /\ ping = shows
           /\ watched = (Loads(file) /\ file.source \in Imports)
  BY DEF Init
<1>2. Loads(file) => Built(file, 0) \in Layout /\ file.source \in Source
  BY BuiltTypes DEF Loads, File
<1>3. installed \in Layout \cup {None} /\ disk \in File
  BY <1>1, <1>2
<1>4. shown \in Shown \cup {None}
  BY <1>1, <1>2, NoValuesIsValues DEF Eval, Shown
<1>5. declared \in Seq(SUBSET Key)
  BY <1>1, <1>2, NoValuesIsValues, DeclaresTypes
<1>6. ping \in BOOLEAN /\ watched \in BOOLEAN
  BY <1>1 DEF Loads, Applies, Evaluates
<1>7. pool \in [Key -> Subprocess] /\ said \in Values /\ values \in Values
  BY NoValuesIsValues DEF Init, Subprocess
<1>8. loaded \in Layout \cup {None} /\ (loaded # None) = (at = "install")
  BY DEF Init
<1>9. items \in Seq(Item) /\ inbox \in Seq(Nat) /\ before \in [Key -> Nat]
  BY DEF Init
<1> QED BY <1>3, <1>4, <1>5, <1>6, <1>7, <1>8, <1>9 DEF Init, TypeOK, Shown

(* Every step of a pass keeps the types.                                   *)
LEMMA PassTypes == TypeOK /\ Pass => TypeOK'
<1> SUFFICES ASSUME TypeOK, Pass PROVE TypeOK'
  OBVIOUS
<1> USE DEF world, channels, processes, app, Shown
<1>1. CASE TakeDesired
  <2>1. Head(declared) \in SUBSET Key /\ Tail(declared) \in Seq(SUBSET Key)
    BY <1>1 DEF TakeDesired, TypeOK
  <2>2. pool' \in [Key -> Subprocess] /\ said' \in Values
    BY <1>1, <2>1, ReconcileTypes DEF TakeDesired, TypeOK
  <2> QED BY <1>1, <2>1, <2>2 DEF TakeDesired, TypeOK
<1>2. CASE Supervise
  <2>1. pool' \in [Key -> Subprocess] /\ said' \in Values
    BY <1>2, ReconcileTypes DEF Supervise, TypeOK
  <2> QED BY <1>2, <2>1 DEF Supervise, TypeOK
<1>3. CASE Hear
  <2>1. Head(items) \in Item /\ Tail(items) \in Seq(Item)
    BY <1>3 DEF Hear, TypeOK
  <2>2. values' \in Values /\ changed' \in BOOLEAN
    BY <1>3, <2>1 DEF Hear, TypeOK, Item, Values
  <2> QED BY <1>3, <2>1, <2>2 DEF Hear, TypeOK
<1>4. CASE Tick
  <2>1. shown' \in Shown \cup {None} /\ declared' \in Seq(SUBSET Key) /\ ping' \in BOOLEAN
    BY <1>4, EvalAndApplyTypes DEF Tick, TypeOK
  <2> QED BY <1>4, <2>1 DEF Tick, TypeOK
<1>5. CASE CheckBinary
  BY <1>5 DEF CheckBinary, TypeOK
<1>6. CASE Reload
  <2>1. loaded' \in Layout \cup {None} /\ (loaded' # None) = (at' = "install")
    BY <1>6, BuiltTypes DEF Reload, TypeOK
  <2> QED BY <1>6, <2>1 DEF Reload, TypeOK
<1>7. CASE Install
  <2>1. loaded \in Layout /\ loaded.source \in Source
    BY <1>7 DEF Install, TypeOK, Layout
  <2>2. declared' \in Seq(SUBSET Key) /\ ping' = TRUE
    <3> DEFINE more == Declares(loaded.source, NoValues)
    <3>1. more \in Seq(SUBSET Key) /\ <<{}>> \in Seq(SUBSET Key) /\ declared \in Seq(SUBSET Key)
      BY <2>1, NoValuesIsValues, DeclaresTypes DEF TypeOK
    <3>2. declared' = declared \o (<<{}>> \o more) /\ ping' = TRUE
      BY <1>7 DEF Install, Declare
    <3> HIDE DEF more
    <3> QED BY <3>1, <3>2
  <2>3. shown' \in Shown \cup {None}
    BY <1>7, <2>1, NoValuesIsValues DEF Install, Eval, TypeOK
  <2>4. before' \in [Key -> Nat]
    BY <1>7 DEF Install, TypeOK, Subprocess
  <2> QED BY <1>7, <2>1, <2>2, <2>3, <2>4, NoValuesIsValues DEF Install, TypeOK
<1>8. CASE HandleEvents
  <2>1. inbox # <<>> => Latest(inbox) \in Nat
    BY DEF TypeOK, Latest
  <2>2. shown' \in Shown \cup {None} /\ declared' \in Seq(SUBSET Key) /\ ping' \in BOOLEAN
    BY <1>8, <2>1, EvalAndApplyTypes DEF HandleEvents, TypeOK
  <2>3. known' \in Nat
    BY <1>8, <2>1 DEF HandleEvents, TypeOK
  <2> QED BY <1>8, <2>2, <2>3 DEF HandleEvents, TypeOK
<1>9. CASE Wake
  BY <1>9 DEF Wake, TypeOK
<1>10. CASE IntervalPasses
  BY <1>10 DEF IntervalPasses, TypeOK
<1>11. CASE Shutdown
  <2>1. pool' \in [Key -> Subprocess] /\ said' \in Values
    BY <1>11, ReconcileTypes DEF Shutdown, TypeOK
  <2> QED BY <1>11, <2>1 DEF Shutdown, TypeOK
<1> QED BY <1>1, <1>2, <1>3, <1>4, <1>5, <1>6, <1>7, <1>8, <1>9, <1>10, <1>11 DEF Pass

(* So does everything that happens outside of the Loop.                    *)
LEMMA OutsideTypes == TypeOK /\ Outside => TypeOK'
<1> SUFFICES ASSUME TypeOK, Outside PROVE TypeOK'
  OBVIOUS
<1> USE DEF world, channels, processes, app, Happens, Sends
<1>1. ASSUME NEW k \in Key, Crash(k) PROVE TypeOK'
  <2>1. pool' \in [Key -> Subprocess]
    BY <1>1 DEF Crash, TypeOK, Subprocess
  <2> QED BY <1>1, <2>1 DEF Crash, TypeOK
<1>2. ASSUME NEW k \in Key, NEW line \in Line, NEW stream \in {"stdout", "stderr"},
             Write(k, line, stream)
      PROVE  TypeOK'
  <2>1. items' \in Seq(Item)
    BY <1>2 DEF Write, TypeOK, Item
  <2>2. said' \in Values
    BY <1>2 DEF Write, TypeOK, Values
  <2> QED BY <1>2, <2>1, <2>2 DEF Write, TypeOK
<1>3. ASSUME NEW source \in Source, SaveLayout(source) PROVE TypeOK'
  <2>1. disk' \in File
    BY <1>3 DEF SaveLayout, TypeOK, File
  <2>2. pinging' \subseteq {"bridge", "watcher", "presenter"}
    BY <1>3 DEF SaveLayout, TypeOK
  <2>3. unseen' \in BOOLEAN
    BY <1>3, Zenon DEF SaveLayout
  <2>4. reloads' \in Nat /\ events' \in Nat
    BY <1>3 DEF SaveLayout, TypeOK
  <2> QED BY <1>3, <2>1, <2>2, <2>3, <2>4 DEF SaveLayout, TypeOK
<1>4. ASSUME NEW lib \in Lib, SaveImport(lib) PROVE TypeOK'
  <2>1. disk' \in File
    BY <1>4 DEF SaveImport, TypeOK, File
  <2> QED BY <1>4, <2>1 DEF SaveImport, TypeOK
<1>5. CASE ReplaceBinary
  BY <1>5 DEF ReplaceBinary, TypeOK
<1>6. CASE Hotplug
  BY <1>6 DEF Hotplug, TypeOK
<1> QED BY <1>1, <1>2, <1>3, <1>4, <1>5, <1>6 DEF Outside

(* So does every step.                                                     *)
LEMMA NextTypes == TypeOK /\ [Next]_vars => TypeOK'
<1> SUFFICES ASSUME TypeOK, [Next]_vars PROVE TypeOK'
  OBVIOUS
<1>1. ASSUME NEW thread \in pinging, Ping(thread) PROVE TypeOK'
  BY <1>1 DEF Ping, TypeOK, world, channels, processes, app
<1>2. CASE UNCHANGED vars
  BY <1>2 DEF vars, world, channels, processes, app, TypeOK
<1>3. CASE Pass
  BY <1>3, PassTypes
<1>4. CASE Outside
  BY <1>4, OutsideTypes
<1>5. CASE Gone
  BY <1>2, <1>5 DEF Gone
<1> QED BY <1>1, <1>2, <1>3, <1>4, <1>5 DEF Next

(* Whatever is printed, saved, plugged in or crashes, every channel holds  *)
(* what its reader expects, and an evaluator is only being installed in the*)
(* middle of a reload (App::tick, DataLoop::run).                          *)
THEOREM TypesHold == Spec => []TypeOK
<1> QED BY InitTypes, NextTypes, PTL DEF Spec

-----------------------------------------------------------------------------
(* A message has its ping still to come, or in the notifier, or its reader *)
(* is still to be reached in this pass.                                    *)
Roused ==
  /\ items # <<>> => ping \/ "bridge" \in pinging \/ at \in {"top", "hear"}
  /\ declared # <<>> => ping \/ at = "top"
  /\ inbox # <<>> => ping \/ "presenter" \in pinging \/ at # "waiting"
  /\ replaced > 0 => ping \/ "watcher" \in pinging \/ at # "waiting"
  /\ replaced > 0 /\ at \in {"reload", "install", "events"} => ping \/ "watcher" \in pinging

(* What an eval declares comes with a ping, and no ping is taken back.     *)
LEMMA EvalRouses ==
  ASSUME NEW vals, NEW displays, EvalAndApply(vals, displays),
         declared # <<>> => ping
  PROVE  /\ declared' # <<>> => ping'
         /\ ping => ping'
BY DEF EvalAndApply, Declare

(* Every step leaves a ping, or a reader to come, for each message.        *)
LEMMA RousedKept == TypeOK /\ Roused /\ [Next]_vars => Roused'
<1> SUFFICES ASSUME TypeOK, Roused, [Next]_vars PROVE Roused'
  OBVIOUS
<1> USE DEF world, channels, processes, app, Roused
<1>1. CASE TakeDesired
  BY <1>1 DEF TakeDesired
<1>2. CASE Supervise
  BY <1>2 DEF Supervise
<1>3. CASE Hear
  BY <1>3 DEF Hear
<1>4. CASE Tick
  BY <1>4, EvalRouses DEF Tick
<1>5. CASE CheckBinary
  BY <1>5 DEF CheckBinary, TypeOK
<1>6. CASE Reload
  BY <1>6 DEF Reload
<1>7. CASE Install
  BY <1>7 DEF Install, Declare
<1>8. CASE HandleEvents
  BY <1>8, EvalRouses DEF HandleEvents
<1>9. CASE Wake
  BY <1>9 DEF Wake
<1>10. CASE IntervalPasses
  BY <1>10 DEF IntervalPasses
<1>11. CASE Shutdown
  BY <1>11 DEF Shutdown
<1>12. ASSUME NEW thread \in pinging, Ping(thread) PROVE Roused'
  BY <1>12 DEF Ping
<1>13. CASE Outside
  BY <1>13 DEF Outside, Crash, Write, SaveLayout, SaveImport, ReplaceBinary, Hotplug,
               Happens, Sends, TypeOK
<1>14. CASE UNCHANGED vars
  BY <1>14 DEF vars
<1> QED BY <1>1, <1>2, <1>3, <1>4, <1>5, <1>6, <1>7, <1>8, <1>9, <1>10, <1>11, <1>12,
           <1>13, <1>14 DEF Next, Pass, Gone

(* No thread sends without a ping that outlives the reading: whenever the  *)
(* Loop waits with nothing to wake it but the interval, there is nothing   *)
(* for it to do (DataLoop::run, ADR 0024).                                 *)
THEOREM NothingLeftSleeping == Spec => []NothingSleeps
<1>1. Init => Roused
  BY DEF Init, Roused
<1>2. TypeOK /\ Roused => NothingSleeps
  BY DEF TypeOK, Roused, NothingSleeps
<1> QED BY <1>1, <1>2, RousedKept, TypesHold, PTL DEF Spec

-----------------------------------------------------------------------------
(* What is being installed has passed its trial.                           *)
Tried == loaded # None => Evaluates(loaded.source, NoValues)

(* Only a reload that tried an evaluator hands it to be installed.         *)
LEMMA TriedKept == TypeOK /\ Tried /\ [Next]_vars => Tried'
<1> SUFFICES ASSUME TypeOK, Tried, [Next]_vars PROVE Tried'
  OBVIOUS
<1>1. CASE Reload
  BY <1>1 DEF Reload, Loads, Built, Tried
<1>2. CASE Install
  BY <1>2 DEF Install, Tried
<1>3. loaded' = loaded \/ Reload \/ Install
  BY DEF Next, Pass, Outside, Gone, vars, world, channels, processes, app, TakeDesired,
         Supervise, Hear, Tick, CheckBinary, HandleEvents, Wake, IntervalPasses, Shutdown,
         Ping, Crash, Write, SaveLayout, SaveImport, ReplaceBinary, Hotplug
<1> QED BY <1>1, <1>2, <1>3 DEF Tried

(* Taking the oldest desired set leaves the newest one to be the target.   *)
LEMMA TakingKeepsTarget ==
  ASSUME TypeOK, TakeDesired
  PROVE  Target' = Target
<1>1. declared # <<>> /\ declared \in Seq(SUBSET Key)
  BY DEF TakeDesired, TypeOK
<1>2. /\ Len(declared) \in Nat \ {0} /\ Len(Tail(declared)) = Len(declared) - 1
      /\ Tail(declared) \in Seq(SUBSET Key)
      /\ \A i \in 1 .. Len(Tail(declared)) : Tail(declared)[i] = declared[i + 1]
  BY <1>1, EmptySeq, HeadTailProperties
<1>3. CASE Tail(declared) = <<>>
  <2>1. Len(declared) = 1
    BY <1>2, <1>3, EmptySeq
  <2> QED BY <1>1, <1>3, <2>1 DEF TakeDesired, Target, Latest
<1>4. CASE Tail(declared) # <<>>
  <2>1. Len(Tail(declared)) \in Nat \ {0}
    BY <1>2, <1>4, EmptySeq
  <2>2. Latest(Tail(declared)) = Latest(declared)
    BY <1>2, <2>1 DEF Latest
  <2> QED BY <1>1, <1>4, <2>2 DEF TakeDesired, Target
<1> QED BY <1>3, <1>4

(* What an eval shows and what it makes the target go together.            *)
LEMMA EvalSetsTarget ==
  ASSUME TypeOK, RunsWhatIsShown, NEW vals \in Values, NEW displays \in Nat,
         EvalAndApply(vals, displays), UNCHANGED <<wanted, installed>>
  PROVE  RunsWhatIsShown'
<1>1. CASE installed # None /\ Applies(installed.source, vals)
  <2> DEFINE wants == Wants(installed.source, vals)
  <2>1. declared' = declared \o <<wants>> /\ shown' = Eval(installed, vals, displays)
    BY <1>1 DEF EvalAndApply, Declare
  <2>2. wants \in SUBSET Key
    BY <1>1, WantsTypes DEF TypeOK, Layout
  <2>3. declared' # <<>> /\ Latest(declared') = wants
    <3> HIDE DEF wants
    <3>1. declared \in Seq(SUBSET Key)
      BY DEF TypeOK
    <3> QED BY <2>1, <2>2, <3>1 DEF Latest
  <2> QED BY <1>1, <2>1, <2>3 DEF RunsWhatIsShown, Target, Eval, Applies
<1>2. CASE ~(installed # None /\ Applies(installed.source, vals))
  BY <1>2 DEF EvalAndApply, RunsWhatIsShown, Target
<1> QED BY <1>1, <1>2

(* Installing a layout that has Surfaces does, too; one that has none      *)
(* makes it nothing.                                                       *)
LEMMA InstallSetsTarget ==
  ASSUME TypeOK, Tried, Install
  PROVE  RunsWhatIsShown'
<1> DEFINE wants == Wants(loaded.source, NoValues)
<1>1. loaded \in Layout /\ loaded.source \in Source /\ installed' = loaded
  BY DEF Install, TypeOK, Layout
<1>2. Evaluates(loaded.source, NoValues) /\ declared \in Seq(SUBSET Key)
  BY <1>1, NoneAssumption DEF Tried, TypeOK
<1>3. CASE loaded.source \notin Misshapen
  <2>1. Applies(loaded.source, NoValues)
    BY <1>2, <1>3 DEF Applies
  <2>2. declared' = declared \o (<<{}>> \o <<wants>>) /\ shown' = Eval(loaded, NoValues, known)
    BY <2>1 DEF Install, Declare, Declares
  <2>3. wants \in SUBSET Key
    BY <1>1, <2>1, NoValuesIsValues, WantsTypes
  <2>4. declared' # <<>> /\ Latest(declared') = wants
    <3> HIDE DEF wants
    <3> QED BY <1>2, <2>2, <2>3 DEF Latest
  <2> QED BY <1>1, <1>3, <2>2, <2>4 DEF RunsWhatIsShown, Target, Eval
<1>4. CASE loaded.source \in Misshapen
  <2>1. declared' = declared \o (<<{}>> \o <<>>)
    BY <1>4 DEF Install, Declare, Declares, Applies
  <2>2. declared' # <<>> /\ Latest(declared') = {}
    BY <1>2, <2>1 DEF Latest
  <2> QED BY <1>1, <1>4, <2>2 DEF RunsWhatIsShown, Target
<1> QED BY <1>3, <1>4

(* No step tears what is going to run from what is shown.                  *)
LEMMA TargetKept == TypeOK /\ Tried /\ RunsWhatIsShown /\ [Next]_vars => RunsWhatIsShown'
<1> SUFFICES ASSUME TypeOK, Tried, RunsWhatIsShown, [Next]_vars PROVE RunsWhatIsShown'
  OBVIOUS
<1>1. CASE TakeDesired
  <2>1. UNCHANGED <<shown, installed>>
    BY <1>1 DEF TakeDesired, app
  <2> QED BY <1>1, <2>1, TakingKeepsTarget DEF RunsWhatIsShown
<1>2. CASE Tick
  <2>1. UNCHANGED <<wanted, installed>>
    BY <1>2 DEF Tick, processes
  <2>2. CASE changed
    BY <1>2, <2>1, <2>2, EvalSetsTarget DEF Tick, TypeOK
  <2>3. CASE ~changed
    BY <1>2, <2>1, <2>3 DEF Tick, RunsWhatIsShown, Target
  <2> QED BY <2>2, <2>3
<1>3. CASE Install
  BY <1>3, InstallSetsTarget
<1>4. CASE HandleEvents
  <2>1. UNCHANGED <<wanted, installed>>
    BY <1>4 DEF HandleEvents, processes
  <2>2. CASE inbox = <<>>
    BY <1>4, <2>1, <2>2 DEF HandleEvents, RunsWhatIsShown, Target
  <2>3. CASE inbox # <<>>
    <3>1. Latest(inbox) \in Nat /\ EvalAndApply(values, Latest(inbox)) /\ values \in Values
      BY <1>4, <2>3 DEF HandleEvents, Latest, TypeOK
    <3> QED BY <2>1, <3>1, EvalSetsTarget
  <2> QED BY <2>2, <2>3
<1>5. UNCHANGED <<declared, wanted, shown, installed>>
        \/ TakeDesired \/ Tick \/ Install \/ HandleEvents
  BY DEF Next, Pass, Outside, Gone, vars, world, channels, processes, app,
         Supervise, Hear, CheckBinary, Reload, Wake, IntervalPasses, Shutdown,
         Ping, Crash, Write, SaveLayout, SaveImport, ReplaceBinary, Hotplug
<1>6. CASE UNCHANGED <<declared, wanted, shown, installed>>
  BY <1>6 DEF RunsWhatIsShown, Target
<1> QED BY <1>1, <1>2, <1>3, <1>4, <1>5, <1>6

(* What runs, or is about to, is what the layout on the screen asked for,  *)
(* in every state of every reload; if the layout in use has no Surfaces,   *)
(* nothing runs (apply_eval_result, DataLoop::set_desired, app.rs:1307).   *)
THEOREM RunsWhatTheBarShows == Spec => []RunsWhatIsShown
<1>1. Init => RunsWhatIsShown
  <2> SUFFICES ASSUME Init, shown # None
               PROVE  RunsWhatIsShown
    BY DEF RunsWhatIsShown
  <2>1. PICK file \in File :
          /\ installed = Built(file, 0) /\ file.source \notin Misshapen
          /\ shown = Eval(Built(file, 0), NoValues, 0)
          /\ declared = <<Wants(file.source, NoValues)>>
    BY DEF Init, Declares, Applies
  <2> QED BY <2>1 DEF RunsWhatIsShown, Target, Latest, Eval, Built
<1>2. Init => Tried
  BY DEF Init, Tried
<1> QED BY <1>1, <1>2, TriedKept, TargetKept, TypesHold, PTL DEF Spec

-----------------------------------------------------------------------------
(* An eval is current for the values and displays it was given.            *)
LEMMA ShowsKept == TypeOK /\ ShowsWhatItKnows /\ [Next]_vars => ShowsWhatItKnows'
<1> SUFFICES ASSUME TypeOK, ShowsWhatItKnows, [Next]_vars PROVE ShowsWhatItKnows'
  OBVIOUS
<1> USE DEF ShowsWhatItKnows
<1>1. CASE Hear
  <2>1. UNCHANGED <<installed, shown, known>>
    BY <1>1, Zenon DEF Hear
  <2>2. CASE Head(items).line = values[Head(items).key]
    <3>1. values' = values /\ (changed' <=> changed)
      BY <1>1, <2>2 DEF Hear, TypeOK, Values
    <3> QED BY <2>1, <3>1
  <2>3. CASE Head(items).line # values[Head(items).key]
    BY <1>1, <2>3, Zenon DEF Hear
  <2> QED BY <2>2, <2>3
<1>2. CASE Tick
  BY <1>2 DEF Tick, EvalAndApply
<1>3. CASE Install
  BY <1>3 DEF Install, TypeOK
<1>4. CASE HandleEvents
  BY <1>4 DEF HandleEvents, EvalAndApply
<1>5. UNCHANGED <<values, changed, known, installed, shown>>
        \/ Hear \/ Tick \/ Install \/ HandleEvents
  BY DEF Next, Pass, Outside, Gone, vars, world, channels, processes, app, TakeDesired,
         Supervise, CheckBinary, Reload, Wake, IntervalPasses, Shutdown,
         Ping, Crash, Write, SaveLayout, SaveImport, ReplaceBinary, Hotplug
<1> QED BY <1>1, <1>2, <1>3, <1>4, <1>5

(* Whatever arrives in whichever order, between a Tick's eval and the next *)
(* line heard, the screen shows the layout in use on all that is known     *)
(* (App::tick, App::handle_layout_reload).                                 *)
THEOREM ShowsAllItKnows == Spec => []ShowsWhatItKnows
<1>1. Init => ShowsWhatItKnows
  BY DEF Init, ShowsWhatItKnows, Built
<1> QED BY <1>1, ShowsKept, TypesHold, PTL DEF Spec

-----------------------------------------------------------------------------
(* What ran before a reload and is still up is missing from a desired set  *)
(* that is still to be taken.                                              *)
Restarting ==
  \A k \in Key :
    /\ before[k] <= pool[k].start
    /\ pool[k].state = "up" /\ pool[k].start <= before[k] =>
         \E i \in 1 .. Len(declared) : k \notin declared[i]

(* A set more in the channel takes no restart away.                        *)
LEMMA DeclaredStays ==
  ASSUME TypeOK, Restarting, NEW sets \in Seq(SUBSET Key), declared' = declared \o sets,
         UNCHANGED <<pool, before>>
  PROVE  Restarting'
<1>1. /\ Len(declared') = Len(declared) + Len(sets) /\ Len(declared) \in Nat /\ Len(sets) \in Nat
      /\ \A i \in 1 .. Len(declared) : declared'[i] = declared[i]
  BY DEF TypeOK
<1> QED BY <1>1 DEF Restarting

(* An eval adds one desired set at most.                                   *)
LEMMA EvalDeclares ==
  ASSUME TypeOK, NEW vals \in Values, NEW displays, EvalAndApply(vals, displays)
  PROVE  declared' = declared \/ \E set \in SUBSET Key : declared' = declared \o <<set>>
BY WantsTypes DEF EvalAndApply, Declare, TypeOK, Layout

(* Hence an eval takes no restart away.                                    *)
LEMMA EvalRestarts ==
  ASSUME TypeOK, Restarting, NEW vals \in Values, NEW displays,
         EvalAndApply(vals, displays), UNCHANGED <<pool, before>>
  PROVE  Restarting'
<1>1. CASE declared' = declared
  BY <1>1 DEF Restarting
<1>2. ASSUME NEW set \in SUBSET Key, declared' = declared \o <<set>> PROVE Restarting'
  <2>1. <<set>> \in Seq(SUBSET Key)
    BY <1>2
  <2> QED BY <1>2, <2>1, DeclaredStays
<1> QED BY <1>1, <1>2, EvalDeclares

(* Reconciling a set stops whatever that set leaves out.                   *)
LEMMA ReconcileRestarts ==
  ASSUME TypeOK, Restarting, NEW set \in SUBSET Key, Reconcile(set), NEW k \in Key,
         UNCHANGED before
  PROVE  /\ before'[k] <= pool'[k].start
         /\ pool'[k].state = "up" /\ pool'[k].start <= before'[k] =>
              /\ k \in set
              /\ \E i \in 1 .. Len(declared) : k \notin declared[i]
<1>1. /\ pool[k] \in Subprocess /\ pool'[k] \in Subprocess /\ before[k] \in Nat
      /\ pool'[k].start >= pool[k].start
      /\ pool'[k].state = "up" =>
           k \in set /\ (pool'[k] = pool[k] \/ pool'[k].start > pool[k].start)
  BY ReconcileStarts, ReconcileTypes DEF TypeOK
<1>2. pool[k].start \in Nat /\ pool'[k].start \in Nat
  BY <1>1 DEF Subprocess
<1> QED BY <1>1, <1>2 DEF Restarting

(* Every step keeps the set that is to stop what a reload found running.   *)
LEMMA RestartingKept == TypeOK /\ Restarting /\ [Next]_vars => Restarting'
<1> SUFFICES ASSUME TypeOK, Restarting, [Next]_vars PROVE Restarting'
  OBVIOUS
<1>1. CASE TakeDesired
  <2> SUFFICES ASSUME NEW k \in Key
               PROVE  /\ before'[k] <= pool'[k].start
                      /\ pool'[k].state = "up" /\ pool'[k].start <= before'[k] =>
                           \E i \in 1 .. Len(declared') : k \notin declared'[i]
    BY DEF Restarting
  <2>1. declared \in Seq(SUBSET Key) /\ declared # <<>> /\ declared' = Tail(declared)
    BY <1>1 DEF TakeDesired, TypeOK
  <2>2. /\ Head(declared) \in SUBSET Key /\ Head(declared) = declared[1]
        /\ Len(declared) \in Nat /\ Len(declared') = Len(declared) - 1
        /\ \A i \in 1 .. Len(declared') : declared'[i] = declared[i + 1]
    BY <2>1, EmptySeq, HeadTailProperties
  <2>3. UNCHANGED before /\ Reconcile(Head(declared))
    BY <1>1 DEF TakeDesired, app
  <2>4. ASSUME NEW i \in 1 .. Len(declared), k \in declared[1], k \notin declared[i]
        PROVE  \E j \in 1 .. Len(declared') : k \notin declared'[j]
    <3>1. i - 1 \in 1 .. Len(declared') /\ declared'[i - 1] = declared[i]
      BY <2>2, <2>4
    <3> QED BY <2>4, <3>1
  <2> QED BY <2>2, <2>3, <2>4, ReconcileRestarts
<1>2. CASE Supervise \/ Shutdown
  <2>1. UNCHANGED <<before, declared>> /\ \E set \in SUBSET Key : Reconcile(set)
    BY <1>2 DEF Supervise, Shutdown, TypeOK, channels, app
  <2> QED BY <2>1, ReconcileRestarts DEF Restarting
<1>3. CASE Tick
  <2>1. UNCHANGED <<pool, before>> /\ values \in Values
    BY <1>3 DEF Tick, processes, TypeOK
  <2>2. CASE changed
    BY <1>3, <2>1, <2>2, EvalRestarts DEF Tick
  <2>3. CASE ~changed
    BY <1>3, <2>1, <2>3 DEF Tick, Restarting
  <2> QED BY <2>2, <2>3
<1>4. CASE Install
  <2> DEFINE more == Declares(loaded.source, NoValues)
  <2>1. more \in Seq(SUBSET Key) /\ declared \in Seq(SUBSET Key)
    BY <1>4, NoValuesIsValues, DeclaresTypes DEF Install, TypeOK, Layout
  <2>2. declared' = declared \o (<<{}>> \o more)
    BY <1>4 DEF Install, Declare
  <2>3. Len(declared) + 1 \in 1 .. Len(declared') /\ declared'[Len(declared) + 1] = {}
    <3> HIDE DEF more
    <3> QED BY <2>1, <2>2
  <2>4. \A k \in Key : before'[k] <= pool'[k].start
    BY <1>4 DEF Install, processes, TypeOK, Subprocess
  <2> QED BY <2>3, <2>4 DEF Restarting
<1>5. CASE HandleEvents
  <2>1. UNCHANGED <<pool, before>> /\ values \in Values
    BY <1>5 DEF HandleEvents, processes, TypeOK
  <2>2. CASE inbox = <<>>
    BY <1>5, <2>1, <2>2 DEF HandleEvents, Restarting
  <2>3. CASE inbox # <<>>
    BY <1>5, <2>1, <2>3, EvalRestarts DEF HandleEvents
  <2> QED BY <2>2, <2>3
<1>6. ASSUME NEW k \in Key, Crash(k) PROVE Restarting'
  BY <1>6 DEF Crash, Restarting, TypeOK, Subprocess, channels, app
<1>7. UNCHANGED <<declared, pool, before>>
        \/ TakeDesired \/ Supervise \/ Shutdown \/ Tick \/ Install \/ HandleEvents
        \/ \E k \in Key : Crash(k)
  BY DEF Next, Pass, Outside, Gone, vars, world, channels, processes, app,
         Hear, CheckBinary, Reload, Wake, IntervalPasses,
         Ping, Write, SaveLayout, SaveImport, ReplaceBinary, Hotplug
<1>8. CASE UNCHANGED <<declared, pool, before>>
  BY <1>8 DEF Restarting
<1> QED BY <1>1, <1>2, <1>3, <1>4, <1>5, <1>6, <1>7, <1>8

(* However a reload's desired sets queue up behind those of earlier evals, *)
(* once they are taken no process from before it is up: the empty set is   *)
(* reconciled, not skipped (DataLoop::run, App::handle_layout_reload).     *)
THEOREM ReloadsAreColdStarts == Spec => []ReloadRestarts
<1>1. Init => Restarting
  <2> SUFFICES ASSUME Init, NEW k \in Key
               PROVE  before[k] <= pool[k].start /\ pool[k].state # "up"
    BY DEF Restarting
  <2>1. before[k] = 0 /\ pool[k] = [start |-> 0, state |-> "none"]
    BY DEF Init
  <2> QED BY <2>1
<1>2. TypeOK /\ Restarting => ReloadRestarts
  <2> SUFFICES ASSUME TypeOK, Restarting, declared = <<>>,
                      NEW k \in Key, pool[k].state = "up"
               PROVE  pool[k].start > before[k]
    BY DEF ReloadRestarts
  <2>1. Len(declared) = 0
    BY EmptySeq
  <2>2. pool[k].start \in Nat /\ before[k] \in Nat
    BY DEF TypeOK, Subprocess
  <2> QED BY <2>1, <2>2 DEF Restarting
<1> QED BY <1>1, <1>2, RestartingKept, TypesHold, PTL DEF Spec

(* A reload asked for is used up only by what reads the files after it.    *)
THEOREM NoSaveIsForgotten == Spec => []NoSaveIsMissed
<1>1. Init => NoSaveIsMissed
  <2> SUFFICES ASSUME Init, Loads(disk) PROVE loaded = None /\ UpToDate
    BY DEF NoSaveIsMissed
  <2>1. disk \in File /\ installed = Built(disk, 0) /\ loaded = None
    BY DEF Init
  <2>2. Built(disk, 0) # None
    BY <2>1, BuiltTypes
  <2> QED BY <2>1, <2>2 DEF UpToDate, OnDisk, Built
<1>2. TypeOK /\ NoSaveIsMissed /\ [Next]_vars => NoSaveIsMissed'
  <2> SUFFICES ASSUME TypeOK, NoSaveIsMissed, [Next]_vars PROVE NoSaveIsMissed'
    OBVIOUS
  <2>1. CASE Reload
    <3>1. /\ UNCHANGED <<disk, unseen, installed>> /\ reloads \in Nat
          /\ loaded = None
      BY <2>1 DEF Reload, world, TypeOK
    <3>2. CASE reloads > 0 /\ Loads(disk)
      <4>1. loaded' = Built(disk, known) /\ Loads(disk)
        BY <2>1, <3>2 DEF Reload
      <4>2. loaded' # None
        BY <4>1, BuiltTypes, NoneAssumption DEF TypeOK
      <4> QED BY <3>1, <4>1, <4>2 DEF NoSaveIsMissed, OnDisk, Built
    <3>3. CASE ~(reloads > 0 /\ Loads(disk))
      BY <2>1, <3>1, <3>3 DEF Reload, NoSaveIsMissed, UpToDate, OnDisk, Loads
    <3> QED BY <3>2, <3>3
  <2>2. CASE Install
    <3>1. /\ UNCHANGED <<disk, unseen, reloads>> /\ loaded # None
          /\ loaded' = None /\ installed' = loaded
      BY <2>2 DEF Install, TypeOK
    <3>2. OnDisk(loaded) => UpToDate'
      BY <3>1 DEF UpToDate, OnDisk
    <3>3. Loads(disk)' = Loads(disk)
      BY <3>1 DEF Loads
    <3>4. CASE unseen \/ ~Loads(disk) \/ reloads > 0
      <4>1. (unseen \/ ~Loads(disk) \/ reloads > 0)'
        BY <3>1, <3>3, <3>4
      <4> QED BY <4>1 DEF NoSaveIsMissed
    <3>5. CASE OnDisk(loaded)
      BY <3>1, <3>2, <3>5 DEF NoSaveIsMissed
    <3> QED BY <3>1, <3>4, <3>5 DEF NoSaveIsMissed
  <2>3. ASSUME NEW source \in Source, SaveLayout(source) PROVE NoSaveIsMissed'
    BY <2>3 DEF SaveLayout, TypeOK, NoSaveIsMissed
  <2>4. ASSUME NEW lib \in Lib, SaveImport(lib) PROVE NoSaveIsMissed'
    <3>1. CASE watched
      <4>1. reloads' = reloads + 1 /\ reloads \in Nat
        BY <2>4, <3>1 DEF SaveImport, TypeOK
      <4>2. (reloads > 0)'
        BY <4>1
      <4> QED BY <4>2 DEF NoSaveIsMissed
    <3>2. CASE ~watched
      <4>1. unseen' = TRUE
        BY <2>4, <3>2 DEF SaveImport
      <4> QED BY <4>1, Zenon DEF NoSaveIsMissed
    <3> QED BY <3>1, <3>2
  <2>5. UNCHANGED <<disk, unseen, reloads, loaded, installed>>
          \/ Reload \/ Install \/ (\E source \in Source : SaveLayout(source))
          \/ \E lib \in Lib : SaveImport(lib)
    BY DEF Next, Pass, Outside, Gone, vars, world, channels, processes, app, TakeDesired,
           Supervise, Hear, Tick, CheckBinary, HandleEvents, Wake, IntervalPasses, Shutdown,
           Ping, Write, Crash, ReplaceBinary, Hotplug
  <2>6. CASE UNCHANGED <<disk, unseen, reloads, loaded, installed>>
    BY <2>6 DEF NoSaveIsMissed, UpToDate, OnDisk, Loads
  <2> QED BY <2>1, <2>2, <2>3, <2>4, <2>5, <2>6
<1> QED BY <1>1, <1>2, TypesHold, PTL DEF Spec

(* Reconciling runs exactly what is wanted, and of what it leaves running  *)
(* it leaves the last line.                                                *)
LEMMA ReconcileRuns ==
  ASSUME TypeOK, NEW set \in SUBSET Key, Reconcile(set), NEW k \in Key
  PROVE  /\ pool'[k].state # "none" <=> k \in set
         /\ said'[k] # None =>
              said'[k] = said[k] /\ pool'[k] = pool[k]
<1>1. pool[k] \in Subprocess /\ pool'[k] =
        IF k \notin set THEN [pool[k] EXCEPT !.state = "none"]
        ELSE IF pool[k].state = "up" THEN pool[k]
        ELSE [start |-> pool[k].start + 1, state |-> "up"]
  BY DEF Reconcile, TypeOK
<1>2. pool'[k].state # "none" <=> k \in set
  BY <1>1 DEF Subprocess
<1>3. said'[k] = IF pool[k] = pool'[k] THEN said[k] ELSE None
  BY DEF Reconcile
<1> QED BY <1>2, <1>3

(* A crash counts as running: it is the next pass that restarts it.        *)
THEOREM OnlyTheWantedRuns == Spec => []RunsTheWanted
<1>1. Init => RunsTheWanted
  BY DEF Init, RunsTheWanted
<1>2. TypeOK /\ RunsTheWanted /\ [Next]_vars => RunsTheWanted'
  <2> SUFFICES ASSUME TypeOK, RunsTheWanted, [Next]_vars PROVE RunsTheWanted'
    OBVIOUS
  <2>1. CASE TakeDesired
    <3>1. declared # <<>> /\ Head(declared) \in SUBSET Key
      BY <2>1, HeadTailProperties DEF TakeDesired, TypeOK
    <3>2. wanted' = Head(declared) /\ Reconcile(Head(declared)) /\ at' # "exec"
      BY <2>1 DEF TakeDesired
    <3> QED BY <3>1, <3>2, ReconcileRuns DEF RunsTheWanted
  <2>2. CASE Supervise
    <3>1. wanted \in SUBSET Key /\ wanted' = wanted /\ Reconcile(wanted) /\ at' # "exec"
      BY <2>2 DEF Supervise, TypeOK
    <3> QED BY <3>1, ReconcileRuns DEF RunsTheWanted
  <2>3. CASE Shutdown
    <3>1. {} \in SUBSET Key /\ Reconcile({}) /\ at' = "exec"
      BY <2>3 DEF Shutdown
    <3> QED BY <3>1, ReconcileRuns DEF RunsTheWanted
  <2>4. ASSUME NEW k \in Key, Crash(k) PROVE RunsTheWanted'
    <3>1. /\ at # "exec" /\ UNCHANGED <<at, wanted>> /\ pool[k].state = "up"
          /\ pool' = [pool EXCEPT ![k].state = "crashed"] /\ pool \in [Key -> Subprocess]
      BY <2>4 DEF Crash, Happens, TypeOK
    <3>2. pool'[k].state = "crashed" /\ \A j \in Key \ {k} : pool'[j] = pool[j]
      BY <3>1 DEF Subprocess
    <3> QED BY <3>1, <3>2 DEF RunsTheWanted
  <2>5. (UNCHANGED <<wanted, pool>> /\ (at = "exec" <=> at' = "exec"))
          \/ TakeDesired \/ Supervise \/ Shutdown \/ \E k \in Key : Crash(k)
    BY DEF Next, Pass, Outside, Gone, vars, world, channels, processes, app, Hear, Tick,
           CheckBinary, Reload, Install, HandleEvents, Wake, IntervalPasses, Ping, Write,
           SaveLayout, SaveImport, ReplaceBinary, Hotplug
  <2>6. CASE UNCHANGED <<wanted, pool>> /\ (at = "exec" <=> at' = "exec")
    BY <2>6 DEF RunsTheWanted
  <2> QED BY <2>1, <2>2, <2>3, <2>4, <2>5, <2>6
<1> QED BY <1>1, <1>2, TypesHold, PTL DEF Spec

(* Only what runs has said anything: a kill forgets its lines.             *)
Speaking == \A k \in Key : said[k] # None => pool[k].state # "none"

LEMMA SpeakingKept == TypeOK /\ Speaking /\ [Next]_vars => Speaking'
<1> SUFFICES ASSUME TypeOK, Speaking, [Next]_vars PROVE Speaking'
  OBVIOUS
<1>1. CASE TakeDesired \/ Supervise \/ Shutdown
  <2>1. \E set \in SUBSET Key : Reconcile(set)
    BY <1>1, HeadTailProperties DEF TakeDesired, Supervise, Shutdown, TypeOK
  <2> QED BY <2>1, ReconcileRuns DEF Speaking
<1>2. ASSUME NEW k \in Key, Crash(k) PROVE Speaking'
  <2>1. /\ said' = said /\ pool[k].state = "up"
        /\ pool' = [pool EXCEPT ![k].state = "crashed"] /\ pool \in [Key -> Subprocess]
    BY <1>2 DEF Crash, TypeOK
  <2>2. pool'[k].state = "crashed" /\ \A j \in Key \ {k} : pool'[j] = pool[j]
    BY <2>1 DEF Subprocess
  <2> QED BY <2>1, <2>2 DEF Speaking
<1>3. ASSUME NEW k \in Key, NEW line \in Line, NEW stream \in {"stdout", "stderr"},
             Write(k, line, stream)
      PROVE  Speaking'
  <2>1. /\ pool' = pool /\ pool[k].state = "up" /\ said \in [Key -> Line \cup {None}]
        /\ said' = said \/ said' = [said EXCEPT ![k] = line]
    BY <1>3 DEF Write, TypeOK, Values
  <2> QED BY <2>1 DEF Speaking
<1>4. UNCHANGED <<pool, said>> \/ TakeDesired \/ Supervise \/ Shutdown
        \/ (\E k \in Key : Crash(k))
        \/ \E k \in Key, line \in Line, stream \in {"stdout", "stderr"} :
             Write(k, line, stream)
  BY DEF Next, Pass, Outside, Gone, vars, world, channels, processes, app, Hear, Tick,
         CheckBinary, Reload, Install, HandleEvents, Wake, IntervalPasses, Ping,
         SaveLayout, SaveImport, ReplaceBinary, Hotplug
<1>5. CASE UNCHANGED <<pool, said>>
  BY <1>5 DEF Speaking
<1> QED BY <1>1, <1>2, <1>3, <1>4, <1>5

(* LinesAreKept, for one key.                                              *)
Lines(k) == {i \in DOMAIN items : items[i].key = k}
LineIsKept(k) ==
  said[k] # None =>
    \/ Lines(k) = {} /\ values[k] = said[k]
    \/ \E i \in Lines(k) : items[i].line = said[k] /\ \A j \in Lines(k) : j <= i
    \/ \E i \in DOMAIN declared : k \notin declared[i]

(* A set that is taken either has the key, or forgets what it said.        *)
LEMMA TakingKeepsLines ==
  ASSUME TypeOK, Speaking, TakeDesired, NEW k \in Key, LineIsKept(k)
  PROVE  LineIsKept(k)'
<1> SUFFICES ASSUME said'[k] # None
             PROVE  \/ Lines(k)' = {} /\ values'[k] = said'[k]
                    \/ \E i \in Lines(k)' : items'[i].line = said'[k]
                                              /\ \A j \in Lines(k)' : j <= i
                    \/ \E i \in DOMAIN declared' : k \notin declared'[i]
  BY DEF LineIsKept
<1>1. declared \in Seq(SUBSET Key) /\ declared # <<>> /\ declared' = Tail(declared)
  BY DEF TakeDesired, TypeOK
<1>2. /\ Head(declared) \in SUBSET Key /\ Head(declared) = declared[1]
      /\ Len(declared) \in Nat /\ Len(declared') = Len(declared) - 1
      /\ DOMAIN declared = 1 .. Len(declared) /\ DOMAIN declared' = 1 .. Len(declared')
      /\ \A i \in 1 .. Len(declared') : declared'[i] = declared[i + 1]
  BY <1>1, EmptySeq, HeadTailProperties, LenProperties
<1>3. Reconcile(Head(declared)) /\ UNCHANGED <<items, values>>
  BY DEF TakeDesired, app
<1>4. said'[k] = said[k] /\ pool'[k] = pool[k] /\ (pool'[k].state # "none" <=> k \in declared[1])
  BY <1>2, <1>3, ReconcileRuns
<1>5. k \in declared[1]
  BY <1>4 DEF Speaking
<1>6. Lines(k)' = Lines(k)
  BY <1>3 DEF Lines
<1>7. ASSUME NEW i \in DOMAIN declared, k \notin declared[i]
      PROVE  \E j \in DOMAIN declared' : k \notin declared'[j]
  <2>1. i - 1 \in 1 .. Len(declared') /\ declared'[i - 1] = declared[i]
    BY <1>2, <1>5, <1>7
  <2> QED BY <1>2, <1>7, <2>1
<1> QED BY <1>3, <1>4, <1>6, <1>7 DEF LineIsKept

(* Lines are heard in order, and the last one stays.                       *)
LEMMA HearingKeepsLines ==
  ASSUME TypeOK, Hear, NEW k \in Key, LineIsKept(k)
  PROVE  LineIsKept(k)'
<1>1. items \in Seq(Item) /\ items # <<>> /\ items' = Tail(items)
  BY DEF Hear, TypeOK
<1>2. /\ Head(items) = items[1] /\ items[1] \in Item
      /\ Len(items) \in Nat \ {0} /\ Len(items') = Len(items) - 1
      /\ DOMAIN items = 1 .. Len(items) /\ DOMAIN items' = 1 .. Len(items')
      /\ \A i \in 1 .. Len(items') : items'[i] = items[i + 1]
  BY <1>1, EmptySeq, HeadTailProperties, LenProperties
<1>3. UNCHANGED <<said, declared>>
  BY DEF Hear, processes
<1>4. /\ values \in [Key -> Line \cup {None}]
      /\ values' = [values EXCEPT ![items[1].key] = items[1].line]
  BY <1>2 DEF Hear, TypeOK, Values
<1>5. \A i \in 2 .. Len(items) : i \in Lines(k) => i - 1 \in Lines(k)'
  <2> SUFFICES ASSUME NEW i \in 2 .. Len(items), i \in Lines(k) PROVE i - 1 \in Lines(k)'
    OBVIOUS
  <2>1. i - 1 \in 1 .. Len(items') /\ items'[i - 1] = items[i]
    BY <1>2
  <2> QED BY <1>2, <2>1 DEF Lines
<1>6. \A i \in Lines(k)' : i \in Nat /\ i >= 1 /\ i + 1 \in Lines(k)
  <2> SUFFICES ASSUME NEW i \in Lines(k)' PROVE i \in Nat /\ i >= 1 /\ i + 1 \in Lines(k)
    OBVIOUS
  <2>1. i \in 1 .. Len(items') /\ items'[i].key = k
    BY <1>2 DEF Lines
  <2>2. i + 1 \in 1 .. Len(items) /\ items'[i] = items[i + 1]
    BY <1>2, <2>1
  <2> QED BY <1>2, <2>1, <2>2 DEF Lines
<1>7. \A i \in Lines(k) : i \in 1 .. Len(items) /\ items[i].key = k
  BY <1>2 DEF Lines
<1>8. CASE Lines(k) = {} /\ values[k] = said[k]
  <2>1. Lines(k)' = {}
    BY <1>6, <1>8
  <2>2. items[1].key # k
    BY <1>2, <1>8 DEF Lines
  <2>3. values'[k] = values[k]
    BY <1>4, <2>2
  <2> QED BY <1>3, <1>8, <2>1, <2>3 DEF LineIsKept
<1>9. ASSUME NEW i \in Lines(k), items[i].line = said[k], \A j \in Lines(k) : j <= i
      PROVE  LineIsKept(k)'
  <2>1. CASE i = 1
    <3>1. Lines(k)' = {}
      <4> SUFFICES ASSUME NEW j \in Lines(k)' PROVE FALSE
        OBVIOUS
      <4>1. j \in Nat /\ j >= 1 /\ j + 1 <= 1
        BY <1>6, <1>9, <2>1
      <4> QED BY <4>1
    <3>2. values'[k] = said'[k]
      BY <1>3, <1>4, <1>7, <1>9, <2>1
    <3> QED BY <3>1, <3>2 DEF LineIsKept
  <2>2. CASE i # 1
    <3>1. i \in 2 .. Len(items)
      BY <1>2, <1>7, <2>2
    <3>2. i - 1 \in Lines(k)' /\ items'[i - 1] = items[i]
      BY <1>2, <1>5, <3>1
    <3>3. \A j \in Lines(k)' : j <= i - 1
      BY <1>6, <1>9, <3>1
    <3> QED BY <1>3, <1>9, <3>2, <3>3 DEF LineIsKept
  <2> QED BY <2>1, <2>2
<1>10. CASE \E i \in DOMAIN declared : k \notin declared[i]
  BY <1>3, <1>10 DEF LineIsKept
<1>11. CASE said[k] = None
  BY <1>3, <1>11 DEF LineIsKept
<1> QED BY <1>8, <1>9, <1>10, <1>11 DEF LineIsKept

(* A line that is written is the last of its key.                          *)
LEMMA WritingKeepsLines ==
  ASSUME TypeOK, NEW s \in Key, NEW line \in Line, NEW stream \in {"stdout", "stderr"},
         Write(s, line, stream), NEW k \in Key \ Noisy, LineIsKept(k)
  PROVE  LineIsKept(k)'
<1> DEFINE item == [key |-> s, line |-> line]
<1>1. items \in Seq(Item) /\ item \in Item /\ items' = Append(items, item)
  BY DEF Write, TypeOK, Item
<1>2. /\ Len(items) \in Nat /\ Len(items') = Len(items) + 1
      /\ DOMAIN items = 1 .. Len(items) /\ DOMAIN items' = 1 .. Len(items')
      /\ \A i \in 1 .. Len(items) : items'[i] = items[i]
      /\ items'[Len(items) + 1] = item
  <2> HIDE DEF item
  <2> QED BY <1>1, AppendProperties, LenProperties
<1>3. UNCHANGED <<values, declared>> /\ said \in [Key -> Line \cup {None}]
  BY DEF Write, app, TypeOK, Values
<1>4. \A i \in Lines(k)' : i \in 1 .. (Len(items) + 1) /\ items'[i].key = k
  BY <1>2 DEF Lines
<1>5. CASE s = k
  <2>1. said' = [said EXCEPT ![k] = line]
    BY <1>5 DEF Write
  <2>2. Len(items) + 1 \in Lines(k)'
    BY <1>2, <1>5 DEF Lines
  <2>3. said'[k] = line
    BY <1>3, <2>1
  <2>4. \A j \in Lines(k)' : j <= Len(items) + 1
    BY <1>2, <1>4
  <2> QED BY <1>2, <2>2, <2>3, <2>4 DEF LineIsKept
<1>6. CASE s # k
  <2>1. said'[k] = said[k]
    BY <1>3, <1>6 DEF Write
  <2>2. Lines(k)' = Lines(k)
    <3>1. ASSUME NEW i \in Lines(k)' PROVE i \in Lines(k)
      <4>1. i # Len(items) + 1
        BY <1>2, <1>4, <1>6
      <4>2. i \in 1 .. Len(items)
        BY <1>2, <1>4, <4>1
      <4> QED BY <1>2, <1>4, <4>2 DEF Lines
    <3>2. ASSUME NEW i \in Lines(k) PROVE i \in Lines(k)'
      <4>1. i \in 1 .. Len(items) /\ items[i].key = k
        BY <1>2 DEF Lines
      <4>2. i \in 1 .. Len(items') /\ items'[i] = items[i]
        BY <1>2, <4>1
      <4> QED BY <1>2, <4>1, <4>2 DEF Lines
    <3> QED BY <3>1, <3>2
  <2>3. \A i \in Lines(k) : items'[i] = items[i]
    BY <1>2 DEF Lines
  <2> QED BY <1>3, <2>1, <2>2, <2>3 DEF LineIsKept
<1> QED BY <1>5, <1>6

(* Every step keeps the lines of the processes that do not use stderr.     *)
LEMMA LinesStep ==
  ASSUME TypeOK, Speaking, [Next]_vars, NEW k \in Key \ Noisy, LineIsKept(k)
  PROVE  LineIsKept(k)'
<1>1. CASE TakeDesired
  BY <1>1, TakingKeepsLines
<1>2. CASE Hear
  BY <1>2, HearingKeepsLines
<1>3. CASE Supervise \/ Shutdown
  <2>1. UNCHANGED <<items, values, declared>> /\ \E set \in SUBSET Key : Reconcile(set)
    BY <1>3 DEF Supervise, Shutdown, channels, app, TypeOK
  <2>2. said'[k] # None => said'[k] = said[k]
    BY <2>1, ReconcileRuns
  <2> QED BY <2>1, <2>2 DEF LineIsKept, Lines
<1>4. CASE Install
  <2> DEFINE more == Declares(loaded.source, NoValues)
  <2>1. more \in Seq(SUBSET Key) /\ declared \in Seq(SUBSET Key)
    BY <1>4, NoValuesIsValues, DeclaresTypes DEF Install, TypeOK, Layout
  <2>2. declared' = declared \o (<<{}>> \o more)
    BY <1>4 DEF Install, Declare
  <2>3. Len(declared) + 1 \in DOMAIN declared' /\ declared'[Len(declared) + 1] = {}
    <3> HIDE DEF more
    <3> QED BY <2>1, <2>2
  <2> QED BY <2>3 DEF LineIsKept
<1>5. CASE Tick \/ HandleEvents
  <2>1. UNCHANGED <<items, values, said>> /\ declared \in Seq(SUBSET Key)
    BY <1>5 DEF Tick, HandleEvents, processes, TypeOK
  <2>2. \/ declared' = declared
        \/ \E vals \in Values : \E displays : EvalAndApply(vals, displays)
    BY <1>5 DEF Tick, HandleEvents, TypeOK
  <2>3. \/ declared' = declared
        \/ \E set \in SUBSET Key : declared' = declared \o <<set>>
    BY <2>2, EvalDeclares
  <2>4. \A i \in DOMAIN declared : i \in DOMAIN declared' /\ declared'[i] = declared[i]
    <3> SUFFICES ASSUME NEW set \in SUBSET Key, declared' = declared \o <<set>>
                 PROVE  \A i \in DOMAIN declared :
                          i \in DOMAIN declared' /\ declared'[i] = declared[i]
      BY <2>3
    <3>1. <<set>> \in Seq(SUBSET Key)
      OBVIOUS
    <3> QED BY <2>1, <3>1
  <2> QED BY <2>1, <2>4 DEF LineIsKept, Lines
<1>6. ASSUME NEW s \in Key, NEW line \in Line, NEW stream \in {"stdout", "stderr"},
             Write(s, line, stream)
      PROVE  LineIsKept(k)'
  BY <1>6, WritingKeepsLines
<1>7. UNCHANGED <<items, values, said, declared>> \/ TakeDesired \/ Hear \/ Supervise
        \/ Shutdown \/ Install \/ Tick \/ HandleEvents
        \/ \E s \in Key, line \in Line, stream \in {"stdout", "stderr"} :
             Write(s, line, stream)
  BY DEF Next, Pass, Outside, Gone, vars, world, channels, processes, app, CheckBinary,
         Reload, Wake, IntervalPasses, Ping, Crash, SaveLayout, SaveImport, ReplaceBinary,
         Hotplug
<1>8. CASE UNCHANGED <<items, values, said, declared>>
  BY <1>8 DEF LineIsKept, Lines
<1> QED BY <1>1, <1>2, <1>3, <1>4, <1>5, <1>6, <1>7, <1>8

(* However lines, evals and reloads interleave, the last line of a process *)
(* is its value once the Loop has heard everything: no line of an earlier  *)
(* process of the key comes after it, and no reload empties it behind its  *)
(* back without restarting it (DataLoop::run, App::handle_layout_reload).  *)
THEOREM LinesAreHeard == Spec => []LinesAreKept
<1>1. LinesAreKept <=> \A k \in Key \ Noisy : LineIsKept(k)
  BY DEF LinesAreKept, LineIsKept, Lines
<1>2. Init => Speaking /\ LinesAreKept
  BY DEF Init, Speaking, LinesAreKept, NoValues
<1>3. TypeOK /\ Speaking /\ LinesAreKept /\ [Next]_vars => LinesAreKept'
  BY <1>1, LinesStep DEF LinesAreKept, LineIsKept, Lines
<1> QED BY <1>2, <1>3, SpeakingKept, TypesHold, PTL DEF Spec
-----------------------------------------------------------------------------
(* D3Figures, over the same Picture store.                                 *)
CONSTANTS Calls, Asset, MaxLoads
VARIABLES previous, thread, drawn, files, download, heldBack, lost

Fig == INSTANCE Figures

(* Counting from 0 reaches every number up to N.                           *)
LEMMA Counting ==
  ASSUME NEW N \in Nat, NEW S, 0 \in S, \A n \in 0..(N - 1) : n \in S => n + 1 \in S
  PROVE  0..N \subseteq S
<1> DEFINE T == 0..N \ S
<1> SUFFICES ASSUME T # {} PROVE FALSE
  OBVIOUS
<1>1. T \subseteq Nat
  OBVIOUS
<1>2. PICK t \in T : \A y \in T : ~(<<y, t>> \in OpToRel(<, Nat))
  BY <1>1, WFMin, NatLessThanWellFounded
<1>3. \A y \in T : ~(y < t)
  BY <1>1, <1>2 DEF OpToRel
<1>4. t \in Nat /\ t # 0
  BY <1>1
<1>5. t - 1 \in 0..(N - 1) /\ t - 1 \notin T
  BY <1>3, <1>4
<1>6. t - 1 \in S /\ (t - 1) + 1 \in S
  BY <1>5
<1> QED BY <1>4, <1>6

(* A recursive function over the first numbers is there, step by step.     *)
Unfolds(f, N, b, step) == f[0] = b /\ \A n \in 1..N : f[n] = step[n][f[n - 1]]

(* There is such a function for any first value and any steps.             *)
LEMMA Unfolding ==
  ASSUME NEW N \in Nat, NEW X, NEW b \in X, NEW step \in [1..N -> [X -> X]]
  PROVE  \E f \in [0..N -> X] : Unfolds(f, N, b, step)
<1> DEFINE Good(m) == \E f \in [0..m -> X] :
                        f[0] = b /\ \A n \in 1..m : f[n] = step[n][f[n - 1]]
           S == {m \in 0..N : Good(m)}
<1>1. 0 \in S
  <2> DEFINE f == [n \in 0..0 |-> b]
  <2>1. f \in [0..0 -> X] /\ f[0] = b /\ 1..0 = {}
    OBVIOUS
  <2>2. Good(0)
    BY <2>1
  <2> QED BY <2>2
<1>2. ASSUME NEW m \in 0..(N - 1), m \in S PROVE m + 1 \in S
  <2>1. PICK f \in [0..m -> X] : f[0] = b /\ \A n \in 1..m : f[n] = step[n][f[n - 1]]
    BY <1>2
  <2> DEFINE g == [n \in 0..(m + 1) |-> IF n = m + 1 THEN step[n][f[m]] ELSE f[n]]
  <2>2. f[m] \in X /\ step[m + 1] \in [X -> X]
    OBVIOUS
  <2>3. g \in [0..(m + 1) -> X]
    BY <2>2
  <2>4. g[0] = b
    BY <2>1
  <2>5. ASSUME NEW n \in 1..(m + 1) PROVE g[n] = step[n][g[n - 1]]
    BY <2>1
  <2>6. Good(m + 1)
    BY <2>3, <2>4, <2>5
  <2> QED BY <2>6
<1>3. N \in S
  <2> HIDE DEF S
  <2>1. \A m \in 0..(N - 1) : m \in S => m + 1 \in S
    BY <1>2
  <2>2. 0..N \subseteq S
    BY <1>1, <2>1, Counting
  <2> QED BY <2>2
<1> QED BY <1>3 DEF Unfolds

(* A largest place.                                                        *)
LEMMA Largest ==
  ASSUME NEW n \in Nat, NEW S \in SUBSET (1..n), S # {}
  PROVE  \E m \in S : \A x \in S : x <= m
<1> DEFINE T == {n - x : x \in S}
<1>1. T \subseteq Nat /\ T # {}
  <2>1. \A x \in S : n - x \in Nat
    OBVIOUS
  <2> QED BY <2>1
<1>2. PICK t \in T : \A y \in T : ~(<<y, t>> \in OpToRel(<, Nat))
  BY <1>1, WFMin, NatLessThanWellFounded
<1>3. \A y \in T : ~(y < t)
  BY <1>1, <1>2 DEF OpToRel
<1>4. PICK m \in S : t = n - m
  OBVIOUS
<1>5. ASSUME NEW x \in S PROVE x <= m
  <2>1. n - x \in T /\ ~(n - x < n - m)
    BY <1>3, <1>4
  <2> QED BY <2>1
<1> QED BY <1>5

-----------------------------------------------------------------------------
(* The drawings on their way to the Loop are in a queue.                   *)
Listed == drawn \in Seq({drawn[i] : i \in DOMAIN drawn})

(* A queue of what it holds, with one more, is one of what it then holds.  *)
LEMMA Listing ==
  ASSUME NEW s, s \in Seq({s[i] : i \in DOMAIN s}), NEW e
  PROVE  Append(s, e) \in Seq({Append(s, e)[i] : i \in DOMAIN Append(s, e)})
<1> DEFINE all == {s[i] : i \in DOMAIN s} \cup {e}
<1>1. s \in Seq(all)
  OBVIOUS
<1>2. Append(s, e) \in Seq(all) /\ Len(Append(s, e)) = Len(s) + 1
  BY <1>1
<1>3. ASSUME NEW t \in Seq(all) PROVE t \in Seq({t[i] : i \in DOMAIN t})
  <2> DEFINE own == {t[i] : i \in DOMAIN t}
  <2>1. DOMAIN t = 1..Len(t) /\ Len(t) \in Nat
    OBVIOUS
  <2>2. t \in [1..Len(t) -> own]
    BY <2>1
  <2> HIDE DEF own
  <2>3. t \in Seq(own)
    BY <2>1, <2>2, SeqDef
  <2> QED BY <2>3 DEF own
<1> QED BY <1>2, <1>3

(* So the drawings are a queue in every state.                             *)
LEMMA ListedHolds == Fig!Spec => []Listed
<1>1. Fig!Init => Listed
  BY DEF Fig!Init, Listed
<1>2. Listed /\ [Fig!Next]_Fig!vars => Listed'
  <2> SUFFICES ASSUME Listed, [Fig!Next]_Fig!vars PROVE Listed'
    OBVIOUS
  <2>1. CASE UNCHANGED drawn
    BY <2>1 DEF Listed
  <2>2. CASE drawn' = <<>>
    BY <2>2 DEF Listed
  <2>3. CASE \E e : drawn' = Append(drawn, e)
    BY <2>3, Listing DEF Listed
  <2>4. UNCHANGED drawn \/ drawn' = <<>> \/ \E e : drawn' = Append(drawn, e)
    <3>1. CASE UNCHANGED Fig!vars
      BY <3>1 DEF Fig!vars
    <3>2. ASSUME NEW keys \in Calls, Fig!Eval(keys) \/ Fig!Reload(keys) PROVE UNCHANGED drawn
      BY <3>2 DEF Fig!Eval, Fig!Reload
    <3>3. CASE Fig!Save \/ Fig!KeepLayout \/ Fig!SpawnDrawRuntime
      BY <3>3 DEF Fig!Save, Fig!KeepLayout, Fig!SpawnDrawRuntime
    <3>4. CASE Fig!StoreDrawn
      BY <3>4 DEF Fig!StoreDrawn
    <3>5. ASSUME NEW g \in Fig!Generation, Fig!Run(g) \/ Fig!HoldPasses(g) \/ Fig!Fault(g)
          PROVE  UNCHANGED drawn \/ \E e : drawn' = Append(drawn, e)
      BY <3>5 DEF Fig!Run, Fig!HoldPasses, Fig!Fault, Fig!StartRound, Fig!NotReady, Fig!Ready,
           Fig!StartDraw, Fig!FinishDraw, Fig!Closed, Fig!Collect, Fig!RoundFails,
           Fig!LibrariesFail, Fig!DrawThrows
    <3>6. CASE Fig!Fetch \/ Fig!DownloadFails \/ Fig!BackoffPasses
      BY <3>6 DEF Fig!Fetch, Fig!Download, Fig!DownloadDone, Fig!DownloadFails,
           Fig!BackoffPasses, Fig!others
    <3> QED BY <3>1, <3>2, <3>3, <3>4, <3>5, <3>6 DEF Fig!Next, Fig!TheLoop
  <2> QED BY <2>1, <2>2, <2>3, <2>4
<1> QED BY <1>1, <1>2, PTL DEF Fig!Spec

(* Only StoreDrawn changes what is stored.                                 *)
LEMMA OnlyStoring ==
  ASSUME [Fig!Next]_Fig!vars PROVE Fig!StoreDrawn \/ UNCHANGED entries
<1>1. CASE UNCHANGED Fig!vars
  BY <1>1 DEF Fig!vars, Fig!pictures
<1>2. ASSUME NEW keys \in Calls, Fig!Eval(keys) \/ Fig!Reload(keys) PROVE UNCHANGED entries
  BY <1>2 DEF Fig!Eval, Fig!Reload
<1>3. CASE Fig!Save \/ Fig!KeepLayout \/ Fig!SpawnDrawRuntime
  BY <1>3 DEF Fig!Save, Fig!KeepLayout, Fig!SpawnDrawRuntime, Fig!pictures
<1>4. ASSUME NEW g \in Fig!Generation, Fig!Run(g) \/ Fig!HoldPasses(g) \/ Fig!Fault(g)
      PROVE  UNCHANGED entries
  BY <1>4 DEF Fig!Run, Fig!HoldPasses, Fig!Fault, Fig!StartRound, Fig!NotReady, Fig!Ready,
       Fig!StartDraw, Fig!FinishDraw, Fig!Closed, Fig!Collect, Fig!RoundFails,
       Fig!LibrariesFail, Fig!DrawThrows, Fig!loop, Fig!pictures
<1>5. CASE Fig!Fetch \/ Fig!DownloadFails \/ Fig!BackoffPasses
  BY <1>5 DEF Fig!Fetch, Fig!Download, Fig!DownloadDone, Fig!DownloadFails,
       Fig!BackoffPasses, Fig!others, Fig!pictures
<1> QED BY <1>1, <1>2, <1>3, <1>4, <1>5 DEF Fig!Next, Fig!TheLoop

(* What a StoreDrawn stores: the drawings of the newest runtime, by key.   *)
LEMMA Storing ==
  ASSUME Listed, Fig!StoreDrawn, NEW k \in Name
  PROVE  entries'[k] \in {entries[k], Blank, generation}
<1> DEFINE arrived == {i \in DOMAIN drawn : Fig!CurrentOnly(drawn[i])}
           of == {i \in arrived : drawn[i].key = k}
           last == CHOOSE i \in arrived :
                     drawn[i].key = k /\ \A j \in arrived : drawn[j].key = k => j <= i
<1>1. CASE UNCHANGED entries
  BY <1>1
<1>2. CASE of # {}
  <2>1. of \subseteq 1..Len(drawn) /\ Len(drawn) \in Nat
    BY DEF Listed
  <2>2. PICK m \in of : \A x \in of : x <= m
    BY <1>2, <2>1, Largest
  <2>3. last \in arrived
    BY <2>2
  <2>4. drawn[last].by = generation
    BY <2>3 DEF Fig!CurrentOnly
  <2> QED BY <2>4, <1>2 DEF Fig!StoreDrawn, Fig!Retain, Fig!pictures
<1>3. CASE of = {}
  BY <1>3 DEF Fig!StoreDrawn, Fig!Retain, Fig!pictures
<1> QED BY <1>2, <1>3

(* What is stored comes from the newest runtime (requests.rs), for any     *)
(* layouts, keys and number of loads.                                      *)
THEOREM StoresCurrent == Fig!Spec => StoresOnlyCurrent
<1>1. Listed /\ [Fig!Next]_Fig!vars =>
        [\A k \in Name : entries'[k] \notin {entries[k], Blank} => entries'[k] = generation]_entries
  BY OnlyStoring, Storing
<1>2. [][\A k \in Name : entries'[k] \notin {entries[k], Blank} => entries'[k] = generation]_entries
        => StoresOnlyCurrent
  BY PTL DEF StoresOnlyCurrent
<1> QED BY <1>1, <1>2, ListedHolds, PTL DEF Fig!Spec
-----------------------------------------------------------------------------
(* Never blank.                                                            *)
Maps == [Name -> Name \cup {Blank}]

(* The constants are as Figures assumes them.                              *)
Settings ==
  /\ Calls \subseteq Seq(Name) /\ Blank \notin Name \cup Calls
  /\ MaxLoads \in Nat \ {0, 1}
  /\ Blank \notin Fig!Generation \cup Fig!Picture

(* The key a key falls back to when it takes the place of p.               *)
Onward(p) == IF entries[p] = Blank /\ fallback[p] # Blank THEN fallback[p] ELSE p

(* Does the figure at i change its key.                                    *)
Changes(keys, i) == i \in DOMAIN previous /\ previous[i] # keys[i]

(* The fallbacks of a plan, figure by figure.                              *)
Plans(f, keys) ==
  /\ Fig!Fallbacks(keys) = f[Len(keys)] /\ f[0] = fallback
  /\ \A i \in 1..Len(keys) :
       f[i] = IF Changes(keys, i) THEN Fig!SetFallback(f[i - 1], keys[i], previous[i])
                                  ELSE f[i - 1]

(* The fallbacks of a plan can be worked out figure by figure.             *)
LEMMA FallbacksUnfold ==
  ASSUME fallback \in Maps, NEW keys \in Seq(Name), previous \in Seq(Name)
  PROVE  \E f \in [0..Len(keys) -> Maps] : Plans(f, keys)
<1> DEFINE N == Len(keys)
           step == [i \in 1..N |-> [x \in Maps |->
                      IF Changes(keys, i) THEN Fig!SetFallback(x, keys[i], previous[i]) ELSE x]]
<1>0. N \in Nat /\ DOMAIN keys = 1..N
  OBVIOUS
<1>1. /\ step \in [1..N -> [Maps -> Maps]]
      /\ \A i \in 1..N, x \in Maps :
           step[i][x] = IF Changes(keys, i) THEN Fig!SetFallback(x, keys[i], previous[i]) ELSE x
  <2>1. ASSUME NEW x \in Maps, NEW k \in Name, NEW p \in Name PROVE Fig!SetFallback(x, k, p) \in Maps
    BY <2>1 DEF Fig!SetFallback, Maps
  <2>2. ASSUME NEW i \in 1..N, NEW x \in Maps
        PROVE (IF Changes(keys, i) THEN Fig!SetFallback(x, keys[i], previous[i]) ELSE x) \in Maps
    BY <2>1, <1>0 DEF Changes
  <2> QED BY <2>2
<1> HIDE DEF step
<1>2. PICK h \in [0..N -> Maps] :
        h[0] = fallback /\ \A n \in 1..N : h[n] = step[n][h[n - 1]]
  <2> HIDE DEF N
  <2>1. \E h \in [0..N -> Maps] : Unfolds(h, N, fallback, step)
    BY <1>0, <1>1, Unfolding
  <2> QED BY <2>1 DEF Unfolds
<1> DEFINE Obeys(f) ==
      f = [i \in 0..N |->
             IF i = 0 THEN fallback
             ELSE IF i \in DOMAIN previous /\ previous[i] # keys[i]
                  THEN Fig!SetFallback(f[i - 1], keys[i], previous[i])
                  ELSE f[i - 1]]
           g == CHOOSE f : Obeys(f)
<1>3. Obeys(h)
  <2>1. ASSUME NEW n \in 1..N
        PROVE  h[n] = IF Changes(keys, n) THEN Fig!SetFallback(h[n - 1], keys[n], previous[n])
                                          ELSE h[n - 1]
    <3>1. h[n] = step[n][h[n - 1]] /\ h[n - 1] \in Maps
      BY <1>0, <1>2
    <3> QED BY <3>1, <1>1
  <2>2. h[0] = fallback
    BY <1>0, <1>2
  <2>3. h = [n \in 0..N |-> h[n]]
    BY <1>2
  <2>4. \A i \in 0..N : i # 0 => i \in 1..N
    BY <1>0
  <2>5. \A i \in 0..N :
          h[i] = IF i = 0 THEN fallback
                 ELSE IF i \in DOMAIN previous /\ previous[i] # keys[i]
                      THEN Fig!SetFallback(h[i - 1], keys[i], previous[i])
                      ELSE h[i - 1]
    BY <2>1, <2>2, <2>4 DEF Changes
  <2> QED BY <2>3, <2>5
<1>4. Obeys(g)
  <2> HIDE DEF Obeys
  <2> QED BY <1>3
<1>5. /\ g[0] = fallback /\ DOMAIN g = 0..N
      /\ \A i \in 1..N :
           g[i] = IF Changes(keys, i) THEN Fig!SetFallback(g[i - 1], keys[i], previous[i])
                                      ELSE g[i - 1]
  <2> HIDE DEF g
  <2> QED BY <1>0, <1>4 DEF Changes
<1>6. Fig!Fallbacks(keys) = g[N]
  BY DEF Fig!Fallbacks
<1> HIDE DEF g
<1>7. g = h
  <2> DEFINE S == {i \in 0..N : g[i] = h[i]}
  <2>1. 0 \in S
    BY <1>2, <1>5
  <2>2. ASSUME NEW n \in 0..(N - 1), n \in S PROVE n + 1 \in S
    <3>1. h[n + 1] = IF Changes(keys, n + 1) THEN Fig!SetFallback(h[n], keys[n + 1], previous[n + 1])
                                             ELSE h[n]
      <4>1. n + 1 \in 0..N /\ n + 1 # 0 /\ (n + 1) - 1 = n
        BY <1>0
      <4> QED BY <1>3, <4>1 DEF Changes
    <3>2. g[n + 1] = IF Changes(keys, n + 1) THEN Fig!SetFallback(g[n], keys[n + 1], previous[n + 1])
                                             ELSE g[n]
      BY <1>0, <1>5
    <3> QED BY <1>0, <3>1, <3>2, <2>2
  <2>3. 0..N \subseteq S
    <3> HIDE DEF S
    <3>1. \A n \in 0..(N - 1) : n \in S => n + 1 \in S
      BY <2>2
    <3> QED BY <1>0, <2>1, <3>1, Counting
  <2>4. \A i \in 0..N : g[i] = h[i]
    BY <2>3
  <2>5. g = [i \in 0..N |-> g[i]]
    BY <1>4
  <2>6. h = [i \in 0..N |-> h[i]]
    BY <1>2
  <2> QED BY <2>4, <2>5, <2>6
<1> QED BY <1>5, <1>6, <1>7 DEF Plans

(* In a stable structure each key is set at most once, from what its       *)
(* predecessor showed before.                                              *)
LEMMA FallbacksAre ==
  ASSUME fallback \in Maps, NEW keys \in Calls, previous \in Calls \cup {<<>>},
         Calls \subseteq Seq(Name), Fig!Structured
  PROVE  /\ Fig!Fallbacks(keys) \in Maps
         /\ \A j \in DOMAIN keys :
              Changes(keys, j) /\ Onward(previous[j]) # keys[j]
                => Fig!Fallbacks(keys)[keys[j]] = Onward(previous[j])
         /\ \A k \in Name :
              (\A j \in DOMAIN keys :
                 Changes(keys, j) /\ keys[j] = k => Onward(previous[j]) = k)
                => Fig!Fallbacks(keys)[k] = fallback[k]
<1> DEFINE N == Len(keys)
<1>0. keys \in Seq(Name) /\ previous \in Seq(Name) /\ N \in Nat /\ DOMAIN keys = 1..N
  <2>1. keys \in Seq(Name)
    OBVIOUS
  <2>2. previous \in Seq(Name)
    <3>1. CASE previous = <<>>
      BY <3>1
    <3>2. CASE previous \in Calls
      BY <3>2
    <3> QED BY <3>1, <3>2
  <2>3. N \in Nat /\ DOMAIN keys = 1..N
    BY <2>1
  <2> QED BY <2>1, <2>2, <2>3
<1>1. PICK f \in [0..N -> Maps] :
        /\ Fig!Fallbacks(keys) = f[N] /\ f[0] = fallback
        /\ \A i \in 1..N :
             f[i] = IF Changes(keys, i) THEN Fig!SetFallback(f[i - 1], keys[i], previous[i])
                                        ELSE f[i - 1]
  <2>1. \E f \in [0..N -> Maps] : Plans(f, keys)
    BY <1>0, FallbacksUnfold
  <2> QED BY <2>1 DEF Plans
<1> DEFINE Set(i) == \A j \in 1..i :
                       Changes(keys, j) /\ Onward(previous[j]) # keys[j]
                         => f[i][keys[j]] = Onward(previous[j])
           Left(i) == \A k \in Name :
                        (\A j \in 1..i :
                           Changes(keys, j) /\ keys[j] = k => Onward(previous[j]) = k)
                          => f[i][k] = fallback[k]
           S == {i \in 0..N : Set(i) /\ Left(i)}
<1>2. 0 \in S
  <2>1. 1..0 = {}
    OBVIOUS
  <2> QED BY <2>1, <1>1
<1>3. ASSUME NEW i \in 0..(N - 1), i \in S PROVE i + 1 \in S
  <2> DEFINE n == i + 1
  <2>1. n \in 1..N /\ n - 1 = i /\ Set(i) /\ Left(i) /\ f[i] \in Maps /\ f[n] \in Maps
    BY <1>3
  <2>2. f[n] = IF Changes(keys, n) THEN Fig!SetFallback(f[i], keys[n], previous[n]) ELSE f[i]
    BY <1>1, <2>1
  <2>3. \A j \in 1..n : j # n => j \in 1..i
    BY <2>1
  <2> HIDE DEF n
  <2>4. CASE ~Changes(keys, n)
    <3>1. f[n] = f[i]
      BY <2>2, <2>4
    <3>2. Set(n)
      BY <2>1, <2>3, <2>4, <3>1
    <3>3. Left(n)
      BY <2>1, <2>3, <3>1 DEF n
    <3> QED BY <2>1, <3>2, <3>3 DEF n
  <2>5. CASE Changes(keys, n)
    <3>1. previous \in Calls /\ n \in DOMAIN previous /\ n \in DOMAIN keys
      BY <1>0, <2>1, <2>5 DEF Changes
    <3>2. previous[n] \in Name /\ keys[n] \in Name /\ previous[n] # keys[n]
      BY <1>0, <2>1, <2>5 DEF Changes
    <3>3. \A j \in 1..i : j \in DOMAIN keys /\ j # n /\ keys[j] # previous[n] /\ keys[j] # keys[n]
      <4>1. \A j \in 1..i : j \in DOMAIN keys /\ j # n
        BY <1>0, <2>1 DEF n
      <4>2. \A j \in DOMAIN keys : keys[j] = previous[n] \/ keys[j] = keys[n] => j = n
        BY <3>1 DEF Fig!Structured
      <4> QED BY <4>1, <4>2
    <3>4. f[i][previous[n]] = fallback[previous[n]]
      BY <2>1, <3>2, <3>3
    <3>5. f[n] = IF keys[n] = Onward(previous[n]) THEN f[i]
                 ELSE [f[i] EXCEPT ![keys[n]] = Onward(previous[n])]
      BY <2>2, <2>5, <3>4 DEF Fig!SetFallback, Onward
    <3>6. /\ keys[n] # Onward(previous[n]) => f[n][keys[n]] = Onward(previous[n])
          /\ \A k \in Name : k # keys[n] \/ keys[n] = Onward(previous[n]) => f[n][k] = f[i][k]
      BY <2>1, <3>2, <3>5 DEF Maps
    <3>7. Set(n)
      <4> SUFFICES ASSUME NEW j \in 1..n, Changes(keys, j), Onward(previous[j]) # keys[j]
                   PROVE  f[n][keys[j]] = Onward(previous[j])
        OBVIOUS
      <4>1. CASE j = n
        BY <4>1, <3>6
      <4>2. CASE j # n
        <5>1. j \in 1..i /\ keys[j] \in Name
          BY <4>2, <2>3, <1>0, <3>3
        <5> QED BY <5>1, <2>1, <3>3, <3>6
      <4> QED BY <4>1, <4>2
    <3>8. Left(n)
      <4> SUFFICES ASSUME NEW k \in Name,
                          \A j \in 1..n : Changes(keys, j) /\ keys[j] = k => Onward(previous[j]) = k
                   PROVE  f[n][k] = fallback[k]
        OBVIOUS
      <4>1. \A j \in 1..i : j \in 1..n
        BY <2>1
      <4>2. f[i][k] = fallback[k]
        BY <2>1, <4>1
      <4>3. k # keys[n] \/ keys[n] = Onward(previous[n])
        BY <2>1, <2>5
      <4> QED BY <4>2, <4>3, <3>6
    <3> QED BY <2>1, <3>7, <3>8 DEF n
  <2> QED BY <2>4, <2>5
<1>4. N \in S
  <2> HIDE DEF S
  <2>1. \A i \in 0..(N - 1) : i \in S => i + 1 \in S
    BY <1>3
  <2>2. 0..N \subseteq S
    BY <1>0, <1>2, <2>1, Counting
  <2> QED BY <1>0, <2>2
<1> QED BY <1>0, <1>1, <1>4
(* Does a key show a Picture.                                              *)
Shows(k, pics, falls) == pics[k] # Blank \/ (falls[k] # Blank /\ pics[falls[k]] # Blank)

(* A key resolves to some Picture just when one is shown under it.         *)
LEMMA Resolving ==
  ASSUME Settings, NEW pics \in [Name -> Fig!Generation \cup {Blank}], NEW falls \in Maps, NEW k \in Name
  PROVE  Fig!Resolve(k, pics, falls) # Blank <=> Shows(k, pics, falls)
<1>1. Blank \notin Name /\ Blank \notin Fig!Picture
  BY DEF Settings
<1>2. ASSUME NEW from \in Name, pics[from] # Blank
      PROVE  [key |-> from, by |-> pics[from]] # Blank
  BY <1>1, <1>2 DEF Fig!Picture
<1>3. falls[k] # Blank => falls[k] \in Name
  BY DEF Maps
<1> HIDE DEF Maps
<1>4. CASE pics[k] # Blank
  BY <1>1, <1>2, <1>4 DEF Fig!Resolve, Shows
<1>5. CASE pics[k] = Blank /\ falls[k] = Blank
  BY <1>1, <1>5 DEF Fig!Resolve, Shows
<1>6. CASE pics[k] = Blank /\ falls[k] # Blank
  BY <1>1, <1>2, <1>3, <1>6 DEF Fig!Resolve, Shows
<1> QED BY <1>4, <1>5, <1>6

(* So the stamp of a frame says of each of its figures whether it is       *)
(* blank.                                                                  *)
LEMMA Stamping ==
  ASSUME Settings, NEW pics \in [Name -> Fig!Generation \cup {Blank}], NEW falls \in Maps, NEW keys \in Calls
  PROVE  /\ DOMAIN Fig!FrameStamp(keys, pics, falls) = DOMAIN keys
         /\ \A i \in DOMAIN keys :
              Fig!FrameStamp(keys, pics, falls)[i] # Blank <=> Shows(keys[i], pics, falls)
<1>1. \A i \in DOMAIN keys : keys[i] \in Name
  BY DEF Settings
<1> QED BY <1>1, Resolving DEF Fig!FrameStamp

(* Types, as far as they matter here.                                      *)
PicturesTyped ==
  /\ calls \in Calls /\ previous \in Calls \cup {<<>>}
  /\ entries \in [Name -> Fig!Generation \cup {Blank}] /\ fallback \in Maps
  /\ DOMAIN recorded = DOMAIN calls
  /\ spawning \in BOOLEAN /\ download \in BOOLEAN
  /\ generation \in Nat /\ reloads \in Nat /\ (~spawning => generation # 0)
  /\ Fig!Loads <= MaxLoads

(* Between loads the last plan is that of the last eval; before the first  *)
(* there are no Pictures.                                                  *)
PlanAgrees ==
  /\ ~spawning => previous = calls
  /\ previous \notin Calls => \A k \in Name : entries[k] = Blank

(* A key falls back to keys of the same figure.                            *)
InPlace ==
  \A k \in Name : fallback[k] # Blank =>
    \E a, b \in Calls : \E i \in DOMAIN a \cap DOMAIN b : a[i] = k /\ b[i] = fallback[k]

(* What was in the frame last asked for is still to be lent.              *)
AsRecorded == \A i \in DOMAIN calls : recorded[i] # Blank => Shows(calls[i], entries, fallback)

(* If a figure shows something under any key, then under its last planned. *)
Lasting ==
  \A i \in DOMAIN previous : \A a \in Calls :
    i \in DOMAIN a /\ Shows(a[i], entries, fallback) => Shows(previous[i], entries, fallback)

FiguresInv == PicturesTyped /\ PlanAgrees /\ InPlace /\ AsRecorded /\ Lasting

(* A plan passes on what a figure shows.                                   *)
LEMMA Planning ==
  ASSUME Settings, Fig!Structured, PicturesTyped, PlanAgrees, InPlace, Lasting, NEW keys \in Calls,
         fallback' = Fig!Fallbacks(keys), previous' = keys, entries' = entries
  PROVE  /\ fallback' \in Maps /\ InPlace' /\ Lasting'
         /\ \A a \in Calls : \A i \in DOMAIN a \cap DOMAIN keys :
              Shows(a[i], entries, fallback) => Shows(keys[i], entries, fallback')
<1>1. /\ fallback \in Maps /\ previous \in Calls \cup {<<>>} /\ Calls \subseteq Seq(Name)
      /\ Blank \notin Name
  BY DEF PicturesTyped, Settings
<1>2. /\ fallback' \in Maps
      /\ \A j \in DOMAIN keys :
           Changes(keys, j) /\ Onward(previous[j]) # keys[j] => fallback'[keys[j]] = Onward(previous[j])
      /\ \A k \in Name :
           (\A j \in DOMAIN keys : Changes(keys, j) /\ keys[j] = k => Onward(previous[j]) = k)
             => fallback'[k] = fallback[k]
  BY <1>1, FallbacksAre
<1>3. \A a \in Calls : \A i \in DOMAIN a : a[i] \in Name /\ a[i] # Blank
  BY <1>1
<1>4. \A j \in DOMAIN keys : Changes(keys, j) => previous \in Calls /\ previous[j] \in Name
  BY <1>1, <1>3 DEF Changes
<1>5. InPlace'
  <2> SUFFICES ASSUME NEW k \in Name, fallback'[k] # Blank
               PROVE  \E a, b \in Calls : \E i \in DOMAIN a \cap DOMAIN b :
                        a[i] = k /\ b[i] = fallback'[k]
    BY DEF InPlace
  <2>1. CASE fallback'[k] = fallback[k]
    BY <2>1 DEF InPlace
  <2>2. CASE fallback'[k] # fallback[k]
    <3>1. PICK j \in DOMAIN keys : Changes(keys, j) /\ keys[j] = k /\ Onward(previous[j]) # k
      BY <1>2, <2>2
    <3>2. fallback'[k] = Onward(previous[j]) /\ previous \in Calls /\ previous[j] \in Name
          /\ j \in DOMAIN previous
      BY <1>2, <1>4, <3>1 DEF Changes
    <3>3. CASE Onward(previous[j]) = previous[j]
      BY <3>1, <3>2, <3>3
    <3>4. CASE Onward(previous[j]) # previous[j]
      <4>1. Onward(previous[j]) = fallback[previous[j]] /\ fallback[previous[j]] # Blank
        BY <3>4 DEF Onward
      <4>2. PICK a, b \in Calls :
              \E i \in DOMAIN a \cap DOMAIN b : a[i] = previous[j] /\ b[i] = fallback[previous[j]]
        BY <3>2, <4>1 DEF InPlace
      <4>3. j \in DOMAIN b /\ b[j] = fallback[previous[j]]
        BY <3>2, <4>2 DEF Fig!Structured
      <4> QED BY <3>1, <3>2, <4>1, <4>3
    <3> QED BY <3>3, <3>4
  <2> QED BY <2>1, <2>2
<1>6. ASSUME NEW a \in Calls, NEW i \in DOMAIN a \cap DOMAIN keys, Shows(a[i], entries, fallback)
      PROVE  Shows(keys[i], entries, fallback')
  <2>1. previous \in Calls
    <3>1. PICK k \in Name : entries[k] # Blank
      BY <1>1, <1>3, <1>6 DEF Shows, Maps
    <3> QED BY <3>1 DEF PlanAgrees
  <2>2. \A j \in DOMAIN keys : keys[j] = keys[i] => j = i
    BY DEF Fig!Structured
  <2>3. keys[i] \in Name
    BY <1>3
  <2>4. CASE i \notin DOMAIN previous
    <3>1. a[i] = keys[i]
      BY <2>1, <2>4 DEF Fig!Structured
    <3>2. fallback'[keys[i]] = fallback[keys[i]]
      BY <1>2, <2>2, <2>3, <2>4 DEF Changes
    <3> QED BY <1>6, <3>1, <3>2 DEF Shows
  <2>5. CASE i \in DOMAIN previous
    <3>1. Shows(previous[i], entries, fallback) /\ previous[i] \in Name
      BY <1>3, <1>6, <2>1, <2>5 DEF Lasting
    <3>2. CASE Changes(keys, i) /\ Onward(previous[i]) # keys[i]
      <4>1. fallback'[keys[i]] = Onward(previous[i])
        BY <1>2, <3>2
      <4>2. Onward(previous[i]) # Blank /\ entries[Onward(previous[i])] # Blank
        BY <1>1, <3>1 DEF Shows, Onward
      <4> QED BY <4>1, <4>2 DEF Shows
    <3>3. CASE ~(Changes(keys, i) /\ Onward(previous[i]) # keys[i])
      <4>1. fallback'[keys[i]] = fallback[keys[i]]
        BY <1>2, <2>2, <2>3, <3>3
      <4>2. CASE previous[i] = keys[i]
        BY <3>1, <4>1, <4>2 DEF Shows
      <4>3. CASE previous[i] # keys[i]
        <5>1. Onward(previous[i]) = keys[i]
          BY <2>5, <3>3, <4>3 DEF Changes
        <5>2. entries[keys[i]] # Blank
          BY <3>1, <4>3, <5>1 DEF Onward, Shows
        <5> QED BY <5>2 DEF Shows
      <4> QED BY <4>2, <4>3
    <3> QED BY <3>2, <3>3
  <2> QED BY <2>4, <2>5
<1>7. Lasting'
  <2> SUFFICES ASSUME NEW i \in DOMAIN keys, NEW a \in Calls, i \in DOMAIN a,
                      Shows(a[i], entries, fallback'), a[i] # keys[i]
               PROVE  Shows(keys[i], entries, fallback')
    BY DEF Lasting, Shows
  <2>1. \A j \in DOMAIN keys : keys[j] # a[i]
    BY DEF Fig!Structured
  <2>2. fallback'[a[i]] = fallback[a[i]]
    BY <1>2, <1>3, <2>1
  <2>3. Shows(a[i], entries, fallback)
    BY <2>2 DEF Shows
  <2> QED BY <1>6, <2>3
<1> QED BY <1>2, <1>5, <1>6, <1>7
(* Storing keeps what every named key shows, and nothing of other figures. *)
LEMMA StoringKeeps ==
  ASSUME Settings, Fig!Structured, FiguresInv, Listed, Fig!StoreDrawn
  PROVE  /\ entries' \in [Name -> Fig!Generation \cup {Blank}] /\ fallback' \in Maps
         /\ InPlace' /\ Lasting' /\ AsRecorded'
         /\ \A i \in DOMAIN calls :
              Shows(calls[i], entries, fallback) => Shows(calls[i], entries', fallback')
         /\ recorded' = recorded \/ recorded' = Fig!FrameStamp(calls, entries', fallback')
<1>1. /\ calls \in Calls /\ previous = calls /\ calls' = calls /\ previous' = previous
      /\ ~spawning /\ generation \in Nat /\ generation # 0
      /\ entries \in [Name -> Fig!Generation \cup {Blank}] /\ fallback \in Maps
  BY DEF FiguresInv, PicturesTyped, PlanAgrees, Fig!StoreDrawn, Fig!requests
<1>2. generation \in Fig!Generation
  BY <1>1 DEF FiguresInv, PicturesTyped, Fig!Loads, Fig!Generation, Settings
<1>3. /\ Blank \notin Name /\ Blank \notin Fig!Generation
      /\ \A a \in Calls : \A i \in DOMAIN a : a[i] \in Name
  BY DEF Settings
<1> DEFINE arrived == {i \in DOMAIN drawn : Fig!CurrentOnly(drawn[i])}
           last(k) == CHOOSE i \in arrived :
                        drawn[i].key = k /\ \A j \in arrived : drawn[j].key = k => j <= i
           set == {drawn[i].key : i \in arrived}
           pics == [k \in Name |-> IF k \in set THEN drawn[last(k)].by ELSE entries[k]]
           falls == [k \in Name |-> IF k \in set THEN Blank ELSE fallback[k]]
           named == Fig!Named(previous)
<1>4. \A k \in Name : k \in set => pics[k] = generation
  <2> SUFFICES ASSUME NEW k \in Name, k \in set PROVE drawn[last(k)].by = generation
    OBVIOUS
  <2> DEFINE of == {i \in arrived : drawn[i].key = k}
  <2>1. of \subseteq 1..Len(drawn) /\ Len(drawn) \in Nat /\ of # {}
    BY DEF Listed
  <2>2. PICK m \in of : \A x \in of : x <= m
    BY <2>1, Largest
  <2>3. last(k) \in arrived
    BY <2>2
  <2> QED BY <2>3 DEF Fig!CurrentOnly
<1>5. /\ pics \in [Name -> Fig!Generation \cup {Blank}] /\ falls \in Maps
      /\ \A k \in Name : entries[k] # Blank \/ k \in set => pics[k] # Blank
      /\ \A k \in Name : k \notin set => falls[k] = fallback[k]
      /\ \A k \in Name : falls[k] \in {Blank, fallback[k]}
  <2>1. \A k \in Name : k \notin set => pics[k] = entries[k]
    OBVIOUS
  <2>2. pics = [k \in Name |-> pics[k]]
    OBVIOUS
  <2>3. /\ falls \in Maps
        /\ \A k \in Name : k \notin set => falls[k] = fallback[k]
        /\ \A k \in Name : falls[k] \in {Blank, fallback[k]}
    BY <1>1 DEF Maps
  <2> HIDE DEF pics, set, falls
  <2>4. pics \in [Name -> Fig!Generation \cup {Blank}]
    BY <1>1, <1>2, <1>4, <2>1, <2>2
  <2>5. \A k \in Name : entries[k] # Blank \/ k \in set => pics[k] # Blank
    BY <1>2, <1>3, <1>4, <2>1
  <2> QED BY <2>3, <2>4, <2>5
<1>6. CASE arrived = {}
  <2>1. UNCHANGED <<entries, fallback, recorded>>
    BY <1>6 DEF Fig!StoreDrawn, Fig!pictures
  <2> QED
    BY <1>1, <2>1 DEF FiguresInv, InPlace, Lasting, AsRecorded, Shows
<1>7. CASE arrived # {}
  <2> DEFINE kept == [k \in Name |-> IF k \in named THEN falls[k] ELSE Blank]
             lent == {kept[k] : k \in Name}
  <2>1. /\ entries' = [k \in Name |-> IF k \in named \cup lent THEN pics[k] ELSE Blank]
        /\ fallback' = kept
        /\ recorded' = Fig!FrameStamp(calls, entries', fallback')
    BY <1>7 DEF Fig!StoreDrawn, Fig!Retain
  <2> HIDE DEF pics, falls, set, arrived
  <2>2. /\ entries' \in [Name -> Fig!Generation \cup {Blank}] /\ fallback' \in Maps
        /\ \A k \in Name : k \in named => entries'[k] = pics[k] /\ fallback'[k] = falls[k]
        /\ \A k \in Name : k \notin named => fallback'[k] = Blank
        /\ \A k \in Name : entries'[k] # Blank => k \in named \/ \E l \in Name : fallback'[l] = k
        /\ \A k, l \in Name : fallback'[l] = k => entries'[k] = pics[k]
    BY <1>5, <2>1 DEF Maps
  <2>3. \A k \in Name : fallback'[k] \in {Blank, fallback[k]}
    BY <1>5, <2>2
  <2>4. InPlace'
    <3> SUFFICES ASSUME NEW k \in Name, fallback'[k] # Blank
                 PROVE  \E a, b \in Calls : \E i \in DOMAIN a \cap DOMAIN b :
                          a[i] = k /\ b[i] = fallback'[k]
      BY DEF InPlace
    <3>1. fallback'[k] = fallback[k]
      BY <2>3
    <3> QED BY <3>1 DEF FiguresInv, InPlace
  <2>5. ASSUME NEW k \in Name, k \in named, Shows(k, entries, fallback)
        PROVE  Shows(k, entries', fallback')
    <3>1. CASE entries[k] # Blank \/ k \in set
      <4>1. entries'[k] # Blank
        BY <1>5, <2>2, <2>5, <3>1
      <4> QED BY <4>1 DEF Shows
    <3>2. CASE entries[k] = Blank /\ k \notin set
      <4>1. fallback'[k] = fallback[k] /\ fallback[k] # Blank /\ entries[fallback[k]] # Blank
        BY <1>5, <2>2, <2>5, <3>2 DEF Shows
      <4>2. fallback[k] \in Name
        BY <1>1, <4>1 DEF Maps
      <4>3. entries'[fallback[k]] # Blank
        BY <1>5, <2>2, <4>1, <4>2
      <4> QED BY <4>1, <4>3 DEF Shows
    <3> QED BY <3>1, <3>2
  <2>6. \A i \in DOMAIN calls : calls[i] \in named /\ calls[i] \in Name
    BY <1>1, <1>3 DEF Fig!Named
  <2>7. Lasting'
    <3> SUFFICES ASSUME NEW i \in DOMAIN calls, NEW a \in Calls, i \in DOMAIN a,
                        Shows(a[i], entries', fallback'), a[i] # calls[i]
                 PROVE  Shows(calls[i], entries', fallback')
      BY <1>1 DEF Lasting
    <3>1. a[i] \notin named /\ a[i] \in Name
      BY <1>1, <1>3 DEF Fig!Structured, Fig!Named
    <3>2. fallback'[a[i]] = Blank /\ entries'[a[i]] # Blank
      BY <2>2, <3>1 DEF Shows
    <3>3. PICK l \in Name : fallback'[l] = a[i]
      BY <2>2, <3>1, <3>2
    <3>4. fallback[l] = a[i] /\ fallback[l] # Blank /\ l \in named
      BY <1>3, <2>2, <2>3, <3>1, <3>3
    <3>5. PICK b, c \in Calls : \E m \in DOMAIN b \cap DOMAIN c : b[m] = l /\ c[m] = a[i]
      BY <3>4 DEF FiguresInv, InPlace
    <3>6. i \in DOMAIN b /\ b[i] = l
      BY <3>5 DEF Fig!Structured
    <3>7. PICK j \in DOMAIN calls : calls[j] = l
      BY <1>1, <3>4 DEF Fig!Named
    <3>8. calls[i] = l
      BY <1>1, <3>6, <3>7 DEF Fig!Structured
    <3>9. fallback'[l] # Blank /\ entries'[fallback'[l]] # Blank
      BY <1>3, <3>1, <3>2, <3>3
    <3> QED BY <3>8, <3>9 DEF Shows
  <2>8. AsRecorded'
    BY <1>1, <2>1, <2>2, Stamping DEF AsRecorded
  <2> QED BY <2>1, <2>2, <2>4, <2>5, <2>6, <2>7, <2>8
<1> QED BY <1>6, <1>7
(* A frame is not asked for with something blank that was not.             *)
StaysShown ==
  \A i \in DOMAIN recorded \cap DOMAIN recorded' :
    /\ spawning' = spawning \/ calls[i] = calls'[i]
    /\ recorded[i] # Blank
    => recorded'[i] # Blank

(* Steps that touch no figure.                                             *)
LEMMA OthersKeepFigures ==
  ASSUME FiguresInv, UNCHANGED <<calls, previous, entries, fallback, recorded, spawning, generation>>,
         reloads' \in Nat, download' \in BOOLEAN, Fig!Loads' <= MaxLoads
  PROVE  FiguresInv' /\ StaysShown
BY DEF FiguresInv, PicturesTyped, PlanAgrees, InPlace, AsRecorded, Lasting, Shows, StaysShown

(* Every step keeps the invariant, and every figure that is shown.         *)
LEMMA FiguresStep ==
  ASSUME Settings, Fig!Structured, Listed, FiguresInv, [Fig!Next]_Fig!vars
  PROVE  FiguresInv' /\ StaysShown
<1>0. /\ calls \in Calls /\ previous \in Calls \cup {<<>>}
      /\ entries \in [Name -> Fig!Generation \cup {Blank}] /\ fallback \in Maps
      /\ DOMAIN recorded = DOMAIN calls
      /\ generation \in Nat /\ reloads \in Nat /\ MaxLoads \in Nat /\ Fig!Loads <= MaxLoads
      /\ download \in BOOLEAN /\ spawning \in BOOLEAN
  BY DEF FiguresInv, PicturesTyped, Settings
<1>1. CASE UNCHANGED Fig!vars
  BY <1>0, <1>1, OthersKeepFigures DEF Fig!vars, Fig!requests, Fig!pictures, Fig!fetch, Fig!Loads
<1>2. ASSUME NEW keys \in Calls, Fig!Eval(keys) PROVE FiguresInv' /\ StaysShown
  <2>1. /\ ~spawning /\ spawning' = spawning /\ calls' = keys /\ previous' = keys
        /\ fallback' = Fig!Fallbacks(keys) /\ entries' = entries
        /\ recorded' = Fig!FrameStamp(keys, entries, fallback')
        /\ UNCHANGED <<reloads, generation, download, files>>
    BY <1>2 DEF Fig!Eval, Fig!Request, Fig!fetch
  <2>2. previous = calls
    BY <2>1 DEF FiguresInv, PlanAgrees
  <2>3. /\ fallback' \in Maps /\ InPlace' /\ Lasting'
        /\ \A i \in DOMAIN calls \cap DOMAIN keys :
             Shows(calls[i], entries, fallback) => Shows(keys[i], entries, fallback')
    BY <1>0, <2>1, Planning DEF FiguresInv
  <2>4. /\ DOMAIN recorded' = DOMAIN keys
        /\ \A i \in DOMAIN keys : recorded'[i] # Blank <=> Shows(keys[i], entries, fallback')
    BY <1>0, <2>1, <2>3, Stamping
  <2>5. PicturesTyped' /\ PlanAgrees' /\ AsRecorded'
    BY <1>0, <2>1, <2>3, <2>4 DEF FiguresInv, PicturesTyped, PlanAgrees, AsRecorded, Fig!Loads
  <2>6. StaysShown
    BY <1>0, <2>3, <2>4 DEF FiguresInv, AsRecorded, StaysShown
  <2> QED BY <2>3, <2>5, <2>6 DEF FiguresInv
<1>3. ASSUME NEW keys \in Calls, Fig!Reload(keys) PROVE FiguresInv' /\ StaysShown
  <2>1. /\ ~spawning /\ spawning' = TRUE /\ calls' = keys
        /\ recorded' = Fig!FrameStamp(keys, entries, fallback)
        /\ reloads > 0 /\ reloads' = reloads - 1
        /\ UNCHANGED <<previous, entries, fallback, generation, download, files>>
    BY <1>3 DEF Fig!Reload, Fig!fetch
  <2>2. /\ DOMAIN recorded' = DOMAIN keys
        /\ \A i \in DOMAIN keys : recorded'[i] # Blank <=> Shows(keys[i], entries, fallback)
    BY <1>0, <2>1, Stamping
  <2>3. Fig!Loads' <= MaxLoads
    BY <1>0, <2>1 DEF Fig!Loads
  <2>4. PicturesTyped'
    BY <1>0, <2>1, <2>2, <2>3 DEF PicturesTyped
  <2>5. PlanAgrees' /\ InPlace' /\ Lasting'
    BY <2>1 DEF FiguresInv, PlanAgrees, InPlace, Lasting, Shows
  <2>6. AsRecorded'
    BY <2>1, <2>2 DEF AsRecorded
  <2>7. StaysShown
    BY <1>0, <2>1, <2>2 DEF FiguresInv, AsRecorded, StaysShown
  <2> QED BY <2>4, <2>5, <2>6, <2>7 DEF FiguresInv
<1>4. CASE Fig!SpawnDrawRuntime
  <2>1. /\ spawning /\ spawning' = FALSE /\ calls' = calls /\ previous' = calls
        /\ fallback' = Fig!Fallbacks(calls) /\ entries' = entries /\ recorded' = recorded
        /\ generation' = generation + 1
        /\ UNCHANGED <<reloads, download, files>>
    BY <1>4 DEF Fig!SpawnDrawRuntime, Fig!Request, Fig!fetch
  <2>2. /\ fallback' \in Maps /\ InPlace' /\ Lasting'
        /\ \A i \in DOMAIN calls :
             Shows(calls[i], entries, fallback) => Shows(calls[i], entries, fallback')
    BY <1>0, <2>1, Planning DEF FiguresInv
  <2>3. Fig!Loads' <= MaxLoads
    BY <1>0, <2>1 DEF Fig!Loads
  <2>4. PicturesTyped'
    <3>1. spawning' \in BOOLEAN /\ download' \in BOOLEAN /\ previous' \in Calls \cup {<<>>}
      BY <1>0, <2>1, Zenon
    <3>2. generation' \in Nat /\ generation' # 0 /\ reloads' \in Nat
      BY <1>0, <2>1
    <3> QED BY <1>0, <2>1, <2>2, <2>3, <3>1, <3>2, Zenon DEF PicturesTyped
  <2>5. PlanAgrees'
    BY <1>0, <2>1 DEF PlanAgrees
  <2>6. AsRecorded'
    BY <2>1, <2>2 DEF FiguresInv, AsRecorded
  <2>7. StaysShown
    BY <2>1 DEF StaysShown
  <2> QED BY <2>2, <2>4, <2>5, <2>6, <2>7 DEF FiguresInv
<1>5. CASE Fig!StoreDrawn
  <2>1. UNCHANGED <<calls, spawning, previous, reloads, generation, download, files>> /\ ~spawning
    BY <1>5 DEF Fig!StoreDrawn, Fig!requests, Fig!fetch
  <2>2. /\ entries' \in [Name -> Fig!Generation \cup {Blank}] /\ fallback' \in Maps
        /\ InPlace' /\ Lasting' /\ AsRecorded'
        /\ \A i \in DOMAIN calls :
             Shows(calls[i], entries, fallback) => Shows(calls[i], entries', fallback')
        /\ recorded' = recorded \/ recorded' = Fig!FrameStamp(calls, entries', fallback')
    BY <1>5, StoringKeeps
  <2>3. \/ recorded' = recorded
        \/ /\ DOMAIN recorded' = DOMAIN calls
           /\ \A i \in DOMAIN calls : recorded'[i] # Blank <=> Shows(calls[i], entries', fallback')
    BY <1>0, <2>2, Stamping
  <2>4. PicturesTyped'
    BY <1>0, <2>1, <2>2, <2>3 DEF FiguresInv, PicturesTyped, Fig!Loads
  <2>5. PlanAgrees'
    BY <1>0, <2>1 DEF FiguresInv, PlanAgrees
  <2>6. StaysShown
    BY <1>0, <2>2, <2>3 DEF FiguresInv, AsRecorded, StaysShown
  <2> QED BY <2>2, <2>4, <2>5, <2>6 DEF FiguresInv
<1>6. CASE Fig!Save
  BY <1>0, <1>6, OthersKeepFigures DEF Fig!Save, Fig!Loads, Fig!pictures, Fig!fetch
<1>7. CASE Fig!KeepLayout
  BY <1>0, <1>7, OthersKeepFigures DEF Fig!KeepLayout, Fig!Loads, Fig!pictures, Fig!fetch
<1>8. ASSUME NEW g \in Fig!Generation, Fig!Run(g) \/ Fig!HoldPasses(g) \/ Fig!Fault(g)
      PROVE  FiguresInv' /\ StaysShown
  <2>1. /\ UNCHANGED <<calls, previous, entries, fallback, recorded, spawning, generation, reloads, files>>
        /\ download' = download \/ (files # Asset /\ download' \in BOOLEAN)
    BY <1>0, <1>8 DEF Fig!Run, Fig!HoldPasses, Fig!Fault, Fig!StartRound, Fig!NotReady, Fig!Ready,
       Fig!StartDraw, Fig!FinishDraw, Fig!Closed, Fig!Collect, Fig!RoundFails,
       Fig!LibrariesFail, Fig!DrawThrows, Fig!loop, Fig!requests, Fig!pictures, Fig!fetch,
       Fig!HasLibraries
  <2>2. Fig!Loads' = Fig!Loads
    BY <2>1 DEF Fig!Loads
  <2> QED BY <1>0, <2>1, <2>2, OthersKeepFigures
<1>9. CASE Fig!Fetch \/ Fig!DownloadFails \/ Fig!BackoffPasses
  <2>1. UNCHANGED <<calls, previous, entries, fallback, recorded, spawning, generation>>
    BY <1>9 DEF Fig!Fetch, Fig!Download, Fig!DownloadDone, Fig!DownloadFails, Fig!BackoffPasses,
       Fig!others, Fig!pictures
  <2>2. CASE \E a \in Asset : Fig!Download(a)
    <3>1. download /\ UNCHANGED <<reloads, download, spawning, generation>>
      BY <2>2 DEF Fig!Download, Fig!others
    <3>2. Fig!Loads' = Fig!Loads
      BY <3>1 DEF Fig!Loads
    <3> QED BY <1>0, <2>1, <3>1, <3>2, OthersKeepFigures
  <2>3. CASE Fig!DownloadDone
    <3>1. download /\ download' = FALSE /\ reloads' = reloads + 1 /\ files' = Asset
          /\ UNCHANGED <<spawning, generation>>
      BY <2>3 DEF Fig!DownloadDone, Fig!others
    <3>2. Fig!Loads' <= MaxLoads /\ reloads' \in Nat
      BY <1>0, <3>1 DEF Fig!Loads
    <3>3. download' \in BOOLEAN
      BY <3>1, Zenon
    <3> QED BY <2>1, <3>2, <3>3, OthersKeepFigures
  <2>4. CASE Fig!DownloadFails \/ Fig!BackoffPasses
    <3>1. /\ download' = FALSE \/ download' = download
          /\ UNCHANGED <<reloads, files, spawning, generation>>
      BY <2>4 DEF Fig!DownloadFails, Fig!BackoffPasses, Fig!others
    <3>2. Fig!Loads' <= MaxLoads /\ reloads' \in Nat
      BY <1>0, <3>1 DEF Fig!Loads
    <3>3. download' \in BOOLEAN
      BY <1>0, <3>1, Zenon
    <3> QED BY <2>1, <3>2, <3>3, OthersKeepFigures
  <2> QED BY <1>9, <2>2, <2>3, <2>4 DEF Fig!Fetch
<1> QED BY <1>1, <1>2, <1>3, <1>4, <1>5, <1>6, <1>7, <1>8, <1>9 DEF Fig!Next, Fig!TheLoop

(* A figure that has shown something never shows nothing again, as long as *)
(* the structure of the layout is stable: whatever its figures, their      *)
(* keys, and the order in which evals, drawings and reloads come.          *)
THEOREM NeverBlank == ASSUME Settings, Fig!Structured PROVE Fig!Spec => NeverBlankAgain
<1>1. Fig!Init => FiguresInv
  <2> SUFFICES ASSUME Fig!Init PROVE FiguresInv
    OBVIOUS
  <2>1. /\ calls \in Calls /\ spawning = TRUE /\ reloads = 0 /\ previous = <<>> /\ generation = 0
        /\ entries = [k \in Name |-> Blank] /\ fallback = [k \in Name |-> Blank]
        /\ recorded = [i \in DOMAIN calls |-> Blank] /\ download = FALSE
    BY DEF Fig!Init
  <2>2. Fig!Loads <= MaxLoads
    BY <2>1 DEF Settings, Fig!Loads
  <2>3. fallback \in Maps /\ entries \in [Name -> Fig!Generation \cup {Blank}]
    BY <2>1 DEF Maps
  <2>4. DOMAIN recorded = DOMAIN calls
    BY <2>1
  <2>5. PicturesTyped
    BY <2>1, <2>2, <2>3, <2>4 DEF PicturesTyped
  <2> QED BY <2>1, <2>5 DEF FiguresInv, PlanAgrees, InPlace, AsRecorded, Lasting, Settings
<1>2. Listed /\ FiguresInv /\ [Fig!Next]_Fig!vars => FiguresInv' /\ [StaysShown]_recorded
  BY FiguresStep
<1>3. [][StaysShown]_recorded => NeverBlankAgain
  BY PTL DEF NeverBlankAgain, StaysShown
<1> QED BY <1>1, <1>2, <1>3, ListedHolds, PTL DEF Fig!Spec

-----------------------------------------------------------------------------
(* Sequences of requests.                                                  *)
(* A function may be defined step by step over the first numbers.          *)
Recurses(h, N, b, step) == h = [i \in 0..N |-> IF i = 0 THEN b ELSE step[i][h[i - 1]]]

LEMMA Recursing ==
  ASSUME NEW N \in Nat, NEW X, NEW b \in X, NEW step \in [1..N -> [X -> X]]
  PROVE  \E h \in [0..N -> X] : Recurses(h, N, b, step)
<1>1. \E h \in [0..N -> X] : Unfolds(h, N, b, step)
  BY Unfolding
<1>2. PICK h \in [0..N -> X] : h[0] = b /\ \A n \in 1..N : h[n] = step[n][h[n - 1]]
  BY <1>1 DEF Unfolds
<1>3. \A i \in 0..N : h[i] = IF i = 0 THEN b ELSE step[i][h[i - 1]]
  BY <1>2
<1>4. Recurses(h, N, b, step)
  BY <1>3 DEF Recurses
<1> QED BY <1>4

(* What a queue names, with one more and with another behind it.           *)
LEMMA NamedOneMore ==
  ASSUME NEW S, NEW s \in Seq(S), NEW e
  PROVE  Fig!Named(Append(s, e)) = Fig!Named(s) \cup {e}
<1>1. DOMAIN Append(s, e) = DOMAIN s \cup {Len(s) + 1} /\ Append(s, e)[Len(s) + 1] = e
      /\ \A i \in DOMAIN s : Append(s, e)[i] = s[i]
  OBVIOUS
<1> QED BY <1>1 DEF Fig!Named

LEMMA NamedTogether ==
  ASSUME NEW S, NEW s \in Seq(S), NEW t \in Seq(S)
  PROVE  s \o t \in Seq(S) /\ Fig!Named(s \o t) = Fig!Named(s) \cup Fig!Named(t)
<1>1. /\ DOMAIN (s \o t) = 1..(Len(s) + Len(t)) /\ Len(s) \in Nat /\ Len(t) \in Nat
      /\ DOMAIN s = 1..Len(s) /\ DOMAIN t = 1..Len(t)
      /\ \A i \in DOMAIN s : (s \o t)[i] = s[i]
      /\ \A i \in DOMAIN t : (s \o t)[Len(s) + i] = t[i]
  OBVIOUS
<1>2. \A i \in DOMAIN (s \o t) : i \in DOMAIN s \/ (i - Len(s) \in DOMAIN t /\ i = Len(s) + (i - Len(s)))
  BY <1>1
<1>3. \A i \in DOMAIN s : i \in DOMAIN (s \o t)
  BY <1>1
<1>4. \A i \in DOMAIN t : Len(s) + i \in DOMAIN (s \o t)
  BY <1>1
<1>5. Fig!Named(s \o t) \subseteq Fig!Named(s) \cup Fig!Named(t)
  <2> SUFFICES ASSUME NEW i \in DOMAIN (s \o t)
               PROVE  (s \o t)[i] \in Fig!Named(s) \cup Fig!Named(t)
    BY DEF Fig!Named
  <2> QED BY <1>1, <1>2 DEF Fig!Named
<1>6. Fig!Named(s) \subseteq Fig!Named(s \o t)
  BY <1>1, <1>3 DEF Fig!Named
<1>7. Fig!Named(t) \subseteq Fig!Named(s \o t)
  BY <1>1, <1>4 DEF Fig!Named
<1> QED BY <1>5, <1>6, <1>7

(* Vec::retain keeps what is in the set.                                   *)
LEMMA Retaining ==
  ASSUME NEW S, NEW keys \in Seq(S), NEW set
  PROVE  /\ Fig!Retained(keys, set) \in Seq(S)
         /\ Fig!Named(Fig!Retained(keys, set)) = Fig!Named(keys) \cap set
<1> DEFINE N == Len(keys)
           X == Seq(S)
           step == [i \in 1..N |-> [x \in X |-> IF keys[i] \in set THEN Append(x, keys[i]) ELSE x]]
           Obeys(f) == f = [i \in 0..N |->
                              IF i = 0 THEN <<>>
                              ELSE IF keys[i] \in set THEN Append(f[i - 1], keys[i]) ELSE f[i - 1]]
           g == CHOOSE f : Obeys(f)
<1>1. N \in Nat /\ DOMAIN keys = 1..N /\ \A i \in 1..N : keys[i] \in S
  OBVIOUS
<1>2. <<>> \in X /\ step \in [1..N -> [X -> X]]
  <2>1. \A i \in 1..N, x \in X : (IF keys[i] \in set THEN Append(x, keys[i]) ELSE x) \in X
    BY <1>1
  <2> QED BY <2>1
<1>3. \E h : Obeys(h)
  <2> HIDE DEF N, X, step
  <2>0. \E h \in [0..N -> X] : Recurses(h, N, <<>>, step)
    BY <1>1, <1>2, Recursing
  <2>1. PICK h \in [0..N -> X] : h = [i \in 0..N |-> IF i = 0 THEN <<>> ELSE step[i][h[i - 1]]]
    BY <2>0 DEF Recurses
  <2>2. ASSUME NEW i \in 0..N, i # 0
        PROVE  step[i][h[i - 1]] = IF keys[i] \in set THEN Append(h[i - 1], keys[i]) ELSE h[i - 1]
    <3>1. i \in 1..N /\ i - 1 \in 0..N
      BY <1>1, <2>2
    <3>2. h[i - 1] \in X
      BY <2>1, <3>1
    <3> QED BY <3>1, <3>2 DEF step
  <2>3. Obeys(h)
    BY <2>1, <2>2
  <2> QED BY <2>3
<1>4. Obeys(g)
  <2> HIDE DEF Obeys
  <2> QED BY <1>3
<1>5. Fig!Retained(keys, set) = g[N]
  BY DEF Fig!Retained
<1>6. /\ g[0] = <<>>
      /\ \A i \in 1..N : g[i] = IF keys[i] \in set THEN Append(g[i - 1], keys[i]) ELSE g[i - 1]
  <2> HIDE DEF g
  <2>1. \A i \in 0..N : g[i] = IF i = 0 THEN <<>>
                               ELSE IF keys[i] \in set THEN Append(g[i - 1], keys[i]) ELSE g[i - 1]
    BY <1>4
  <2> HIDE DEF N
  <2>2. 0 \in 0..N /\ \A i \in 1..N : i \in 0..N /\ i # 0
    BY <1>1
  <2> QED BY <2>1, <2>2
<1> HIDE DEF g
<1> DEFINE Right(i) == g[i] \in X /\ Fig!Named(g[i]) = {keys[j] : j \in 1..i} \cap set
           T == {i \in 0..N : Right(i)}
<1>7. 0 \in T
  <2>1. 1..0 = {} /\ Fig!Named(<<>>) = {}
    BY DEF Fig!Named
  <2>2. Right(0)
    BY <1>2, <1>6, <2>1
  <2> QED BY <1>1, <2>2
<1>8. ASSUME NEW n \in 0..(N - 1), n \in T PROVE n + 1 \in T
  <2> DEFINE m == n + 1
  <2>1. m \in 1..N /\ m \in 0..N /\ m - 1 = n /\ 1..m = (1..n) \cup {m}
    BY <1>1
  <2>2. g[m] = IF keys[m] \in set THEN Append(g[n], keys[m]) ELSE g[n]
    BY <1>6, <2>1
  <2>3. {keys[j] : j \in 1..m} = {keys[j] : j \in 1..n} \cup {keys[m]}
    BY <2>1
  <2>4. g[n] \in X /\ Fig!Named(g[n]) = {keys[j] : j \in 1..n} \cap set
    BY <1>8
  <2> HIDE DEF m
  <2>5. CASE keys[m] \in set
    <3>1. g[m] \in X
      BY <1>1, <2>1, <2>2, <2>4, <2>5
    <3>2. Fig!Named(g[m]) = Fig!Named(g[n]) \cup {keys[m]}
      BY <2>2, <2>4, <2>5, NamedOneMore
    <3> QED BY <2>1, <2>3, <2>4, <2>5, <3>1, <3>2 DEF m
  <2>6. CASE keys[m] \notin set
    BY <2>1, <2>2, <2>3, <2>4, <2>6 DEF m
  <2> QED BY <2>5, <2>6
<1>9. N \in T
  <2> HIDE DEF T, N
  <2>1. 0..N \subseteq T
    BY <1>1, <1>7, <1>8, Counting
  <2> QED BY <1>1, <2>1
<1>10. {keys[j] : j \in 1..N} = Fig!Named(keys)
  BY <1>1 DEF Fig!Named
<1> QED BY <1>5, <1>9, <1>10

(* A plan asks for the keys that were not asked for, each once.            *)
LEMMA PlannedAre ==
  ASSUME NEW S, NEW keys \in Seq(S), NEW again
  PROVE  /\ Fig!Planned(keys, again) \in Seq(S)
         /\ Fig!Named(Fig!Planned(keys, again)) =
              Fig!Named(keys) \ (IF again THEN {} ELSE Fig!Named(previous))
<1> DEFINE N == Len(keys)
           X == Seq(S)
           requested == IF again THEN {} ELSE Fig!Named(previous)
           Known(i, x) == keys[i] \in requested \cup Fig!Named(x)
           step == [i \in 1..N |-> [x \in X |-> IF Known(i, x) THEN x ELSE Append(x, keys[i])]]
           Obeys(f) == f = [i \in 0..N |->
                              IF i = 0 THEN <<>>
                              ELSE IF keys[i] \in requested \cup Fig!Named(f[i - 1]) THEN f[i - 1]
                                   ELSE Append(f[i - 1], keys[i])]
           g == CHOOSE f : Obeys(f)
<1>1. N \in Nat /\ DOMAIN keys = 1..N /\ \A i \in 1..N : keys[i] \in S
  OBVIOUS
<1>5. Fig!Planned(keys, again) = g[N]
  BY DEF Fig!Planned
<1> HIDE DEF requested
<1>2. <<>> \in X /\ step \in [1..N -> [X -> X]]
  <2>1. \A i \in 1..N, x \in X : (IF Known(i, x) THEN x ELSE Append(x, keys[i])) \in X
    BY <1>1
  <2> HIDE DEF Known
  <2> QED BY <2>1
<1>3. \E h : Obeys(h)
  <2> HIDE DEF N, X, step
  <2>0. \E h \in [0..N -> X] : Recurses(h, N, <<>>, step)
    BY <1>1, <1>2, Recursing
  <2>1. PICK h \in [0..N -> X] : h = [i \in 0..N |-> IF i = 0 THEN <<>> ELSE step[i][h[i - 1]]]
    BY <2>0 DEF Recurses
  <2>2. ASSUME NEW i \in 0..N, i # 0
        PROVE  step[i][h[i - 1]] = IF Known(i, h[i - 1]) THEN h[i - 1] ELSE Append(h[i - 1], keys[i])
    <3>1. i \in 1..N /\ i - 1 \in 0..N
      BY <1>1, <2>2
    <3>2. h[i - 1] \in X
      BY <2>1, <3>1
    <3> HIDE DEF Known
    <3> QED BY <3>1, <3>2 DEF step
  <2>3. Obeys(h)
    BY <2>1, <2>2
  <2> QED BY <2>3
<1>4. Obeys(g)
  <2> HIDE DEF Obeys
  <2> QED BY <1>3
<1>6. /\ g[0] = <<>>
      /\ \A i \in 1..N : g[i] = IF Known(i, g[i - 1]) THEN g[i - 1] ELSE Append(g[i - 1], keys[i])
  <2> HIDE DEF g
  <2>1. \A i \in 0..N : g[i] = IF i = 0 THEN <<>>
                               ELSE IF Known(i, g[i - 1]) THEN g[i - 1] ELSE Append(g[i - 1], keys[i])
    BY <1>4
  <2> HIDE DEF N, Known
  <2>2. 0 \in 0..N /\ \A i \in 1..N : i \in 0..N /\ i # 0
    BY <1>1
  <2> QED BY <2>1, <2>2
<1> HIDE DEF g
<1> DEFINE Right(i) == g[i] \in X /\ Fig!Named(g[i]) = {keys[j] : j \in 1..i} \ requested
           T == {i \in 0..N : Right(i)}
<1>7. 0 \in T
  <2>1. 1..0 = {} /\ Fig!Named(<<>>) = {}
    BY DEF Fig!Named
  <2>2. Right(0)
    BY <1>2, <1>6, <2>1
  <2> QED BY <1>1, <2>2
<1>8. ASSUME NEW n \in 0..(N - 1), n \in T PROVE n + 1 \in T
  <2> DEFINE m == n + 1
  <2>1. m \in 1..N /\ m \in 0..N /\ m - 1 = n /\ 1..m = (1..n) \cup {m}
    BY <1>1
  <2>2. g[m] = IF Known(m, g[n]) THEN g[n] ELSE Append(g[n], keys[m])
    BY <1>6, <2>1
  <2>3. {keys[j] : j \in 1..m} = {keys[j] : j \in 1..n} \cup {keys[m]}
    BY <2>1
  <2>4. g[n] \in X /\ Fig!Named(g[n]) = {keys[j] : j \in 1..n} \ requested
    BY <1>8
  <2> HIDE DEF m
  <2>5. CASE ~Known(m, g[n])
    <3>1. g[m] \in X
      BY <1>1, <2>1, <2>2, <2>4, <2>5
    <3>2. Fig!Named(g[m]) = Fig!Named(g[n]) \cup {keys[m]}
      BY <2>2, <2>4, <2>5, NamedOneMore
    <3>3. keys[m] \notin requested
      BY <2>5
    <3> QED BY <2>1, <2>3, <2>4, <3>1, <3>2, <3>3 DEF m
  <2>6. CASE Known(m, g[n])
    <3>1. keys[m] \in requested \/ keys[m] \in Fig!Named(g[n])
      BY <2>6
    <3>2. g[m] = g[n]
      BY <2>2, <2>6
    <3> QED BY <2>1, <2>3, <2>4, <3>1, <3>2 DEF m
  <2> QED BY <2>5, <2>6
<1>9. N \in T
  <2> HIDE DEF T, N
  <2>1. 0..N \subseteq T
    BY <1>1, <1>7, <1>8, Counting
  <2> QED BY <1>1, <2>1
<1>10. {keys[j] : j \in 1..N} = Fig!Named(keys)
  BY <1>1 DEF Fig!Named
<1> QED BY <1>5, <1>9, <1>10 DEF requested

(* A runtime with other requests to draw.                                  *)
Renewed(t, keys, inputs) == [t EXCEPT !.pending = keys, !.inputs = inputs]

LEMMA RenewedTyped ==
  ASSUME NEW t \in Fig!Thread, NEW keys \in Seq(Name), NEW inputs \in Calls \cup {Blank}
  PROVE  /\ Renewed(t, keys, inputs) \in Fig!Thread
         /\ Renewed(t, keys, inputs).pending = keys
         /\ Renewed(t, keys, inputs).at = t.at /\ Renewed(t, keys, inputs).todo = t.todo
         /\ Renewed(t, keys, inputs).batches = t.batches /\ Renewed(t, keys, inputs).held = t.held
BY DEF Fig!Thread, Renewed

(* Keeping a batch.                                                        *)
LEMMA Keeping ==
  ASSUME Calls \subseteq Seq(Name), NEW queue \in Fig!Thread, NEW asked \in Fig!Batch
  PROVE  /\ Fig!Keep(queue, asked) \in Fig!Thread
         /\ Fig!Keep(queue, asked).at = queue.at /\ Fig!Keep(queue, asked).todo = queue.todo
         /\ Fig!Keep(queue, asked).batches = queue.batches
         /\ Fig!Keep(queue, asked).held = queue.held
         /\ Fig!Named(Fig!Keep(queue, asked).pending) =
              (Fig!Named(queue.pending) \cap Fig!Named(asked.calls)) \cup Fig!Named(asked.draw)
<1> DEFINE set == Fig!Named(asked.calls) \ Fig!Named(asked.draw)
           rest == Fig!Retained(queue.pending, set)
<1>1. /\ queue.pending \in Seq(Name) /\ asked.draw \in Seq(Name) /\ asked.calls \in Calls
  BY DEF Fig!Thread, Fig!Batch
<1>2. rest \in Seq(Name) /\ Fig!Named(rest) = Fig!Named(queue.pending) \cap set
  BY <1>1, Retaining
<1>4. Fig!Keep(queue, asked) = [queue EXCEPT !.pending = rest \o asked.draw, !.inputs = asked.calls]
  BY DEF Fig!Keep
<1> HIDE DEF rest, set
<1>3. /\ rest \o asked.draw \in Seq(Name)
      /\ Fig!Named(rest \o asked.draw) = Fig!Named(rest) \cup Fig!Named(asked.draw)
  BY <1>1, <1>2, NamedTogether
<1>5. /\ Fig!Keep(queue, asked) \in Fig!Thread
      /\ Fig!Keep(queue, asked).pending = rest \o asked.draw
      /\ Fig!Keep(queue, asked).at = queue.at /\ Fig!Keep(queue, asked).todo = queue.todo
      /\ Fig!Keep(queue, asked).batches = queue.batches
      /\ Fig!Keep(queue, asked).held = queue.held
  <2> DEFINE all == rest \o asked.draw
  <2>1. all \in Seq(Name) /\ asked.calls \in Calls \cup {Blank}
    BY <1>1, <1>3
  <2>2. Fig!Keep(queue, asked) = Renewed(queue, all, asked.calls)
    BY <1>4 DEF Renewed
  <2> HIDE DEF all
  <2>3. /\ Fig!Keep(queue, asked) \in Fig!Thread /\ Fig!Keep(queue, asked).pending = all
        /\ Fig!Keep(queue, asked).at = queue.at /\ Fig!Keep(queue, asked).todo = queue.todo
        /\ Fig!Keep(queue, asked).batches = queue.batches
        /\ Fig!Keep(queue, asked).held = queue.held
    BY <2>1, <2>2, RenewedTyped
  <2> QED BY <2>3 DEF all
<1> QED BY <1>2, <1>3, <1>5 DEF set

(* A key that is with a runtime by its queue and the first n batches.      *)
KeptBy(t, n, k) ==
  \/ k \in Fig!Named(t.pending) /\ \A c \in 1..n : k \in Fig!Named(t.batches[c].calls)
  \/ \E b \in 1..n :
       k \in Fig!Named(t.batches[b].draw)
         /\ \A c \in 1..n : c > b => k \in Fig!Named(t.batches[c].calls)

(* The batches of a runtime are batches.                                   *)
LEMMA BatchesTyped ==
  ASSUME NEW t \in Fig!Thread
  PROVE  /\ t.batches \in Seq(Fig!Batch) /\ DOMAIN t.batches = 1..Len(t.batches)
         /\ Len(t.batches) \in Nat /\ \A c \in DOMAIN t.batches : t.batches[c] \in Fig!Batch
<1>1. t.batches \in Seq(Fig!Batch)
  BY DEF Fig!Thread
<1> QED BY <1>1

(* A runtime without batches.                                              *)
LEMMA EmptiedTyped ==
  ASSUME NEW t \in Fig!Thread
  PROVE  /\ [t EXCEPT !.batches = <<>>] \in Fig!Thread
         /\ [t EXCEPT !.batches = <<>>].pending = t.pending
         /\ [t EXCEPT !.batches = <<>>].at = t.at /\ [t EXCEPT !.batches = <<>>].todo = t.todo
         /\ [t EXCEPT !.batches = <<>>].batches = <<>>
<1>1. <<>> \in Seq(Fig!Batch)
  OBVIOUS
<1>2. [t EXCEPT !.batches = <<>>] \in Fig!Thread
  BY <1>1 DEF Fig!Thread
<1>3. /\ [t EXCEPT !.batches = <<>>].pending = t.pending
      /\ [t EXCEPT !.batches = <<>>].at = t.at /\ [t EXCEPT !.batches = <<>>].todo = t.todo
      /\ [t EXCEPT !.batches = <<>>].batches = <<>>
  BY DEF Fig!Thread
<1> QED BY <1>2, <1>3

(* One more batch to keep.                                                 *)
LEMMA KeptByOneMore ==
  ASSUME NEW t, NEW n \in Nat, NEW k, KeptBy(t, n + 1, k)
  PROVE  \/ KeptBy(t, n, k) /\ k \in Fig!Named(t.batches[n + 1].calls)
         \/ k \in Fig!Named(t.batches[n + 1].draw)
<1>1. \A c \in 1..(n + 1) : c = n + 1 \/ c \in 1..n
  OBVIOUS
<1>2. n + 1 \in 1..(n + 1) /\ \A c \in 1..n : c \in 1..(n + 1) /\ n + 1 > c
  OBVIOUS
<1>3. CASE k \in Fig!Named(t.pending) /\ \A c \in 1..(n + 1) : k \in Fig!Named(t.batches[c].calls)
  BY <1>2, <1>3 DEF KeptBy
<1>4. ASSUME NEW b \in 1..(n + 1), k \in Fig!Named(t.batches[b].draw),
             \A c \in 1..(n + 1) : c > b => k \in Fig!Named(t.batches[c].calls)
      PROVE  \/ KeptBy(t, n, k) /\ k \in Fig!Named(t.batches[n + 1].calls)
             \/ k \in Fig!Named(t.batches[n + 1].draw)
  <2>1. CASE b = n + 1
    BY <1>4, <2>1
  <2>2. CASE b \in 1..n
    <3>1. k \in Fig!Named(t.batches[n + 1].calls)
      BY <1>2, <1>4, <2>2
    <3>2. \A c \in 1..n : c > b => k \in Fig!Named(t.batches[c].calls)
      BY <1>2, <1>4
    <3> QED BY <1>4, <2>2, <3>1, <3>2 DEF KeptBy
  <2> QED BY <1>1, <2>1, <2>2
<1> QED BY <1>3, <1>4 DEF KeptBy

(* Keeping every batch that waits leaves of them what none supersedes.     *)
LEMMA KeepingAll ==
  ASSUME Calls \subseteq Seq(Name), NEW g, NEW t \in Fig!Thread, t = thread[g]
  PROVE  /\ Fig!KeepWaiting(g) \in Fig!Thread
         /\ Fig!KeepWaiting(g).at = t.at /\ Fig!KeepWaiting(g).todo = t.todo
         /\ Fig!KeepWaiting(g).batches = <<>>
         /\ \A k : KeptBy(t, Len(t.batches), k) => k \in Fig!Named(Fig!KeepWaiting(g).pending)
<1> DEFINE N == Len(t.batches)
           first == [t EXCEPT !.batches = <<>>]
           step == [i \in 1..N |-> [x \in Fig!Thread |-> Fig!Keep(x, t.batches[i])]]
           Obeys(f) == f = [i \in 0..N |->
                              IF i = 0 THEN first ELSE Fig!Keep(f[i - 1], t.batches[i])]
           after == CHOOSE f : Obeys(f)
<1>1. N \in Nat /\ DOMAIN t.batches = 1..N /\ \A i \in 1..N : t.batches[i] \in Fig!Batch
  BY BatchesTyped
<1>5. Fig!KeepWaiting(g) = after[N]
  BY DEF Fig!KeepWaiting
<1>0. /\ first \in Fig!Thread /\ first.pending = t.pending /\ first.at = t.at
      /\ first.todo = t.todo /\ first.batches = <<>>
  BY EmptiedTyped
<1> HIDE DEF first, N
<1>2. step \in [1..N -> [Fig!Thread -> Fig!Thread]]
  <2>1. \A i \in 1..N : \A x \in Fig!Thread : Fig!Keep(x, t.batches[i]) \in Fig!Thread
    BY <1>1, Keeping
  <2> QED BY <2>1
<1>3. \E h : Obeys(h)
  <2> HIDE DEF step
  <2>0. \E h \in [0..N -> Fig!Thread] : Recurses(h, N, first, step)
    BY <1>0, <1>1, <1>2, Recursing
  <2>1. PICK h \in [0..N -> Fig!Thread] :
          h = [i \in 0..N |-> IF i = 0 THEN first ELSE step[i][h[i - 1]]]
    BY <2>0 DEF Recurses
  <2>2. ASSUME NEW i \in 0..N, i # 0 PROVE step[i][h[i - 1]] = Fig!Keep(h[i - 1], t.batches[i])
    <3>1. i \in 1..N /\ i - 1 \in 0..N
      BY <1>1, <2>2
    <3>2. h[i - 1] \in Fig!Thread
      BY <2>1, <3>1
    <3> QED BY <3>1, <3>2 DEF step
  <2>3. Obeys(h)
    BY <2>1, <2>2
  <2> QED BY <2>3
<1>4. Obeys(after)
  <2> HIDE DEF Obeys
  <2> QED BY <1>3
<1>6. after[0] = first /\ \A i \in 1..N : after[i] = Fig!Keep(after[i - 1], t.batches[i])
  <2> HIDE DEF after
  <2>1. \A i \in 0..N : after[i] = IF i = 0 THEN first ELSE Fig!Keep(after[i - 1], t.batches[i])
    BY <1>4
  <2>2. 0 \in 0..N /\ \A i \in 1..N : i \in 0..N /\ i # 0
    BY <1>1
  <2> QED BY <2>1, <2>2
<1> HIDE DEF after
<1> DEFINE Right(i) ==
             /\ after[i] \in Fig!Thread /\ after[i].at = t.at /\ after[i].todo = t.todo
             /\ after[i].batches = <<>>
             /\ \A k : KeptBy(t, i, k) => k \in Fig!Named(after[i].pending)
           T == {i \in 0..N : Right(i)}
<1>7. 0 \in T
  <2>1. \A k : KeptBy(t, 0, k) => k \in Fig!Named(t.pending)
    BY DEF KeptBy
  <2>2. Right(0)
    BY <1>0, <1>6, <2>1
  <2> QED BY <1>1, <2>2
<1>8. ASSUME NEW n \in 0..(N - 1), n \in T PROVE n + 1 \in T
  <2> DEFINE m == n + 1
             new == after[m]
             old == after[n]
  <2>1. m \in 1..N /\ m \in 0..N /\ m - 1 = n /\ n \in Nat
    BY <1>1
  <2>2. new = Fig!Keep(old, t.batches[m])
    BY <1>6, <2>1
  <2>3. /\ old \in Fig!Thread /\ old.at = t.at /\ old.todo = t.todo /\ old.batches = <<>>
        /\ \A k : KeptBy(t, n, k) => k \in Fig!Named(old.pending)
    BY <1>8
  <2>4. t.batches[m] \in Fig!Batch
    BY <1>1, <2>1
  <2>5. \A k : KeptBy(t, m, k) => \/ KeptBy(t, n, k) /\ k \in Fig!Named(t.batches[m].calls)
                                  \/ k \in Fig!Named(t.batches[m].draw)
    BY <2>1, KeptByOneMore
  <2> HIDE DEF m, new, old
  <2>6. /\ new \in Fig!Thread /\ new.at = old.at /\ new.todo = old.todo /\ new.batches = old.batches
        /\ Fig!Named(new.pending) =
             (Fig!Named(old.pending) \cap Fig!Named(t.batches[m].calls))
               \cup Fig!Named(t.batches[m].draw)
    BY <2>2, <2>3, <2>4, Keeping
  <2>7. \A k : KeptBy(t, m, k) => k \in Fig!Named(new.pending)
    BY <2>3, <2>5, <2>6
  <2>8. Right(m)
    BY <2>3, <2>6, <2>7 DEF new
  <2> QED BY <2>1, <2>8 DEF m
<1>9. N \in T
  <2> HIDE DEF T
  <2>1. 0..N \subseteq T
    BY <1>1, <1>7, <1>8, Counting
  <2> QED BY <1>1, <2>1
<1> QED BY <1>5, <1>9 DEF N

(* What a key waits for, in those terms.                                   *)
LEMMA WaitsMeans ==
  ASSUME NEW t \in Fig!Thread, NEW k
  PROVE  Fig!Waits(t, k) <=> \/ KeptBy(t, Len(t.batches), k)
                             \/ t.at \in {"round", "drawing"} /\ k \in Fig!Named(t.todo)
<1>1. DOMAIN t.batches = 1..Len(t.batches)
  BY BatchesTyped
<1> QED BY <1>1 DEF Fig!Waits, KeptBy

LEMMA WaitsInQueue ==
  ASSUME NEW t, t.batches = <<>>, NEW k, k \in Fig!Named(t.pending)
  PROVE  Fig!Waits(t, k)
<1>1. DOMAIN t.batches = {}
  OBVIOUS
<1> QED BY <1>1 DEF Fig!Waits

(* The top of a runtime's loop.                                            *)
LEMMA ToppedTyped ==
  ASSUME Blank \notin Fig!Generation, NEW g, NEW t \in Fig!Thread
  PROVE  /\ Fig!Top(g, t) \in Fig!Thread /\ Fig!Top(g, t).at # "drawing"
         /\ ~Fig!Stopped(g) => /\ Fig!Top(g, t).at = "wait" /\ Fig!Top(g, t).pending = t.pending
                               /\ Fig!Top(g, t).batches = t.batches
<1>1. Fig!Gone \in Fig!Thread /\ Fig!Gone.at # "drawing"
  <2>1. <<>> \in Seq(Name) /\ <<>> \in Seq(Fig!Batch)
    OBVIOUS
  <2> QED BY <2>1 DEF Fig!Gone, Fig!NoThread, Fig!Thread
<1> DEFINE new == [t EXCEPT !.at = "wait"]
<1>2. new \in Fig!Thread
  BY DEF Fig!Thread
<1>3. new.at = "wait" /\ new.pending = t.pending /\ new.batches = t.batches
  BY DEF Fig!Thread
<1> HIDE DEF new
<1>4. Fig!Top(g, t) = IF Fig!Stopped(g) THEN Fig!Gone ELSE new
  BY DEF Fig!Top, new
<1> QED BY <1>1, <1>2, <1>3, <1>4

(* A step of a runtime: what it does to itself, and to what is with it.    *)
Passing(g, k, new) ==
  Fig!Waits(new, k) \/ k \in lost' \/ drawn' = Append(drawn, [by |-> g, key |-> k])
Steps(g, new) ==
  /\ new \in Fig!Thread /\ thread' = [thread EXCEPT ![g] = new]
  /\ new.at = "drawing" => new.todo # <<>>
  /\ lost \subseteq lost' /\ (drawn' = drawn \/ \E e : drawn' = Append(drawn, e))
  /\ ~Fig!Stopped(g) => \A k : Fig!Waits(thread[g], k) => Passing(g, k, new)

LEMMA CollectKeeps ==
  ASSUME Settings, NEW g, thread[g] \in Fig!Thread, Fig!Collect(g)
  PROVE  \E new : Steps(g, new)
<1> DEFINE t == thread[g]
           first == Head(t.batches)
           kept == Fig!Keep(t, first)
           rest == [kept EXCEPT !.batches = Tail(@)]
           new == Fig!Top(g, rest)
<1>1. /\ t \in Fig!Thread /\ t.batches # <<>> /\ t.at = "wait"
      /\ t.batches \in Seq(Fig!Batch) /\ Len(t.batches) \in Nat
  BY BatchesTyped DEF Fig!Collect
<1>2. first \in Fig!Batch /\ first = t.batches[1] /\ Tail(t.batches) \in Seq(Fig!Batch)
      /\ Len(t.batches) # 0 /\ Len(Tail(t.batches)) = Len(t.batches) - 1
      /\ \A c \in 1..(Len(t.batches) - 1) : Tail(t.batches)[c] = t.batches[c + 1]
  <2> DEFINE s == t.batches
  <2>1. s \in Seq(Fig!Batch) /\ s # <<>>
    BY <1>1
  <2> HIDE DEF s
  <2>2. Head(s) \in Fig!Batch /\ Head(s) = s[1] /\ Tail(s) \in Seq(Fig!Batch)
        /\ Len(s) # 0 /\ Len(Tail(s)) = Len(s) - 1
        /\ \A c \in 1..(Len(s) - 1) : Tail(s)[c] = s[c + 1]
    BY <2>1
  <2> QED BY <2>2 DEF s
<1>3. /\ thread' = [thread EXCEPT ![g] = new] /\ drawn' = drawn /\ lost' = lost
  BY DEF Fig!Collect, Fig!Becomes
<1> HIDE DEF first, kept
<1>4. /\ kept \in Fig!Thread /\ kept.batches = t.batches
      /\ Fig!Named(kept.pending) =
              (Fig!Named(t.pending) \cap Fig!Named(first.calls)) \cup Fig!Named(first.draw)
  BY <1>1, <1>2, Keeping DEF Settings, kept
<1>5. rest \in Fig!Thread /\ rest.pending = kept.pending /\ rest.batches = Tail(t.batches)
  <2>1. rest.batches = Tail(t.batches) /\ rest.pending = kept.pending
    BY <1>4 DEF Fig!Thread
  <2>2. rest \in Fig!Thread
    BY <1>2, <1>4 DEF Fig!Thread
  <2> QED BY <2>1, <2>2
<1> HIDE DEF rest
<1>6. /\ new \in Fig!Thread /\ new.at # "drawing"
      /\ ~Fig!Stopped(g) => /\ new.at = "wait" /\ new.pending = kept.pending
                            /\ new.batches = Tail(t.batches)
  BY <1>5, ToppedTyped DEF Settings
<1> HIDE DEF new
<1>7. ASSUME ~Fig!Stopped(g), NEW k, Fig!Waits(t, k) PROVE Fig!Waits(new, k)
  <2> DEFINE N == Len(t.batches)
             M == N - 1
  <2>1. KeptBy(t, N, k)
    BY <1>1, <1>7, WaitsMeans
  <2>2. N \in Nat /\ N # 0 /\ Len(new.batches) = M
        /\ \A c \in 1..M : new.batches[c] = t.batches[c + 1]
    BY <1>1, <1>2, <1>6, <1>7
  <2> HIDE DEF N
  <2>3. 1 \in 1..N /\ (\A c \in 1..M : c + 1 \in 1..N /\ c + 1 > 1)
        /\ \A c \in 1..N : c = 1 \/ (c - 1 \in 1..M /\ c = (c - 1) + 1)
    BY <2>2
  <2>4. KeptBy(new, M, k)
    <3>1. CASE k \in Fig!Named(t.pending) /\ \A c \in 1..N : k \in Fig!Named(t.batches[c].calls)
      <4>1. k \in Fig!Named(new.pending)
        BY <1>2, <1>4, <1>6, <1>7, <2>3, <3>1
      <4>2. \A c \in 1..M : k \in Fig!Named(new.batches[c].calls)
        BY <2>2, <2>3, <3>1
      <4> QED BY <4>1, <4>2 DEF KeptBy
    <3>2. ASSUME NEW b \in 1..N, k \in Fig!Named(t.batches[b].draw),
                 \A c \in 1..N : c > b => k \in Fig!Named(t.batches[c].calls)
          PROVE  KeptBy(new, M, k)
      <4>1. CASE b = 1
        <5>1. k \in Fig!Named(new.pending)
          BY <1>2, <1>4, <1>6, <1>7, <3>2, <4>1
        <5>2. \A c \in 1..M : k \in Fig!Named(new.batches[c].calls)
          BY <2>2, <2>3, <3>2, <4>1
        <5> QED BY <5>1, <5>2 DEF KeptBy
      <4>2. CASE b # 1
        <5>1. b - 1 \in 1..M /\ k \in Fig!Named(new.batches[b - 1].draw)
          BY <2>2, <2>3, <3>2, <4>2
        <5>2. ASSUME NEW c \in 1..M, c > b - 1 PROVE k \in Fig!Named(new.batches[c].calls)
          <6>1. c + 1 > b /\ c + 1 \in 1..N
            BY <2>2, <5>2
          <6> QED BY <2>2, <3>2, <6>1
        <5> QED BY <5>1, <5>2 DEF KeptBy
      <4> QED BY <4>1, <4>2
    <3> QED BY <2>1, <3>1, <3>2 DEF KeptBy
  <2> QED BY <1>6, <2>2, <2>4, WaitsMeans
<1>8. Steps(g, new)
  BY <1>3, <1>6, <1>7 DEF Steps, Passing
<1> QED BY <1>8

(* Changes of a runtime that leave its requests where they are.            *)
LEMMA RuntimeTyped ==
  ASSUME NEW t \in Fig!Thread
  PROVE  /\ \A a \in {"wait", "round", "preparing", "drawing"} :
              /\ [t EXCEPT !.at = a] \in Fig!Thread /\ [t EXCEPT !.at = a].pending = t.pending
              /\ [t EXCEPT !.at = a].batches = t.batches /\ [t EXCEPT !.at = a].todo = t.todo
              /\ [t EXCEPT !.at = a].at = a
         /\ \A b \in BOOLEAN :
              /\ [t EXCEPT !.held = b] \in Fig!Thread /\ [t EXCEPT !.held = b].pending = t.pending
              /\ [t EXCEPT !.held = b].batches = t.batches /\ [t EXCEPT !.held = b].todo = t.todo
              /\ [t EXCEPT !.held = b].at = t.at
BY DEF Fig!Thread

LEMMA StartRoundKeeps ==
  ASSUME Settings, NEW g, thread[g] \in Fig!Thread, Fig!StartRound(g)
  PROVE  \E new : Steps(g, new)
<1> DEFINE t == thread[g]
           queue == Fig!KeepWaiting(g)
           going == [queue EXCEPT !.held = TRUE, !.at = "preparing"]
           new == IF queue.pending = <<>> THEN Fig!Top(g, queue) ELSE going
<1>1. /\ t \in Fig!Thread /\ t.at = "wait"
      /\ thread' = [thread EXCEPT ![g] = new] /\ drawn' = drawn /\ lost' = lost
  BY DEF Fig!StartRound, Fig!Becomes
<1>2. /\ queue \in Fig!Thread /\ queue.batches = <<>>
      /\ \A k : KeptBy(t, Len(t.batches), k) => k \in Fig!Named(queue.pending)
  BY <1>1, KeepingAll DEF Settings
<1> HIDE DEF queue
<1>3. going \in Fig!Thread /\ going.at # "drawing" /\ going.pending = queue.pending /\ going.batches = <<>>
  BY <1>2 DEF Fig!Thread
<1>4. /\ Fig!Top(g, queue) \in Fig!Thread /\ Fig!Top(g, queue).at # "drawing"
      /\ ~Fig!Stopped(g) => /\ Fig!Top(g, queue).pending = queue.pending
                            /\ Fig!Top(g, queue).batches = <<>>
  BY <1>2, ToppedTyped DEF Settings
<1> HIDE DEF going
<1>5. new \in Fig!Thread /\ new.at # "drawing"
      /\ (~Fig!Stopped(g) => new.pending = queue.pending /\ new.batches = <<>>)
  BY <1>3, <1>4
<1> HIDE DEF new
<1>6. ASSUME ~Fig!Stopped(g), NEW k, Fig!Waits(t, k) PROVE Fig!Waits(new, k)
  BY <1>1, <1>2, <1>5, <1>6, WaitsMeans, WaitsInQueue
<1>7. Steps(g, new)
  BY <1>1, <1>5, <1>6 DEF Steps, Passing
<1> QED BY <1>7

LEMMA ReadyKeeps ==
  ASSUME Settings, NEW g, thread[g] \in Fig!Thread, Fig!Ready(g)
  PROVE  \E new : Steps(g, new)
<1> DEFINE t == thread[g]
           queue == Fig!KeepWaiting(g)
           new == [queue EXCEPT !.todo = queue.pending, !.pending = <<>>, !.held = FALSE,
                                !.loaded = TRUE, !.at = "round"]
<1>1. /\ t \in Fig!Thread /\ t.at = "preparing"
      /\ thread' = [thread EXCEPT ![g] = new] /\ drawn' = drawn /\ lost' = lost
  BY DEF Fig!Ready, Fig!Becomes
<1>2. /\ queue \in Fig!Thread /\ queue.batches = <<>>
      /\ \A k : KeptBy(t, Len(t.batches), k) => k \in Fig!Named(queue.pending)
  BY <1>1, KeepingAll DEF Settings
<1> HIDE DEF queue
<1>3. new.todo = queue.pending /\ new.at = "round"
  BY <1>2 DEF Fig!Thread
<1>4. new \in Fig!Thread
  <2>1. <<>> \in Seq(Name) /\ queue.pending \in Seq(Name)
    BY <1>2 DEF Fig!Thread
  <2> QED BY <1>2, <2>1 DEF Fig!Thread
<1> HIDE DEF new
<1>5. ASSUME NEW k, Fig!Waits(t, k) PROVE Fig!Waits(new, k)
  BY <1>1, <1>2, <1>3, <1>4, <1>5, WaitsMeans
<1>6. Steps(g, new)
  BY <1>1, <1>3, <1>4, <1>5 DEF Steps, Passing
<1> QED BY <1>6

(* A thread that goes back to its top keeps its requests.                  *)
LEMMA TopKeeps ==
  ASSUME Settings, NEW g, thread[g] \in Fig!Thread, thread[g].at = "preparing",
         thread' = [thread EXCEPT ![g] = Fig!Top(g, thread[g])], drawn' = drawn, lost' = lost
  PROVE  \E new : Steps(g, new)
<1> DEFINE t == thread[g]
           new == Fig!Top(g, t)
<1>1. /\ new \in Fig!Thread /\ new.at # "drawing"
      /\ ~Fig!Stopped(g) => new.pending = t.pending /\ new.batches = t.batches
  BY ToppedTyped DEF Settings
<1>2. thread' = [thread EXCEPT ![g] = new]
  OBVIOUS
<1> HIDE DEF new
<1>3. ASSUME ~Fig!Stopped(g), NEW k, Fig!Waits(t, k) PROVE Fig!Waits(new, k)
  BY <1>1, <1>3, WaitsMeans DEF KeptBy
<1>4. Steps(g, new)
  BY <1>1, <1>2, <1>3 DEF Steps, Passing
<1> QED BY <1>4

LEMMA RoundFailsKeeps ==
  ASSUME Settings, NEW g, thread[g] \in Fig!Thread, Fig!RoundFails(g)
  PROVE  \E new : Steps(g, new)
<1> DEFINE t == thread[g]
           kept == Fig!KeepWaiting(g)
           queue == [kept EXCEPT !.loaded = TRUE]
           new == Fig!Top(g, queue)
<1>1. t \in Fig!Thread /\ t.at = "preparing" /\ drawn' = drawn /\ lost' = lost
  BY DEF Fig!RoundFails
<1>2. CASE thread' = [thread EXCEPT ![g] = Fig!Top(g, t)]
  BY <1>1, <1>2, TopKeeps
<1>3. CASE thread' = [thread EXCEPT ![g] = new]
  <2>1. /\ kept \in Fig!Thread /\ kept.batches = <<>>
        /\ \A k : KeptBy(t, Len(t.batches), k) => k \in Fig!Named(kept.pending)
    BY <1>1, KeepingAll DEF Settings
  <2> HIDE DEF kept
  <2>2. queue \in Fig!Thread /\ queue.batches = <<>> /\ queue.pending = kept.pending
    BY <2>1 DEF Fig!Thread
  <2> HIDE DEF queue
  <2>3. new \in Fig!Thread /\ new.at # "drawing"
        /\ (~Fig!Stopped(g) => new.pending = queue.pending /\ new.batches = <<>>)
    BY <2>2, ToppedTyped DEF Settings
  <2> HIDE DEF new
  <2>4. ASSUME ~Fig!Stopped(g), NEW k, Fig!Waits(t, k) PROVE Fig!Waits(new, k)
    BY <1>1, <2>1, <2>2, <2>3, <2>4, WaitsMeans, WaitsInQueue
  <2>5. Steps(g, new)
    BY <1>1, <1>3, <2>3, <2>4 DEF Steps, Passing
  <2> QED BY <2>5
<1> QED BY <1>2, <1>3 DEF Fig!RoundFails, Fig!Becomes

(* Failed without libraries, and what they throw.                          *)
LEMMA NotReadyKeeps ==
  ASSUME Settings, NEW g, thread[g] \in Fig!Thread, Fig!NotReady(g) \/ Fig!LibrariesFail(g)
  PROVE  \E new : Steps(g, new)
<1> DEFINE t == thread[g]
           emptied == [t EXCEPT !.pending = <<>>]
<1>1. t \in Fig!Thread /\ t.at = "preparing"
  BY DEF Fig!NotReady, Fig!LibrariesFail
<1>2. CASE Fig!NotReady(g)
  <2>1. thread' = [thread EXCEPT ![g] = Fig!Top(g, t)] /\ drawn' = drawn /\ lost' = lost
    BY <1>2 DEF Fig!NotReady, Fig!Becomes
  <2> QED BY <1>1, <2>1, TopKeeps
<1>3. CASE Fig!LibrariesFail(g)
  <2> DEFINE new == Fig!Top(g, emptied)
  <2>1. /\ thread' = [thread EXCEPT ![g] = new] /\ drawn' = drawn
        /\ lost' = IF Fig!Stopped(g) THEN lost ELSE lost \cup Fig!Named(t.pending)
    BY <1>3 DEF Fig!LibrariesFail, Fig!Becomes, Fig!Lose
  <2>2. emptied \in Fig!Thread /\ emptied.batches = t.batches
    <3>1. <<>> \in Seq(Name)
      OBVIOUS
    <3> QED BY <1>1, <3>1 DEF Fig!Thread
  <2> HIDE DEF emptied
  <2>3. new \in Fig!Thread /\ new.at # "drawing" /\ (~Fig!Stopped(g) => new.batches = t.batches)
    BY <2>2, ToppedTyped DEF Settings
  <2> HIDE DEF new
  <2>4. ASSUME ~Fig!Stopped(g), NEW k, Fig!Waits(t, k) PROVE Fig!Waits(new, k) \/ k \in lost'
    BY <1>1, <2>1, <2>3, <2>4, WaitsMeans DEF KeptBy
  <2>5. Steps(g, new)
    BY <2>1, <2>3, <2>4 DEF Steps, Passing
  <2> QED BY <2>5
<1> QED BY <1>2, <1>3

LEMMA StartDrawKeeps ==
  ASSUME Settings, NEW g, thread[g] \in Fig!Thread,
         Fig!StartDraw(g) \/ Fig!HoldPasses(g) \/ Fig!Closed(g)
  PROVE  \E new : Steps(g, new)
<1> DEFINE t == thread[g]
<1>1. t \in Fig!Thread /\ drawn' = drawn /\ lost' = lost
  BY DEF Fig!StartDraw, Fig!HoldPasses, Fig!Closed
<1>2. CASE Fig!StartDraw(g)
  <2> DEFINE on == [t EXCEPT !.at = "drawing"]
             new == IF t.todo = <<>> THEN Fig!Top(g, t) ELSE IF Fig!Stopped(g) THEN Fig!Gone ELSE on
  <2>1. thread' = [thread EXCEPT ![g] = new] /\ t.at = "round"
    BY <1>2 DEF Fig!StartDraw, Fig!Becomes
  <2>2. /\ Fig!Top(g, t) \in Fig!Thread /\ Fig!Top(g, t).at # "drawing"
        /\ Fig!Stopped(g) => Fig!Gone \in Fig!Thread /\ Fig!Gone.at # "drawing"
        /\ ~Fig!Stopped(g) => Fig!Top(g, t).pending = t.pending /\ Fig!Top(g, t).batches = t.batches
    BY <1>1, ToppedTyped DEF Settings, Fig!Top
  <2>3. /\ on \in Fig!Thread /\ on.pending = t.pending /\ on.batches = t.batches
        /\ on.todo = t.todo /\ on.at = "drawing"
    BY <1>1, RuntimeTyped
  <2> HIDE DEF on
  <2>4. /\ new \in Fig!Thread /\ (new.at = "drawing" => new.todo # <<>>)
        /\ ~Fig!Stopped(g) => /\ new.pending = t.pending /\ new.batches = t.batches
                              /\ t.todo = <<>> \/ (new.todo = t.todo /\ new.at = "drawing")
    BY <2>2, <2>3
  <2> HIDE DEF new
  <2>5. Fig!Named(<<>>) = {}
    BY DEF Fig!Named
  <2>6. ASSUME ~Fig!Stopped(g), NEW k, Fig!Waits(t, k) PROVE Fig!Waits(new, k)
    BY <1>1, <2>4, <2>5, <2>6, WaitsMeans DEF KeptBy
  <2>7. Steps(g, new)
    BY <1>1, <2>1, <2>4, <2>6 DEF Steps, Passing
  <2> QED BY <2>7
<1>3. CASE Fig!HoldPasses(g)
  <2> DEFINE new == [t EXCEPT !.held = FALSE]
  <2>1. thread' = [thread EXCEPT ![g] = new] /\ t.at = "wait"
    BY <1>3 DEF Fig!HoldPasses, Fig!Becomes
  <2>2. /\ new \in Fig!Thread /\ new.pending = t.pending /\ new.batches = t.batches
        /\ new.todo = t.todo /\ new.at = t.at
    BY <1>1, RuntimeTyped
  <2> HIDE DEF new
  <2>3. ASSUME NEW k, Fig!Waits(t, k) PROVE Fig!Waits(new, k)
    BY <1>1, <2>2, <2>3, WaitsMeans DEF KeptBy
  <2>4. Steps(g, new)
    BY <1>1, <2>1, <2>2, <2>3 DEF Steps, Passing
  <2> QED BY <2>4
<1>4. CASE Fig!Closed(g)
  <2>1. thread' = [thread EXCEPT ![g] = Fig!Gone] /\ Fig!Stopped(g)
    BY <1>4 DEF Fig!Closed, Fig!Becomes
  <2>2. Fig!Gone \in Fig!Thread /\ Fig!Gone.at # "drawing"
    BY <1>1, <2>1, ToppedTyped DEF Settings, Fig!Top
  <2>3. Steps(g, Fig!Gone)
    BY <1>1, <2>1, <2>2 DEF Steps
  <2> QED BY <2>3
<1> QED BY <1>2, <1>3, <1>4

(* A drawing is finished, or fails.                                        *)
LEMMA FinishDrawKeeps ==
  ASSUME Settings, NEW g, thread[g] \in Fig!Thread, thread[g].todo # <<>>,
         Fig!FinishDraw(g) \/ Fig!DrawThrows(g)
  PROVE  \E new : Steps(g, new)
<1> DEFINE t == thread[g]
           first == Head(t.todo)
           new == [t EXCEPT !.at = "round", !.todo = Tail(@)]
<1>1. /\ t \in Fig!Thread /\ t.at = "drawing" /\ thread' = [thread EXCEPT ![g] = new]
      /\ \/ drawn' = Append(drawn, [by |-> g, key |-> first]) /\ lost' = lost
         \/ drawn' = drawn /\ lost' = IF Fig!Stopped(g) THEN lost ELSE lost \cup {first}
  BY DEF Fig!FinishDraw, Fig!DrawThrows, Fig!Becomes, Fig!Lose
<1>2. t.todo \in Seq(Name) /\ t.todo # <<>>
  BY <1>1 DEF Fig!Thread
<1> HIDE DEF first
<1>3. /\ Tail(t.todo) \in Seq(Name)
      /\ \A k : k \in Fig!Named(t.todo) => k = first \/ k \in Fig!Named(Tail(t.todo))
  <2> DEFINE s == t.todo
  <2>1. s \in Seq(Name) /\ s # <<>> /\ first = Head(s)
    BY <1>2 DEF first
  <2> HIDE DEF s
  <2>2. /\ Tail(s) \in Seq(Name) /\ DOMAIN s = 1..Len(s) /\ DOMAIN Tail(s) = 1..(Len(s) - 1)
        /\ first = s[1] /\ Len(s) \in Nat /\ \A i \in 1..(Len(s) - 1) : Tail(s)[i] = s[i + 1]
    BY <2>1
  <2>3. ASSUME NEW i \in DOMAIN s PROVE s[i] = first \/ s[i] \in Fig!Named(Tail(s))
    <3>1. CASE i = 1
      BY <2>2, <3>1
    <3>2. CASE i # 1
      <4>1. i - 1 \in 1..(Len(s) - 1) /\ (i - 1) + 1 = i
        BY <2>2, <3>2
      <4>2. Tail(s)[i - 1] = s[i] /\ i - 1 \in DOMAIN Tail(s)
        BY <2>2, <4>1
      <4> QED BY <4>2 DEF Fig!Named
    <3> QED BY <3>1, <3>2
  <2>4. \A k : k \in Fig!Named(s) => k = first \/ k \in Fig!Named(Tail(s))
    BY <2>3 DEF Fig!Named
  <2> QED BY <2>2, <2>4 DEF s
<1>4. new.pending = t.pending /\ new.batches = t.batches /\ new.todo = Tail(t.todo) /\ new.at = "round"
  BY <1>1 DEF Fig!Thread
<1>5. new \in Fig!Thread
  BY <1>1, <1>3 DEF Fig!Thread
<1> HIDE DEF new
<1>6. ASSUME ~Fig!Stopped(g), NEW k, Fig!Waits(t, k) PROVE Passing(g, k, new)
  <2>1. CASE KeptBy(t, Len(t.batches), k)
    BY <1>4, <1>5, <2>1, WaitsMeans DEF KeptBy, Passing
  <2>2. CASE k \in Fig!Named(Tail(t.todo))
    BY <1>4, <1>5, <2>2, WaitsMeans DEF Passing
  <2>3. CASE k = first
    BY <1>1, <1>6, <2>3 DEF Passing
  <2> QED BY <1>1, <1>3, <1>6, <2>1, <2>2, <2>3, WaitsMeans
<1>7. lost \subseteq lost' /\ (drawn' = drawn \/ \E e : drawn' = Append(drawn, e))
  BY <1>1
<1>8. Steps(g, new)
  BY <1>1, <1>4, <1>5, <1>6, <1>7 DEF Steps
<1> QED BY <1>8

(* A runtime that is drawing has something to draw.                        *)
RuntimesTyped ==
  /\ thread \in [Fig!Generation -> Fig!Thread]
  /\ \A g \in Fig!Generation : thread[g].at = "drawing" => thread[g].todo # <<>>

LEMMA RunnerSteps ==
  ASSUME Settings, RuntimesTyped, NEW g \in Fig!Generation,
         Fig!Run(g) \/ Fig!HoldPasses(g) \/ Fig!Fault(g)
  PROVE  \E new : Steps(g, new)
<1>1. thread[g] \in Fig!Thread
  BY DEF RuntimesTyped
<1>2. CASE Fig!FinishDraw(g) \/ Fig!DrawThrows(g)
  <2>1. thread[g].todo # <<>>
    BY <1>2 DEF RuntimesTyped, Fig!FinishDraw, Fig!DrawThrows
  <2> QED BY <1>1, <1>2, <2>1, FinishDrawKeeps
<1>3. CASE Fig!Collect(g)
  BY <1>1, <1>3, CollectKeeps
<1>4. CASE Fig!StartRound(g)
  BY <1>1, <1>4, StartRoundKeeps
<1>5. CASE Fig!Ready(g)
  BY <1>1, <1>5, ReadyKeeps
<1>6. CASE Fig!RoundFails(g)
  BY <1>1, <1>6, RoundFailsKeeps
<1>7. CASE Fig!NotReady(g) \/ Fig!LibrariesFail(g)
  BY <1>1, <1>7, NotReadyKeeps
<1>8. CASE Fig!StartDraw(g) \/ Fig!HoldPasses(g) \/ Fig!Closed(g)
  BY <1>1, <1>8, StartDrawKeeps
<1> QED BY <1>2, <1>3, <1>4, <1>5, <1>6, <1>7, <1>8 DEF Fig!Run, Fig!Fault

-----------------------------------------------------------------------------
(* No drawing is lost.                                                     *)

(* What the Loop keeps of its layout, as far as it matters here.           *)
LoopTyped ==
  /\ calls \in Calls /\ previous \in Calls \cup {<<>>} /\ DOMAIN recorded = DOMAIN calls
  /\ spawning \in BOOLEAN /\ download \in BOOLEAN /\ reloads \in Nat
  /\ generation \in Nat /\ Fig!Loads <= MaxLoads
  /\ ~spawning => generation # 0 /\ previous = calls

(* A Picture was drawn by the newest runtime or an earlier one, and the    *)
(* frame asked for shows those of the newest.                              *)
NoneNewer ==
  /\ entries \in [Name -> Fig!Generation \cup {Blank}]
  /\ \A k \in Name : entries[k] # Blank => entries[k] <= generation
FrameTakesNewest ==
  ~spawning => \A i \in DOMAIN calls : entries[calls[i]] = generation =>
    recorded[i] = [key |-> calls[i], by |-> generation]

(* What is on screen is drawn, failed, or on its way.                      *)
Asked(k) == k \in lost \/ entries[k] = generation \/ Fig!OnItsWay(k)
AllAsked == ~spawning => \A i \in DOMAIN calls : Asked(calls[i])

RequestsInv == LoopTyped /\ RuntimesTyped /\ NoneNewer /\ FrameTakesNewest /\ AllAsked

(* A step of a runtime loses nothing of the newest.                        *)
LEMMA OnItsWayKept ==
  ASSUME Listed, NEW g \in Fig!Generation, NEW new, Steps(g, new), RuntimesTyped,
         generation \in Fig!Generation, UNCHANGED <<spawning, generation>>, ~spawning,
         NEW k, Fig!OnItsWay(k)
  PROVE  k \in lost' \/ Fig!OnItsWay(k)'
<1> DEFINE here == \E i \in DOMAIN drawn : drawn[i] = [by |-> generation, key |-> k]
<1>1. ASSUME NEW e, drawn' = Append(drawn, e)
      PROVE  /\ \A i \in DOMAIN drawn : i \in DOMAIN drawn' /\ drawn'[i] = drawn[i]
             /\ \E i \in DOMAIN drawn' : drawn'[i] = e
  <2>1. drawn \in Seq({drawn[i] : i \in DOMAIN drawn})
    BY DEF Listed
  <2>2. /\ DOMAIN Append(drawn, e) = DOMAIN drawn \cup {Len(drawn) + 1}
        /\ Append(drawn, e)[Len(drawn) + 1] = e
        /\ \A i \in DOMAIN drawn : Append(drawn, e)[i] = drawn[i]
    BY <2>1
  <2> QED BY <1>1, <2>2
<1>2. CASE here
  <2>1. drawn' = drawn \/ \E e : drawn' = Append(drawn, e)
    BY DEF Steps
  <2>2. \A i \in DOMAIN drawn : i \in DOMAIN drawn' /\ drawn'[i] = drawn[i]
    BY <1>1, <2>1
  <2>3. \E i \in DOMAIN drawn' : drawn'[i] = [by |-> generation', key |-> k]
    BY <1>2, <2>2
  <2> QED BY <2>3 DEF Fig!OnItsWay
<1>3. CASE Fig!Waits(thread[generation], k)
  <2>1. thread \in [Fig!Generation -> Fig!Thread] /\ thread' = [thread EXCEPT ![g] = new]
    BY DEF RuntimesTyped, Steps
  <2>2. CASE g # generation
    <3>1. thread'[generation'] = thread[generation]
      BY <2>1, <2>2
    <3>2. Fig!Waits(thread'[generation'], k)
      BY <1>3, <3>1
    <3> QED BY <3>2 DEF Fig!OnItsWay
  <2>3. CASE g = generation
    <3>1. ~Fig!Stopped(g)
      BY <2>3 DEF Fig!Stopped
    <3>2. Passing(g, k, new)
      BY <1>3, <2>3, <3>1 DEF Steps
    <3>3. thread'[generation'] = new
      BY <2>1, <2>3
    <3>4. CASE Fig!Waits(new, k)
      BY <3>3, <3>4 DEF Fig!OnItsWay
    <3>5. CASE drawn' = Append(drawn, [by |-> g, key |-> k])
      <4>1. \E i \in DOMAIN drawn' : drawn'[i] = [by |-> generation', key |-> k]
        BY <1>1, <2>3, <3>5
      <4> QED BY <4>1 DEF Fig!OnItsWay
    <3> QED BY <3>2, <3>4, <3>5 DEF Passing
  <2> QED BY <2>2, <2>3
<1> QED BY <1>2, <1>3 DEF Fig!OnItsWay

LEMMA RunnerKeepsRequests ==
  ASSUME Settings, Listed, RequestsInv, NEW g \in Fig!Generation,
         Fig!Run(g) \/ Fig!HoldPasses(g) \/ Fig!Fault(g)
  PROVE  RequestsInv'
<1>1. PICK new : Steps(g, new)
  BY RunnerSteps DEF RequestsInv
<1>2. /\ UNCHANGED <<calls, previous, entries, recorded, spawning, generation, reloads, files>>
      /\ download' = download \/ (files # Asset /\ download' \in BOOLEAN)
  <2>1. download \in BOOLEAN
    BY DEF RequestsInv, LoopTyped
  <2> QED
    BY <2>1 DEF Fig!Run, Fig!HoldPasses, Fig!Fault, Fig!StartRound, Fig!NotReady, Fig!Ready,
       Fig!StartDraw, Fig!FinishDraw, Fig!Closed, Fig!Collect, Fig!RoundFails,
       Fig!LibrariesFail, Fig!DrawThrows, Fig!loop, Fig!requests, Fig!pictures, Fig!fetch,
       Fig!HasLibraries
<1>3. Fig!Loads' = Fig!Loads /\ download' \in BOOLEAN
  BY <1>2 DEF Fig!Loads, RequestsInv, LoopTyped
<1>4. LoopTyped'
  BY <1>2, <1>3 DEF RequestsInv, LoopTyped
<1>5. RuntimesTyped'
  <2>1. thread \in [Fig!Generation -> Fig!Thread] /\ thread' = [thread EXCEPT ![g] = new]
        /\ new \in Fig!Thread /\ (new.at = "drawing" => new.todo # <<>>)
        /\ \A h \in Fig!Generation : thread[h].at = "drawing" => thread[h].todo # <<>>
    BY <1>1 DEF Steps, RequestsInv, RuntimesTyped
  <2>2. \A h \in Fig!Generation : thread'[h] = IF h = g THEN new ELSE thread[h]
    BY <2>1
  <2>3. thread' \in [Fig!Generation -> Fig!Thread]
    BY <2>1
  <2> QED BY <2>1, <2>2, <2>3 DEF RuntimesTyped
<1>6. NoneNewer' /\ FrameTakesNewest'
  BY <1>2 DEF RequestsInv, NoneNewer, FrameTakesNewest
<1>7. AllAsked'
  <2> SUFFICES ASSUME ~spawning, NEW i \in DOMAIN calls PROVE Asked(calls[i])'
    BY <1>2 DEF AllAsked
  <2>1. Asked(calls[i]) /\ generation \in Nat /\ generation # 0 /\ Fig!Loads <= MaxLoads
        /\ reloads \in Nat /\ RuntimesTyped
    BY DEF RequestsInv, AllAsked, LoopTyped
  <2>2. generation \in Fig!Generation
    BY <2>1 DEF Fig!Loads, Fig!Generation, Settings
  <2>3. lost \subseteq lost'
    BY <1>1 DEF Steps
  <2>4. Fig!OnItsWay(calls[i]) => calls[i] \in lost' \/ Fig!OnItsWay(calls[i])'
    <3>1. PICK k : k = calls[i]
      OBVIOUS
    <3>2. Fig!OnItsWay(k) => k \in lost' \/ Fig!OnItsWay(k)'
      BY <1>1, <1>2, <2>1, <2>2, OnItsWayKept
    <3>3. calls'[i] = k
      BY <1>2, <3>1
    <3> QED BY <3>1, <3>2, <3>3 DEF Fig!OnItsWay
  <2> QED BY <1>2, <2>1, <2>3, <2>4 DEF Asked
<1> QED BY <1>4, <1>5, <1>6, <1>7 DEF RequestsInv

(* A new request, for what the last plan did not name.                     *)
LEMMA RequestAsks ==
  ASSUME Settings, RuntimesTyped, NEW keys \in Calls, NEW g \in Fig!Generation, NEW again \in BOOLEAN,
         previous \in Calls \cup {<<>>}, Fig!Request(keys, g, again)
  PROVE  /\ RuntimesTyped'
         /\ \A i \in DOMAIN keys :
              again \/ keys[i] \notin Fig!Named(previous) \/ Fig!Waits(thread[g], keys[i])
                => Fig!Waits(thread'[g], keys[i])
<1> DEFINE t == thread[g]
           draw == Fig!Planned(keys, again)
           goes == IF t.at = "none" THEN "wait" ELSE t.at
           asked == [calls |-> keys, draw |-> draw]
           batches == IF draw = <<>> THEN t.batches ELSE Append(t.batches, asked)
           new == [t EXCEPT !.at = goes, !.batches = batches]
<1>1. t \in Fig!Thread /\ keys \in Seq(Name) /\ thread \in [Fig!Generation -> Fig!Thread]
  BY DEF RuntimesTyped, Settings
<1>2. /\ draw \in Seq(Name)
      /\ Fig!Named(draw) = Fig!Named(keys) \ (IF again THEN {} ELSE Fig!Named(previous))
  BY <1>1, PlannedAre
<1>3. thread' = [thread EXCEPT ![g] = new]
  <2>1. thread' = [thread EXCEPT ![g].at = IF @ = "none" THEN "wait" ELSE @,
                                 ![g].batches = IF draw = <<>> THEN @ ELSE Append(@, asked)]
    BY DEF Fig!Request
  <2> HIDE DEF draw, asked
  <2>2. thread' = [thread EXCEPT ![g] = new]
    BY <1>1, <2>1
  <2> QED BY <2>2
<1> HIDE DEF draw
<1>4. asked \in Fig!Batch /\ asked.calls = keys /\ asked.draw = draw
  BY <1>2 DEF Fig!Batch
<1> HIDE DEF asked
<1>5. t.batches \in Seq(Fig!Batch) /\ batches \in Seq(Fig!Batch)
  BY <1>1, <1>4, BatchesTyped
<1>6. /\ new.at = goes /\ new.batches = batches /\ new.pending = t.pending /\ new.todo = t.todo
      /\ new \in Fig!Thread
  <2> HIDE DEF batches
  <2>1. goes \in {"none", "wait", "preparing", "round", "drawing", "gone"}
    BY <1>1 DEF Fig!Thread
  <2> HIDE DEF goes
  <2>2. new.at = goes /\ new.batches = batches /\ new.pending = t.pending /\ new.todo = t.todo
    BY <1>1 DEF Fig!Thread
  <2>3. new \in Fig!Thread
    BY <1>1, <1>5, <2>1 DEF Fig!Thread
  <2> QED BY <2>2, <2>3
<1>7. goes \in {"round", "drawing"} <=> t.at \in {"round", "drawing"}
  OBVIOUS
<1>8. goes = "drawing" => t.at = "drawing"
  OBVIOUS
<1> HIDE DEF new, goes
<1>9. RuntimesTyped'
  <2>1. \A h \in Fig!Generation : thread'[h] = IF h = g THEN new ELSE thread[h]
    BY <1>1, <1>3
  <2>2. thread' \in [Fig!Generation -> Fig!Thread]
    BY <1>1, <1>3, <1>6
  <2> QED BY <1>6, <1>8, <2>1, <2>2 DEF RuntimesTyped
<1>10. ASSUME NEW i \in DOMAIN keys,
              again \/ keys[i] \notin Fig!Named(previous) \/ Fig!Waits(t, keys[i])
       PROVE  Fig!Waits(new, keys[i])
  <2> DEFINE k == keys[i]
             N == Len(t.batches)
  <2>1. k \in Fig!Named(keys)
    BY DEF Fig!Named
  <2>2. N \in Nat
    BY <1>1, BatchesTyped
  <2>3. CASE draw = <<>>
    <3>1. Fig!Named(draw) = {}
      BY <2>3 DEF Fig!Named
    <3>2. ~again /\ k \in Fig!Named(previous)
      BY <1>2, <2>1, <3>1
    <3>3. batches = t.batches
      BY <2>3
    <3> QED BY <1>1, <1>6, <1>7, <1>10, <3>2, <3>3, WaitsMeans DEF KeptBy
  <2>4. CASE draw # <<>>
    <3> DEFINE M == N + 1
    <3>1. /\ batches = Append(t.batches, asked) /\ Len(batches) = M /\ batches[M] = asked
          /\ \A c \in 1..N : batches[c] = t.batches[c]
      BY <1>5, <2>4
    <3> HIDE DEF batches, N, k
    <3>2. \A c \in 1..M : c = M \/ c \in 1..N
      BY <2>2
    <3>3. M \in 1..M /\ \A c \in 1..N : c \in 1..M /\ M > c
      BY <2>2
    <3>4. k \in Fig!Named(batches[M].calls)
      BY <1>4, <2>1, <3>1
    <3>5. CASE k \in Fig!Named(draw)
      <4>1. k \in Fig!Named(batches[M].draw)
        BY <1>4, <3>1, <3>5
      <4>2. \A c \in 1..M : ~(c > M)
        BY <2>2
      <4>3. KeptBy(new, M, k)
        BY <1>6, <3>3, <4>1, <4>2 DEF KeptBy
      <4> QED BY <1>6, <3>1, <4>3, WaitsMeans DEF k
    <3>6. CASE Fig!Waits(t, k)
      <4>1. CASE t.at \in {"round", "drawing"} /\ k \in Fig!Named(t.todo)
        BY <1>6, <1>7, <4>1, WaitsMeans DEF k
      <4>2. CASE KeptBy(t, N, k)
        <5>1. \A c \in 1..N : new.batches[c] = t.batches[c]
          BY <1>6, <3>1
        <5>2. k \in Fig!Named(new.batches[M].calls)
          BY <1>6, <3>4
        <5>3. CASE k \in Fig!Named(t.pending) /\ \A c \in 1..N : k \in Fig!Named(t.batches[c].calls)
          <6>1. \A c \in 1..M : k \in Fig!Named(new.batches[c].calls)
            BY <3>2, <5>1, <5>2, <5>3
          <6> QED BY <1>6, <3>1, <5>3, <6>1, WaitsMeans DEF KeptBy, k
        <5>4. ASSUME NEW b \in 1..N, k \in Fig!Named(t.batches[b].draw),
                     \A c \in 1..N : c > b => k \in Fig!Named(t.batches[c].calls)
              PROVE  Fig!Waits(new, k)
          <6>1. b \in 1..M /\ k \in Fig!Named(new.batches[b].draw)
            BY <3>3, <5>1, <5>4
          <6>2. \A c \in 1..M : c > b => k \in Fig!Named(new.batches[c].calls)
            BY <3>2, <5>1, <5>2, <5>4
          <6>3. KeptBy(new, M, k)
            BY <6>1, <6>2 DEF KeptBy
          <6> QED BY <1>6, <3>1, <6>3, WaitsMeans DEF k
        <5>5. Fig!Waits(new, k)
          BY <4>2, <5>3, <5>4 DEF KeptBy, k
        <5> QED BY <5>5 DEF k
      <4> QED BY <1>1, <3>6, <4>1, <4>2, WaitsMeans DEF N
    <3> QED BY <1>2, <1>10, <2>1, <3>5, <3>6 DEF k
  <2> QED BY <2>3, <2>4
<1> QED BY <1>1, <1>3, <1>9, <1>10

(* A frame takes the Picture of a key itself, if it is there.              *)
LEMMA StampTakesOwn ==
  ASSUME Settings, NEW keys \in Calls, NEW pics, NEW falls, NEW i \in DOMAIN keys,
         pics[keys[i]] # Blank
  PROVE  Fig!FrameStamp(keys, pics, falls)[i] = [key |-> keys[i], by |-> pics[keys[i]]]
<1>1. keys[i] # Blank
  BY DEF Settings
<1>2. Fig!Resolve(keys[i], pics, falls) = [key |-> keys[i], by |-> pics[keys[i]]]
  BY <1>1 DEF Fig!Resolve
<1> QED BY <1>2 DEF Fig!FrameStamp

(* A plan that asks for all that is not asked for yet leaves nothing out.  *)
LEMMA EvalKeepsRequests ==
  ASSUME Settings, RequestsInv, NEW keys \in Calls, Fig!Eval(keys)
  PROVE  RequestsInv'
<1>1. /\ ~spawning /\ calls' = keys /\ previous' = keys /\ Fig!Request(keys, generation, FALSE)
      /\ recorded' = Fig!FrameStamp(keys, entries, fallback')
      /\ UNCHANGED <<spawning, reloads, generation, drawn, entries, files, download, lost>>
  BY DEF Fig!Eval, Fig!Request, Fig!fetch
<1>2. /\ previous = calls /\ previous \in Calls \cup {<<>>} /\ RuntimesTyped
      /\ generation \in Nat /\ generation # 0 /\ Fig!Loads <= MaxLoads /\ reloads \in Nat
      /\ spawning \in BOOLEAN /\ download \in BOOLEAN
  BY <1>1 DEF RequestsInv, LoopTyped
<1>3. generation \in Fig!Generation /\ generation # Blank
  BY <1>2 DEF Fig!Loads, Fig!Generation, Settings
<1>4. /\ RuntimesTyped'
      /\ \A i \in DOMAIN keys :
           keys[i] \notin Fig!Named(previous) \/ Fig!Waits(thread[generation], keys[i])
             => Fig!Waits(thread'[generation], keys[i])
  <2> DEFINE again == FALSE
  <2>1. again \in BOOLEAN /\ Fig!Request(keys, generation, again)
    BY <1>1
  <2>2. /\ RuntimesTyped'
        /\ \A i \in DOMAIN keys :
             again \/ keys[i] \notin Fig!Named(previous) \/ Fig!Waits(thread[generation], keys[i])
               => Fig!Waits(thread'[generation], keys[i])
    <3> HIDE DEF again
    <3> QED BY <1>2, <1>3, <2>1, RequestAsks
  <2> QED BY <2>2
<1>5. DOMAIN recorded' = DOMAIN keys
  BY <1>1 DEF Fig!FrameStamp
<1>6. LoopTyped'
  BY <1>1, <1>2, <1>5 DEF LoopTyped, Fig!Loads
<1>7. NoneNewer'
  BY <1>1 DEF RequestsInv, NoneNewer
<1>8. FrameTakesNewest'
  <2> SUFFICES ASSUME NEW i \in DOMAIN keys, entries[keys[i]] = generation
               PROVE  recorded'[i] = [key |-> keys[i], by |-> generation]
    BY <1>1 DEF FrameTakesNewest
  <2> QED BY <1>1, <1>3, StampTakesOwn
<1>9. AllAsked'
  <2> SUFFICES ASSUME NEW i \in DOMAIN keys
               PROVE  \/ keys[i] \in lost \/ entries[keys[i]] = generation
                      \/ Fig!Waits(thread'[generation], keys[i])
                      \/ \E j \in DOMAIN drawn : drawn[j] = [by |-> generation, key |-> keys[i]]
    BY <1>1 DEF AllAsked, Asked, Fig!OnItsWay
  <2>1. CASE Fig!Waits(thread'[generation], keys[i])
    BY <2>1
  <2>2. CASE keys[i] \in Fig!Named(previous) /\ ~Fig!Waits(thread[generation], keys[i])
    <3>1. PICK j \in DOMAIN calls : calls[j] = keys[i]
      BY <1>2, <2>2 DEF Fig!Named
    <3>2. Asked(calls[j])
      BY <1>1 DEF RequestsInv, AllAsked
    <3> QED BY <2>2, <3>1, <3>2 DEF Asked, Fig!OnItsWay
  <2> QED BY <1>4, <2>1, <2>2
<1> QED BY <1>4, <1>6, <1>7, <1>8, <1>9 DEF RequestsInv

(* A new runtime is asked for everything.                                  *)
LEMMA SpawnKeepsRequests ==
  ASSUME Settings, RequestsInv, Fig!SpawnDrawRuntime
  PROVE  RequestsInv'
<1> DEFINE next == generation + 1
<1>1. /\ spawning /\ spawning' = FALSE /\ generation' = next /\ previous' = calls
      /\ Fig!Request(calls, next, TRUE)
      /\ UNCHANGED <<calls, reloads, drawn, entries, recorded, files, download>>
  BY DEF Fig!SpawnDrawRuntime, Fig!Request, Fig!fetch
<1>2. /\ previous \in Calls \cup {<<>>} /\ RuntimesTyped /\ calls \in Calls
      /\ DOMAIN recorded = DOMAIN calls
      /\ generation \in Nat /\ Fig!Loads <= MaxLoads /\ reloads \in Nat
      /\ spawning \in BOOLEAN /\ download \in BOOLEAN
  BY DEF RequestsInv, LoopTyped
<1>3. /\ next \in Fig!Generation /\ next \in Nat /\ next # 0 /\ next > generation
      /\ Fig!Loads' <= MaxLoads
  BY <1>1, <1>2 DEF Fig!Loads, Fig!Generation, Settings
<1> HIDE DEF next
<1>4. /\ RuntimesTyped'
      /\ \A i \in DOMAIN calls : Fig!Waits(thread'[next], calls[i])
  <2> DEFINE again == TRUE
  <2>1. again \in BOOLEAN /\ Fig!Request(calls, next, again)
    BY <1>1
  <2>2. /\ RuntimesTyped'
        /\ \A i \in DOMAIN calls :
             again \/ calls[i] \notin Fig!Named(previous) \/ Fig!Waits(thread[next], calls[i])
               => Fig!Waits(thread'[next], calls[i])
    <3> HIDE DEF again
    <3> QED BY <1>2, <1>3, <2>1, RequestAsks
  <2> QED BY <2>2
<1>5. LoopTyped'
  <2>1. spawning' \in BOOLEAN /\ download' \in BOOLEAN /\ previous' \in Calls \cup {<<>>}
    BY <1>1, <1>2, Zenon
  <2> QED BY <1>1, <1>2, <1>3, <2>1, Zenon DEF LoopTyped
<1>6. \A k \in Name : entries[k] # Blank => entries[k] <= generation /\ entries[k] \in Nat
  BY DEF RequestsInv, NoneNewer, Fig!Generation
<1>7. NoneNewer'
  <2>1. entries' \in [Name -> Fig!Generation \cup {Blank}]
    BY <1>1 DEF RequestsInv, NoneNewer
  <2>2. \A k \in Name : entries[k] # Blank => entries[k] <= next
    BY <1>2, <1>3, <1>6
  <2> QED BY <1>1, <2>1, <2>2 DEF NoneNewer
<1>8. \A i \in DOMAIN calls : entries[calls[i]] # next
  <2>1. next # Blank /\ \A i \in DOMAIN calls : calls[i] \in Name
    BY <1>2, <1>3 DEF Settings
  <2> QED BY <1>2, <1>3, <1>6, <2>1
<1>9. FrameTakesNewest'
  BY <1>1, <1>8 DEF FrameTakesNewest
<1>10. AllAsked'
  BY <1>1, <1>4 DEF AllAsked, Asked, Fig!OnItsWay
<1> QED BY <1>4, <1>5, <1>7, <1>9, <1>10 DEF RequestsInv

(* What is stored is kept as long as it is named.                          *)
LEMMA StoringAll ==
  ASSUME Settings, Listed, Fig!StoreDrawn, calls \in Calls, previous = calls,
         entries \in [Name -> Fig!Generation \cup {Blank}], generation \in Fig!Generation
  PROVE  /\ \/ UNCHANGED <<entries, recorded>>
            \/ recorded' = Fig!FrameStamp(calls, entries', fallback')
         /\ entries' \in [Name -> Fig!Generation \cup {Blank}]
         /\ \A k \in Name : entries'[k] \in {entries[k], Blank, generation}
         /\ \A i \in DOMAIN calls :
              \/ entries[calls[i]] = generation
              \/ \E j \in DOMAIN drawn : drawn[j] = [by |-> generation, key |-> calls[i]]
              => entries'[calls[i]] = generation
<1> DEFINE arrived == {i \in DOMAIN drawn : Fig!CurrentOnly(drawn[i])}
           last(k) == CHOOSE i \in arrived :
                        drawn[i].key = k /\ \A j \in arrived : drawn[j].key = k => j <= i
           set == {drawn[i].key : i \in arrived}
           pics == [k \in Name |-> IF k \in set THEN drawn[last(k)].by ELSE entries[k]]
           falls == [k \in Name |-> IF k \in set THEN Blank ELSE fallback[k]]
           named == Fig!Named(previous)
<1>1. \A k \in Name : k \in set => pics[k] = generation
  <2> SUFFICES ASSUME NEW k \in Name, k \in set PROVE drawn[last(k)].by = generation
    OBVIOUS
  <2> DEFINE of == {i \in arrived : drawn[i].key = k}
  <2>1. of \subseteq 1..Len(drawn) /\ Len(drawn) \in Nat /\ of # {}
    BY DEF Listed
  <2>2. PICK m \in of : \A x \in of : x <= m
    BY <2>1, Largest
  <2>3. last(k) \in arrived
    BY <2>2
  <2> QED BY <2>3 DEF Fig!CurrentOnly
<1>2. \A k \in Name : k \notin set => pics[k] = entries[k]
  OBVIOUS
<1>3. \A k \in Name : entries'[k] \in {entries[k], Blank, generation}
  BY Storing
<1>4. \A i \in DOMAIN calls : calls[i] \in named /\ calls[i] \in Name
  BY DEF Fig!Named, Settings
<1>5. \A j \in DOMAIN drawn : \A k :
        drawn[j] = [by |-> generation, key |-> k] => k \in set /\ arrived # {}
  <2> SUFFICES ASSUME NEW j \in DOMAIN drawn, NEW k, drawn[j] = [by |-> generation, key |-> k]
               PROVE  j \in arrived /\ drawn[j].key = k
    OBVIOUS
  <2> QED BY DEF Fig!CurrentOnly
<1>6. CASE arrived = {}
  <2>1. UNCHANGED <<entries, recorded>>
    BY <1>6 DEF Fig!StoreDrawn, Fig!pictures
  <2> QED BY <1>3, <1>5, <1>6, <2>1
<1>7. CASE arrived # {}
  <2> DEFINE kept == [k \in Name |-> IF k \in named THEN falls[k] ELSE Blank]
             lent == {kept[k] : k \in Name}
  <2>1. /\ entries' = [k \in Name |-> IF k \in named \cup lent THEN pics[k] ELSE Blank]
        /\ recorded' = Fig!FrameStamp(calls, entries', fallback')
    BY <1>7 DEF Fig!StoreDrawn, Fig!Retain
  <2> HIDE DEF pics, falls, set, arrived, kept, lent, named
  <2>2. \A i \in DOMAIN calls : entries'[calls[i]] = pics[calls[i]]
    BY <1>4, <2>1
  <2>3. \A i \in DOMAIN calls :
          \/ entries[calls[i]] = generation
          \/ \E j \in DOMAIN drawn : drawn[j] = [by |-> generation, key |-> calls[i]]
          => entries'[calls[i]] = generation
    BY <1>1, <1>2, <1>4, <1>5, <2>2
  <2>4. entries' \in [Name -> Fig!Generation \cup {Blank}]
    <3>1. \A k \in Name : entries'[k] \in Fig!Generation \cup {Blank}
      BY <1>3
    <3>2. entries' = [k \in Name |-> entries'[k]]
      BY <2>1
    <3> QED BY <3>1, <3>2
  <2> QED BY <1>3, <2>1, <2>3, <2>4
<1> QED BY <1>6, <1>7

LEMMA StoringKeepsRequests ==
  ASSUME Settings, Listed, RequestsInv, Fig!StoreDrawn
  PROVE  RequestsInv'
<1>1. /\ ~spawning /\ UNCHANGED <<calls, spawning, reloads, previous, generation, thread, files, download, lost>>
  BY DEF Fig!StoreDrawn, Fig!requests, Fig!fetch
<1>2. /\ calls \in Calls /\ previous = calls /\ DOMAIN recorded = DOMAIN calls
      /\ generation \in Nat /\ generation # 0 /\ Fig!Loads <= MaxLoads /\ reloads \in Nat
      /\ entries \in [Name -> Fig!Generation \cup {Blank}]
      /\ \A k \in Name : entries[k] # Blank => entries[k] <= generation
  BY <1>1 DEF RequestsInv, LoopTyped, NoneNewer
<1>3. generation \in Fig!Generation /\ generation # Blank
  BY <1>2 DEF Fig!Loads, Fig!Generation, Settings
<1>4. /\ \/ UNCHANGED <<entries, recorded>>
         \/ recorded' = Fig!FrameStamp(calls, entries', fallback')
      /\ entries' \in [Name -> Fig!Generation \cup {Blank}]
      /\ \A k \in Name : entries'[k] \in {entries[k], Blank, generation}
      /\ \A i \in DOMAIN calls :
           \/ entries[calls[i]] = generation
           \/ \E j \in DOMAIN drawn : drawn[j] = [by |-> generation, key |-> calls[i]]
           => entries'[calls[i]] = generation
  BY <1>2, <1>3, StoringAll
<1>5. DOMAIN recorded' = DOMAIN calls
  BY <1>2, <1>4 DEF Fig!FrameStamp
<1>6. LoopTyped'
  BY <1>1, <1>5 DEF RequestsInv, LoopTyped, Fig!Loads
<1>7. RuntimesTyped'
  BY <1>1 DEF RequestsInv, RuntimesTyped
<1>8. NoneNewer'
  BY <1>1, <1>2, <1>4 DEF NoneNewer
<1>9. FrameTakesNewest'
  <2> SUFFICES ASSUME NEW i \in DOMAIN calls, entries'[calls[i]] = generation
               PROVE  recorded'[i] = [key |-> calls[i], by |-> generation]
    BY <1>1 DEF FrameTakesNewest
  <2>1. CASE UNCHANGED <<entries, recorded>>
    BY <1>1, <2>1 DEF RequestsInv, FrameTakesNewest
  <2>2. CASE recorded' = Fig!FrameStamp(calls, entries', fallback')
    BY <1>2, <1>3, <2>2, StampTakesOwn
  <2> QED BY <1>4, <2>1, <2>2
<1>10. AllAsked'
  <2> SUFFICES ASSUME NEW i \in DOMAIN calls
               PROVE  calls[i] \in lost \/ entries'[calls[i]] = generation \/ Fig!Waits(thread[generation], calls[i])
    BY <1>1 DEF AllAsked, Asked, Fig!OnItsWay
  <2>1. Asked(calls[i])
    BY <1>1 DEF RequestsInv, AllAsked
  <2> QED BY <1>4, <2>1 DEF Asked, Fig!OnItsWay
<1> QED BY <1>6, <1>7, <1>8, <1>9, <1>10 DEF RequestsInv

(* Steps that ask for nothing, between loads or in one.                    *)
LEMMA OthersKeepRequests ==
  ASSUME RequestsInv, UNCHANGED <<calls, previous, thread, drawn, entries, recorded, spawning,
                                  generation, lost>>,
         reloads' \in Nat, download' \in BOOLEAN, Fig!Loads' <= MaxLoads
  PROVE  RequestsInv'
<1>1. LoopTyped'
  BY DEF RequestsInv, LoopTyped
<1>2. RuntimesTyped' /\ NoneNewer' /\ FrameTakesNewest'
  BY DEF RequestsInv, RuntimesTyped, NoneNewer, FrameTakesNewest
<1>3. AllAsked'
  BY DEF RequestsInv, AllAsked, Asked, Fig!OnItsWay
<1> QED BY <1>1, <1>2, <1>3 DEF RequestsInv

LEMMA RequestsStep ==
  ASSUME Settings, Listed, RequestsInv, [Fig!Next]_Fig!vars
  PROVE  RequestsInv'
<1>0. /\ generation \in Nat /\ reloads \in Nat /\ MaxLoads \in Nat /\ Fig!Loads <= MaxLoads
      /\ download \in BOOLEAN /\ spawning \in BOOLEAN
  BY DEF RequestsInv, LoopTyped, Settings
<1>1. CASE UNCHANGED Fig!vars
  BY <1>0, <1>1, OthersKeepRequests DEF Fig!vars, Fig!requests, Fig!pictures, Fig!fetch, Fig!Loads
<1>2. ASSUME NEW keys \in Calls, Fig!Eval(keys) PROVE RequestsInv'
  BY <1>2, EvalKeepsRequests
<1>3. ASSUME NEW keys \in Calls, Fig!Reload(keys) PROVE RequestsInv'
  <2>1. /\ ~spawning /\ spawning' = TRUE /\ calls' = keys
        /\ recorded' = Fig!FrameStamp(keys, entries, fallback)
        /\ reloads > 0 /\ reloads' = reloads - 1
        /\ UNCHANGED <<previous, entries, generation, thread, download, files>>
    BY <1>3 DEF Fig!Reload, Fig!fetch
  <2>2. Fig!Loads' <= MaxLoads /\ reloads' \in Nat
    BY <1>0, <2>1 DEF Fig!Loads
  <2>3. DOMAIN recorded' = DOMAIN keys
    BY <2>1 DEF Fig!FrameStamp
  <2>4. LoopTyped'
    BY <1>0, <2>1, <2>2, <2>3 DEF RequestsInv, LoopTyped
  <2>5. RuntimesTyped' /\ NoneNewer'
    BY <2>1 DEF RequestsInv, RuntimesTyped, NoneNewer
  <2>6. FrameTakesNewest' /\ AllAsked'
    BY <2>1 DEF FrameTakesNewest, AllAsked
  <2> QED BY <2>4, <2>5, <2>6 DEF RequestsInv
<1>4. CASE Fig!SpawnDrawRuntime
  BY <1>4, SpawnKeepsRequests
<1>5. CASE Fig!StoreDrawn
  BY <1>5, StoringKeepsRequests
<1>6. CASE Fig!Save
  BY <1>0, <1>6, OthersKeepRequests DEF Fig!Save, Fig!Loads, Fig!pictures, Fig!fetch
<1>7. CASE Fig!KeepLayout
  BY <1>0, <1>7, OthersKeepRequests DEF Fig!KeepLayout, Fig!Loads, Fig!pictures, Fig!fetch
<1>8. ASSUME NEW g \in Fig!Generation, Fig!Run(g) \/ Fig!HoldPasses(g) \/ Fig!Fault(g)
      PROVE  RequestsInv'
  BY <1>8, RunnerKeepsRequests
<1>9. CASE Fig!Fetch \/ Fig!DownloadFails \/ Fig!BackoffPasses
  <2>1. UNCHANGED <<calls, previous, thread, drawn, entries, recorded, spawning, generation, lost>>
    BY <1>9 DEF Fig!Fetch, Fig!Download, Fig!DownloadDone, Fig!DownloadFails, Fig!BackoffPasses,
       Fig!others, Fig!pictures
  <2>2. CASE \E a \in Asset : Fig!Download(a)
    <3>1. download /\ UNCHANGED <<reloads, download>>
      BY <2>2 DEF Fig!Download
    <3>2. Fig!Loads' = Fig!Loads
      BY <2>1, <3>1 DEF Fig!Loads
    <3> QED BY <1>0, <2>1, <3>1, <3>2, OthersKeepRequests
  <2>3. CASE Fig!DownloadDone
    <3>1. download /\ download' = FALSE /\ reloads' = reloads + 1 /\ files' = Asset
      BY <2>3 DEF Fig!DownloadDone, Fig!others
    <3>2. Fig!Loads' <= MaxLoads /\ reloads' \in Nat
      BY <1>0, <2>1, <3>1 DEF Fig!Loads
    <3>3. download' \in BOOLEAN
      BY <3>1, Zenon
    <3> QED BY <2>1, <3>2, <3>3, OthersKeepRequests
  <2>4. CASE Fig!DownloadFails \/ Fig!BackoffPasses
    <3>1. (download' = FALSE \/ download' = download) /\ UNCHANGED <<reloads, files>>
      BY <2>4 DEF Fig!DownloadFails, Fig!BackoffPasses, Fig!others
    <3>2. Fig!Loads' <= MaxLoads /\ reloads' \in Nat
      BY <1>0, <2>1, <3>1 DEF Fig!Loads
    <3>3. download' \in BOOLEAN
      BY <1>0, <3>1, Zenon
    <3> QED BY <2>1, <3>2, <3>3, OthersKeepRequests
  <2> QED BY <1>9, <2>2, <2>3, <2>4 DEF Fig!Fetch
<1> QED BY <1>1, <1>2, <1>3, <1>4, <1>5, <1>6, <1>7, <1>8, <1>9 DEF Fig!Next, Fig!TheLoop

(* What is on screen has been drawn by the layout in use, or is going to   *)
(* be: a key is requested once, and no batch, failed round, wait for the   *)
(* libraries, reload or store loses it, for any figures (Structured or     *)
(* not), keys, evals, files and loads.                                     *)
THEOREM RequestsAreKept == ASSUME Settings PROVE Fig!Spec => []Fig!NoDrawingIsLost
<1>1. Fig!Init => RequestsInv
  <2> SUFFICES ASSUME Fig!Init PROVE RequestsInv
    OBVIOUS
  <2>1. /\ calls \in Calls /\ spawning = TRUE /\ reloads = 0 /\ previous = <<>> /\ generation = 0
        /\ entries = [k \in Name |-> Blank] /\ thread = [g \in Fig!Generation |-> Fig!NoThread]
        /\ recorded = [i \in DOMAIN calls |-> Blank] /\ download = FALSE
    BY DEF Fig!Init
  <2>2. Fig!Loads <= MaxLoads
    BY <2>1 DEF Settings, Fig!Loads
  <2>3. LoopTyped
    BY <2>1, <2>2 DEF LoopTyped
  <2>4. Fig!NoThread \in Fig!Thread /\ Fig!NoThread.at = "none"
    <3>1. <<>> \in Seq(Name) /\ <<>> \in Seq(Fig!Batch)
      OBVIOUS
    <3> QED BY <3>1 DEF Fig!NoThread, Fig!Thread
  <2>5. RuntimesTyped
    BY <2>1, <2>4 DEF RuntimesTyped
  <2> QED BY <2>1, <2>3, <2>5 DEF RequestsInv, NoneNewer, FrameTakesNewest, AllAsked
<1>2. Listed /\ RequestsInv /\ [Fig!Next]_Fig!vars => RequestsInv'
  BY RequestsStep
<1>3. RequestsInv => Fig!NoDrawingIsLost
  BY DEF RequestsInv, AllAsked, Asked, FrameTakesNewest, Fig!NoDrawingIsLost
<1> QED BY <1>1, <1>2, <1>3, ListedHolds, PTL DEF Fig!Spec

-----------------------------------------------------------------------------
(* Intents, with names of its own for what the Loop names too: a Control   *)
(* is an element of its.                                                   *)
CONSTANTS Control, Click, Drag, ChannelOf, Position, MaxPresses, MaxUnprompted, SlowPass
VARIABLES pass, capture, busy, waiting, working, lines, newest

Box == INSTANCE Intents WITH Element <- Control

-----------------------------------------------------------------------------
(* Queues.                                                                 *)
LEMMA AppendToBoth ==
  ASSUME NEW S, NEW s \in Seq(S), NEW t \in Seq(S), NEW e \in S
  PROVE  s \o Append(t, e) = Append(s \o t, e)
OBVIOUS

(* The oldest of two queues in a row is that of the first, unless empty.   *)
LEMMA TailOfBoth ==
  ASSUME NEW S, NEW s \in Seq(S), NEW t \in Seq(S), s # <<>>
  PROVE  /\ Tail(s) \o t = Tail(s \o t) /\ Head(s \o t) = Head(s) /\ s \o t # <<>>
OBVIOUS

(* What one queue hands to the one before it changes neither in a row.     *)
LEMMA MoveAcross ==
  ASSUME NEW S, NEW s \in Seq(S), NEW t \in Seq(S), t # <<>>
  PROVE  Append(s, Head(t)) \o Tail(t) = s \o t
OBVIOUS

(* The presses among events, and among what is written.                    *)
Nths(s) == {s[i].nth : i \in {i \in DOMAIN s : s[i].phase = "press"}}
Rising(s) ==
  \A i, j \in DOMAIN s : i < j /\ s[i].phase = "press" /\ s[j].phase = "press" => s[i].nth < s[j].nth

FiredBy(s) == {s[i].press : i \in {i \in DOMAIN s : s[i].press # 0}}
NotFalling(s) ==
  \A i, j \in DOMAIN s : i < j /\ s[i].press # 0 /\ s[j].press # 0 => s[i].press <= s[j].press

NthOf(e) == IF e.phase = "press" THEN {e.nth} ELSE {}
FiredOf(i) == {i.press} \ {0}

(* The presses of a queue with one more event,                             *)
LEMMA OneMoreEvent ==
  ASSUME NEW S, NEW s \in Seq(S), NEW e \in S
  PROVE  /\ Nths(Append(s, e)) = Nths(s) \cup NthOf(e)
         /\ Rising(s) /\ (\A m \in Nths(s), n \in NthOf(e) : m < n) => Rising(Append(s, e))
<1>1. /\ DOMAIN Append(s, e) = 1..(Len(s) + 1) /\ Len(s) \in Nat /\ DOMAIN s = 1..Len(s)
      /\ Append(s, e)[Len(s) + 1] = e
      /\ \A i \in 1..Len(s) : Append(s, e)[i] = s[i]
  OBVIOUS
<1>2. Nths(Append(s, e)) = Nths(s) \cup NthOf(e)
  BY <1>1 DEF Nths, NthOf
<1>3. ASSUME Rising(s), \A m \in Nths(s), n \in NthOf(e) : m < n PROVE Rising(Append(s, e))
  <2> SUFFICES ASSUME NEW i \in 1..(Len(s) + 1), NEW j \in 1..(Len(s) + 1), i < j,
                      Append(s, e)[i].phase = "press", Append(s, e)[j].phase = "press"
               PROVE  Append(s, e)[i].nth < Append(s, e)[j].nth
    BY <1>1 DEF Rising
  <2>1. i \in 1..Len(s) /\ Append(s, e)[i] = s[i]
    BY <1>1
  <2>2. CASE j = Len(s) + 1
    BY <1>1, <1>3, <2>1, <2>2 DEF Nths, NthOf
  <2>3. CASE j \in 1..Len(s)
    BY <1>1, <1>3, <2>1, <2>3 DEF Rising
  <2> QED BY <1>1, <2>2, <2>3
<1> QED BY <1>2, <1>3

(* those that fired what is written, with one more intent,                 *)
LEMMA OneMoreIntent ==
  ASSUME NEW S, NEW s \in Seq(S), NEW e \in S
  PROVE  /\ FiredBy(Append(s, e)) = FiredBy(s) \cup FiredOf(e)
         /\ NotFalling(s) /\ (\A m \in FiredBy(s), n \in FiredOf(e) : m <= n) => NotFalling(Append(s, e))
<1>1. /\ DOMAIN Append(s, e) = 1..(Len(s) + 1) /\ Len(s) \in Nat /\ DOMAIN s = 1..Len(s)
      /\ Append(s, e)[Len(s) + 1] = e
      /\ \A i \in 1..Len(s) : Append(s, e)[i] = s[i]
  OBVIOUS
<1>2. FiredBy(Append(s, e)) = FiredBy(s) \cup FiredOf(e)
  BY <1>1 DEF FiredBy, FiredOf
<1>3. ASSUME NotFalling(s), \A m \in FiredBy(s), n \in FiredOf(e) : m <= n PROVE NotFalling(Append(s, e))
  <2> SUFFICES ASSUME NEW i \in 1..(Len(s) + 1), NEW j \in 1..(Len(s) + 1), i < j,
                      Append(s, e)[i].press # 0, Append(s, e)[j].press # 0
               PROVE  Append(s, e)[i].press <= Append(s, e)[j].press
    BY <1>1 DEF NotFalling
  <2>1. i \in 1..Len(s) /\ Append(s, e)[i] = s[i]
    BY <1>1
  <2>2. CASE j = Len(s) + 1
    BY <1>1, <1>3, <2>1, <2>2 DEF FiredBy, FiredOf
  <2>3. CASE j \in 1..Len(s)
    BY <1>1, <1>3, <2>1, <2>3 DEF NotFalling
  <2> QED BY <1>1, <2>2, <2>3
<1> QED BY <1>2, <1>3

(* and the presses of a queue that has lost its oldest event.              *)
LEMMA OneEventLess ==
  ASSUME NEW S, NEW s \in Seq(S), s # <<>>
  PROVE  /\ Nths(s) = Nths(Tail(s)) \cup NthOf(Head(s))
         /\ Rising(s) => /\ Rising(Tail(s))
                         /\ \A m \in NthOf(Head(s)), n \in Nths(Tail(s)) : m < n
<1>1. /\ DOMAIN s = 1..Len(s) /\ Len(s) \in Nat \ {0} /\ DOMAIN Tail(s) = 1..(Len(s) - 1)
      /\ Head(s) = s[1]
      /\ \A i \in 1..(Len(s) - 1) : Tail(s)[i] = s[i + 1]
  OBVIOUS
<1>2. \A i \in 1..Len(s) : i = 1 \/ (i - 1 \in 1..(Len(s) - 1) /\ (i - 1) + 1 = i)
  BY <1>1
<1>3. \A i \in 1..(Len(s) - 1) : i + 1 \in 1..Len(s) /\ 1 < i + 1
  BY <1>1
<1>4. 1 \in 1..Len(s)
  BY <1>1
<1>5. Nths(s) = Nths(Tail(s)) \cup NthOf(Head(s))
  <2>1. ASSUME NEW n \in Nths(s) PROVE n \in Nths(Tail(s)) \cup NthOf(Head(s))
    <3>1. PICK i \in 1..Len(s) : s[i].phase = "press" /\ n = s[i].nth
      BY <1>1 DEF Nths
    <3>2. CASE i = 1
      BY <1>1, <3>1, <3>2 DEF NthOf
    <3>3. CASE i # 1
      <4>1. i - 1 \in DOMAIN Tail(s) /\ Tail(s)[i - 1] = s[i]
        BY <1>1, <1>2, <3>3
      <4> QED BY <3>1, <4>1 DEF Nths
    <3> QED BY <3>2, <3>3
  <2>2. Nths(Tail(s)) \subseteq Nths(s)
    BY <1>1, <1>3 DEF Nths
  <2>3. NthOf(Head(s)) \subseteq Nths(s)
    BY <1>1, <1>4 DEF Nths, NthOf
  <2> QED BY <2>1, <2>2, <2>3
<1>6. ASSUME Rising(s) PROVE Rising(Tail(s)) /\ \A m \in NthOf(Head(s)), n \in Nths(Tail(s)) : m < n
  <2>1. Rising(Tail(s))
    BY <1>1, <1>3, <1>6 DEF Rising
  <2>2. \A m \in NthOf(Head(s)), n \in Nths(Tail(s)) : m < n
    BY <1>1, <1>3, <1>4, <1>6 DEF Rising, Nths, NthOf
  <2> QED BY <2>1, <2>2
<1> QED BY <1>5, <1>6

(* A number up to n is n or one before it.                                 *)
LEMMA LastOrBefore == \A n \in Nat \ {0} : \A i \in 1..n : i = n \/ i \in 1..(n - 1)
OBVIOUS

(* Nor are the presses others without a last event that is not one.        *)
LEMMA WithoutTheLast ==
  ASSUME NEW S, NEW s \in Seq(S), s # <<>>, Box!Last(s).phase # "press"
  PROVE  /\ Box!Front(s) \in Seq(S)
         /\ Nths(Box!Front(s)) = Nths(s) /\ (Rising(s) => Rising(Box!Front(s)))
<1>1. /\ DOMAIN s = 1..Len(s) /\ Len(s) \in Nat \ {0}
  OBVIOUS
<1> DEFINE t == SubSeq(s, 1, Len(s) - 1)
<1>0. Box!Front(s) = t
  BY DEF Box!Front
<1>2. /\ t \in Seq(S) /\ DOMAIN t = 1..(Len(s) - 1)
      /\ \A i \in 1..(Len(s) - 1) : t[i] = s[i]
  <2>1. \A i \in 1..(Len(s) - 1) : s[i] \in S
    OBVIOUS
  <2>2. /\ t \in Seq(S) /\ Len(t) = IF 1 <= Len(s) - 1 THEN (Len(s) - 1) - 1 + 1 ELSE 0
        /\ \A i \in 1..((Len(s) - 1) - 1 + 1) : t[i] = s[1 + i - 1]
    BY <1>1, <2>1, SubSeqProperties
  <2>3. Len(t) = Len(s) - 1 /\ \A i \in 1..(Len(s) - 1) : t[i] = s[i]
    BY <1>1, <2>2
  <2> QED BY <2>2, <2>3
<1>3. \A i \in DOMAIN s : s[i].phase = "press" => i \in DOMAIN t
  <2>1. s[Len(s)].phase # "press"
    BY Zenon DEF Box!Last
  <2>3. \A i \in 1..Len(s) : i = Len(s) \/ i \in 1..(Len(s) - 1)
    BY <1>1, LastOrBefore, Zenon
  <2> HIDE DEF t
  <2> QED BY <1>1, <1>2, <2>1, <2>3
<1>4. DOMAIN t \subseteq DOMAIN s /\ \A i \in DOMAIN t : t[i] = s[i]
  BY <1>1, <1>2
<1> HIDE DEF t
<1>5. Nths(t) = Nths(s)
  BY <1>3, <1>4 DEF Nths
<1>6. Rising(s) => Rising(t)
  BY <1>3, <1>4 DEF Rising
<1> QED BY <1>0, <1>2, <1>5, <1>6, Zenon
-----------------------------------------------------------------------------
(* Compressing the motions of a batch loses no press.                      *)
Compressed(out, e) ==
  Append(IF e.phase = "move" /\ out # <<>> /\ Box!Last(out).phase = "move"
           THEN Box!Front(out) ELSE out, e)

Compresses(f, s) ==
  /\ Box!Compress(s) = f[Len(s)] /\ f[0] = <<>>
  /\ \A n \in 1..Len(s) : f[n] = Compressed(f[n - 1], s[n])

(* One step of it loses no press: what it drops is a motion.               *)
LEMMA CompressedTyped ==
  ASSUME NEW out \in Seq(Box!Event), NEW e \in Box!Event
  PROVE  /\ Compressed(out, e) \in Seq(Box!Event)
         /\ Nths(Compressed(out, e)) = Nths(out) \cup NthOf(e)
         /\ Rising(out) /\ (\A m \in Nths(out), n \in NthOf(e) : m < n) => Rising(Compressed(out, e))
<1> HIDE DEF Box!Event
<1>1. CASE e.phase = "move" /\ out # <<>> /\ Box!Last(out).phase = "move"
  <2>1. /\ Box!Front(out) \in Seq(Box!Event)
        /\ Nths(Box!Front(out)) = Nths(out) /\ (Rising(out) => Rising(Box!Front(out)))
    BY <1>1, WithoutTheLast
  <2>2. Compressed(out, e) = Append(Box!Front(out), e)
    BY <1>1 DEF Compressed
  <2>3. Append(Box!Front(out), e) \in Seq(Box!Event)
    BY <2>1
  <2> QED BY <2>1, <2>2, <2>3, OneMoreEvent
<1>2. CASE ~(e.phase = "move" /\ out # <<>> /\ Box!Last(out).phase = "move")
  <2>1. Compressed(out, e) = Append(out, e)
    BY <1>2 DEF Compressed
  <2>2. Append(out, e) \in Seq(Box!Event)
    OBVIOUS
  <2> QED BY <2>1, <2>2, OneMoreEvent
<1> QED BY <1>1, <1>2

(* Compressing comes down to such steps, one for each event.               *)
LEMMA CompressUnfolds ==
  ASSUME NEW s \in Seq(Box!Event)
  PROVE  \E f \in [0..Len(s) -> Seq(Box!Event)] : Compresses(f, s)
<1> DEFINE N == Len(s)
           Queues == Seq(Box!Event)
           step == [n \in 1..N |-> [out \in Queues |-> Compressed(out, s[n])]]
<1>0. N \in Nat /\ DOMAIN s = 1..N /\ <<>> \in Queues /\ \A n \in 1..N : s[n] \in Box!Event
  OBVIOUS
<1>1. /\ step \in [1..N -> [Queues -> Queues]]
      /\ \A n \in 1..N, out \in Queues : step[n][out] = Compressed(out, s[n])
  <2>1. \A n \in 1..N, out \in Queues : Compressed(out, s[n]) \in Queues
    BY <1>0, CompressedTyped
  <2> HIDE DEF Queues
  <2> QED BY <2>1
<1> HIDE DEF step
<1>2. PICK h \in [0..N -> Queues] :
        h[0] = <<>> /\ \A n \in 1..N : h[n] = step[n][h[n - 1]]
  <2> HIDE DEF N, Queues
  <2>1. \E h \in [0..N -> Queues] : Unfolds(h, N, <<>>, step)
    BY <1>0, <1>1, Unfolding
  <2> QED BY <2>1 DEF Unfolds
<1> DEFINE Obeys(f) ==
      f = [n \in 0..N |->
             IF n = 0 THEN <<>>
             ELSE Append(IF /\ s[n].phase = "move"
                            /\ f[n - 1] # <<>> /\ Box!Last(f[n - 1]).phase = "move"
                           THEN Box!Front(f[n - 1]) ELSE f[n - 1],
                         s[n])]
           g == CHOOSE f : Obeys(f)
<1>3. /\ Obeys(h)
      /\ \A n \in 1..N : h[n] = Compressed(h[n - 1], s[n])
  <2>1. \A n \in 1..N : h[n] = Compressed(h[n - 1], s[n])
    <3>1. \A n \in 1..N : n - 1 \in 0..N
      BY <1>0
    <3> HIDE DEF Queues
    <3> QED BY <1>1, <1>2, <3>1
  <2>2. h[0] = <<>> /\ h = [n \in 0..N |-> h[n]] /\ \A n \in 0..N : n # 0 => n \in 1..N
    BY <1>0, <1>2
  <2>3. \A n \in 0..N :
          h[n] = IF n = 0 THEN <<>>
                 ELSE Append(IF /\ s[n].phase = "move"
                                /\ h[n - 1] # <<>> /\ Box!Last(h[n - 1]).phase = "move"
                               THEN Box!Front(h[n - 1]) ELSE h[n - 1],
                             s[n])
    BY <2>1, <2>2 DEF Compressed
  <2> QED BY <2>1, <2>2, <2>3
<1>4. Obeys(g)
  <2> HIDE DEF Obeys
  <2> QED BY <1>3
<1>5. Box!Compress(s) = g[N]
  BY DEF Box!Compress
<1> HIDE DEF g
<1>6. /\ g[0] = <<>> /\ g = [n \in 0..N |-> g[n]]
      /\ \A n \in 1..N : g[n] = Compressed(g[n - 1], s[n])
  <2>1. g = [n \in 0..N |->
               IF n = 0 THEN <<>>
               ELSE Append(IF /\ s[n].phase = "move"
                              /\ g[n - 1] # <<>> /\ Box!Last(g[n - 1]).phase = "move"
                             THEN Box!Front(g[n - 1]) ELSE g[n - 1],
                           s[n])]
    BY <1>4
  <2> HIDE DEF N
  <2>2. g = [n \in 0..N |-> g[n]]
    BY <2>1, Zenon
  <2>3. 0 \in 0..N /\ \A n \in 1..N : n \in 0..N /\ n # 0
    BY <1>0
  <2>4. g[0] = <<>>
    BY <2>1, <2>3, Zenon
  <2>5. \A n \in 1..N : g[n] = Compressed(g[n - 1], s[n])
    BY <2>1, <2>3, Zenon DEF Compressed
  <2> QED BY <2>2, <2>4, <2>5
<1>7. g = h
  <2> DEFINE S == {n \in 0..N : g[n] = h[n]}
  <2>1. 0 \in S
    BY <1>0, <1>2, <1>6
  <2>2. \A n \in 0..(N - 1) : n \in S => n + 1 \in S
    <3> SUFFICES ASSUME NEW n \in 0..(N - 1), n \in S PROVE n + 1 \in S
      OBVIOUS
    <3>1. n + 1 \in 1..N /\ n + 1 \in 0..N /\ (n + 1) - 1 = n
      BY <1>0
    <3>2. g[n + 1] = Compressed(g[n], s[n + 1]) /\ h[n + 1] = Compressed(h[n], s[n + 1])
      BY <1>3, <1>6, <3>1
    <3> QED BY <3>1, <3>2
  <2>3. 0..N \subseteq S
    <3> HIDE DEF S, N
    <3> QED BY <1>0, <2>1, <2>2, Counting
  <2>4. \A n \in 0..N : g[n] = h[n]
    BY <2>3
  <2>5. h = [n \in 0..N |-> h[n]]
    BY <1>2
  <2> QED BY <1>6, <2>4, <2>5
<1>8. Compresses(h, s)
  BY <1>2, <1>3, <1>5, <1>7 DEF Compresses
<1> QED BY <1>8

(* What it leaves is a queue of events,                                    *)
LEMMA Shortened ==
  ASSUME NEW s \in Seq(Box!Event)
  PROVE  Box!Compress(s) \in Seq(Box!Event)
BY CompressUnfolds DEF Compresses

(* with the same presses, in the same order.                               *)
LEMMA Compressing ==
  ASSUME NEW s \in Seq(Box!Event), Rising(s)
  PROVE  /\ Nths(Box!Compress(s)) = Nths(s) /\ Rising(Box!Compress(s))
<1> DEFINE N == Len(s)
           Before(n) == {s[i].nth : i \in {i \in 1..n : s[i].phase = "press"}}
<1>1. PICK f \in [0..N -> Seq(Box!Event)] :
        /\ Box!Compress(s) = f[N] /\ f[0] = <<>>
        /\ \A n \in 1..N : f[n] = Compressed(f[n - 1], s[n])
  BY CompressUnfolds DEF Compresses
<1>2. N \in Nat /\ DOMAIN s = 1..N /\ \A n \in 1..N : s[n] \in Box!Event
  OBVIOUS
<1> DEFINE S == {n \in 0..N : Nths(f[n]) = Before(n) /\ Rising(f[n])}
<1>3. 0 \in S
  <2>1. 1..0 = {} /\ DOMAIN f[0] = {} /\ 0 \in 0..N
    BY <1>1, <1>2
  <2>2. Nths(f[0]) = {} /\ Rising(f[0]) /\ Before(0) = {}
    BY <2>1 DEF Nths, Rising
  <2> QED BY <2>1, <2>2
<1>4. \A n \in 0..(N - 1) : n \in S => n + 1 \in S
  <2> SUFFICES ASSUME NEW n \in 0..(N - 1), n \in S PROVE n + 1 \in S
    OBVIOUS
  <2>1. n + 1 \in 1..N /\ n + 1 \in 0..N /\ (n + 1) - 1 = n /\ n \in 0..N
    BY <1>2
  <2>2. f[n] \in Seq(Box!Event) /\ f[n + 1] = Compressed(f[n], s[n + 1]) /\ s[n + 1] \in Box!Event
    BY <1>1, <1>2, <2>1
  <2>3. Nths(f[n]) = Before(n) /\ Rising(f[n])
    OBVIOUS
  <2>4. \A i \in 1..(n + 1) : i = n + 1 \/ i \in 1..n
    BY <1>2
  <2>5. \A i \in 1..n : i \in 1..(n + 1) /\ i \in DOMAIN s /\ i < n + 1
    BY <1>2
  <2>6. n + 1 \in 1..(n + 1) /\ n + 1 \in DOMAIN s
    BY <1>2
  <2>7. Before(n + 1) = Before(n) \cup NthOf(s[n + 1])
    BY <2>4, <2>5, <2>6 DEF NthOf
  <2>8. \A m \in Before(n), k \in NthOf(s[n + 1]) : m < k
    BY <2>5, <2>6 DEF Rising, NthOf
  <2> HIDE DEF Before
  <2>9. Nths(f[n + 1]) = Before(n + 1) /\ Rising(f[n + 1])
    BY <2>2, <2>3, <2>7, <2>8, CompressedTyped
  <2> QED BY <2>1, <2>9
<1>5. N \in S
  <2> HIDE DEF S, N
  <2>1. 0..N \subseteq S
    BY <1>2, <1>3, <1>4, Counting
  <2> QED BY <1>2, <2>1
<1>6. Before(N) = Nths(s)
  BY <1>2 DEF Nths
<1> QED BY <1>1, <1>2, <1>5, <1>6

-----------------------------------------------------------------------------
(* Types.                                                                  *)
Elements == Control = Click \cup Drag /\ ChannelOf \in [Control -> Channel]

(* Each event has the fields its phase says.                               *)
LEMMA Events ==
  /\ \A e \in Control, spot \in Position, n \in Nat :
       [phase |-> "press", element |-> e, at |-> spot, nth |-> n] \in Box!Event
  /\ \A spot \in Position : [phase |-> "move", at |-> spot] \in Box!Event
  /\ [phase |-> "release"] \in Box!Event
  /\ \A e \in Box!Event :
       /\ e.phase = "press" => e.element \in Control /\ e.at \in Position /\ e.nth \in Nat
       /\ e.phase = "move" => e.at \in Position
BY DEF Box!Event

(* So has an intent.                                                       *)
LEMMA Intended ==
  /\ \A spot \in Position, n \in Nat, k \in Nat :
       [value |-> spot, press |-> n, seq |-> k] \in Box!Intent
  /\ \A n \in Nat, k \in Nat : [value |-> "click", press |-> n, seq |-> k] \in Box!Intent
  /\ \A i \in Box!Intent : i.press \in Nat
BY DEF Box!Intent

(* What a press sends: one intent or two, each with its number.            *)
LEMMA Sent ==
  ASSUME Elements, NEW e \in Box!Event, e.phase = "press", counts.intents \in Nat
  PROVE  /\ Box!PressIntents(e) \in Seq(Box!Intent)
         /\ \/ \E a \in Box!Intent : a.press = e.nth /\ Box!PressIntents(e) = <<a>>
            \/ \E a, b \in Box!Intent :
                 a.press = e.nth /\ b.press = e.nth /\ Box!PressIntents(e) = <<a>> \o <<b>>
<1> DEFINE a == [value |-> "click", press |-> e.nth, seq |-> counts.intents + 1]
           b == [value |-> e.at, press |-> e.nth, seq |-> counts.intents + 2]
<1>0. e.element \in Click \cup Drag
  BY Events DEF Elements
<1>1. counts.intents + 1 \in Nat /\ counts.intents + 2 \in Nat
  OBVIOUS
<1>2. a \in Box!Intent /\ b \in Box!Intent /\ a.press = e.nth /\ b.press = e.nth
  BY <1>1, Events, Intended
<1>3. Box!PressIntents(e) = (IF e.element \in Click THEN <<a>> ELSE <<>>)
                              \o (IF e.element \in Drag THEN <<b>> ELSE <<>>)
  BY DEF Box!PressIntents
<1> HIDE DEF a, b
<1>4. <<a>> \o <<>> = <<a>> /\ <<>> \o <<b>> = <<b>>
  OBVIOUS
<1>5. <<a>> \in Seq(Box!Intent) /\ <<b>> \in Seq(Box!Intent)
      /\ <<a>> \o <<b>> \in Seq(Box!Intent)
  BY <1>2
<1>6. CASE e.element \in Click
  <2>1. CASE e.element \in Drag
    BY <1>2, <1>3, <1>4, <1>5, <1>6, <2>1, Zenon
  <2>2. CASE e.element \notin Drag
    BY <1>2, <1>3, <1>4, <1>5, <1>6, <2>2, Zenon
  <2> QED BY <2>1, <2>2
<1>7. CASE e.element \notin Click
  <2>1. CASE e.element \in Drag
    BY <1>2, <1>3, <1>4, <1>5, <1>7, <2>1, Zenon
  <2> QED BY <1>0, <1>7, <2>1
<1> QED BY <1>6, <1>7

Tallies == [events : Nat, presses : Nat, unprompted : Nat, intents : Nat]

(* Counting one thing leaves the others alone.                             *)
LEMMA Tallied ==
  ASSUME NEW n \in Tallies, NEW k \in Nat
  PROVE  [n EXCEPT !.intents = @ + k] \in Tallies /\ [n EXCEPT !.unprompted = @ + k] \in Tallies
<1>1. n.intents + k \in Nat /\ n.unprompted + k \in Nat
  BY DEF Tallies
<1> QED BY <1>1 DEF Tallies

(* Every step keeps the types.                                             *)
LEMMA Typed ==
  ASSUME Elements, Box!TypeOK
  PROVE  [Box!Next]_(Box!vars) => Box!TypeOK'
<1> USE DEF Box!TypeOK, Box!outbox, Box!modules
<1> HIDE DEF Box!Event, Box!Intent
<1>1. ASSUME NEW e \in Box!Event, Box!Send(e) PROVE Box!TypeOK'
  <2>1. incoming' \in Seq(Box!Event) /\ UNCHANGED <<pass, batch, capture, busy, waiting, stdin, working, lines, read, newest>>
    BY <1>1 DEF Box!Send
  <2>2. counts' \in [events : Nat, presses : Nat, unprompted : Nat, intents : Nat]
    <3>1. counts' = [counts EXCEPT !.events = @ + 1,
                                   !.presses = IF e.phase = "press" THEN @ + 1 ELSE @]
      BY <1>1 DEF Box!Send
    <3>2. counts.events + 1 \in Nat /\ counts.presses + 1 \in Nat
      OBVIOUS
    <3> QED BY <3>1, <3>2
  <2> QED BY <2>1, <2>2
<1>2. ASSUME NEW spot \in Position, Box!Move(spot) PROVE Box!TypeOK'
  BY <1>1, <1>2, Events DEF Box!Move
<1>3. ASSUME NEW e \in Control, NEW spot \in Position, Box!Press(e, spot) PROVE Box!TypeOK'
  <2>1. counts.presses + 1 \in Nat
    OBVIOUS
  <2> QED BY <1>1, <1>3, <2>1, Events DEF Box!Press
<1>4. ASSUME Box!Release PROVE Box!TypeOK'
  BY <1>1, <1>4, Events DEF Box!Release
<1>5. ASSUME Box!BeginPass PROVE Box!TypeOK'
  <2>1. stdin' \in [Channel -> Seq(Box!Intent)]
    BY <1>5 DEF Box!BeginPass, Box!Released
  <2>2. waiting' \in [Channel -> Box!Intent \cup {None}]
    BY <1>5 DEF Box!BeginPass
  <2> QED BY <1>5, <2>1, <2>2 DEF Box!BeginPass
<1>6. ASSUME NEW c \in Channel, Box!GraceEnds(c) PROVE Box!TypeOK'
  BY <1>6 DEF Box!GraceEnds
<1>7. ASSUME Box!DrainEvents PROVE Box!TypeOK'
  BY <1>7, Shortened DEF Box!DrainEvents
<1>8. ASSUME Box!EndPass PROVE Box!TypeOK'
  BY <1>8 DEF Box!EndPass
<1>9. ASSUME Box!HandlePress PROVE Box!TypeOK'
  <2> DEFINE e == Head(batch)
             c == ChannelOf[e.element]
  <2>1. /\ e \in Box!Event /\ e.phase = "press" /\ Tail(batch) \in Seq(Box!Event)
        /\ batch' = Tail(batch) /\ UNCHANGED <<incoming, pass, working, lines, read>>
    BY <1>9 DEF Box!HandlePress, Box!Handling
  <2> HIDE DEF e
  <2>2. c \in Channel /\ e.element \in Control /\ e.at \in Position
    BY <2>1, Events DEF Elements
  <2>3. capture' \in [element : Drag, last : Position] \cup {None}
    <3>1. capture' = IF e.element \in Drag THEN [element |-> e.element, last |-> e.at] ELSE None
      BY <1>9 DEF Box!HandlePress, e
    <3> QED BY <2>2, <3>1
  <2>4. Box!PressIntents(e) \in Seq(Box!Intent)
    BY <2>1, Sent
  <2>5. Box!PressIntents(e) # <<>>
    <3>1. \A a, b \in Box!Intent : <<a>> # <<>> /\ <<a>> \o <<b>> # <<>>
      OBVIOUS
    <3>2. \/ \E a \in Box!Intent : Box!PressIntents(e) = <<a>>
          \/ \E a, b \in Box!Intent : Box!PressIntents(e) = <<a>> \o <<b>>
      BY <2>1, Sent
    <3> QED BY <3>1, <3>2, Zenon
  <2>6. /\ busy' = busy \cup {c} /\ waiting' = waiting
        /\ stdin' = [stdin EXCEPT ![c] = @ \o Box!PressIntents(e)]
        /\ newest' = [newest EXCEPT ![c] = Box!Last(Box!PressIntents(e))]
        /\ counts' = [counts EXCEPT !.intents = @ + 2]
    BY <1>9 DEF Box!HandlePress, Box!Urgent, e
  <2>7. Box!Last(Box!PressIntents(e)) \in Box!Intent
    BY <2>4, <2>5 DEF Box!Last
  <2>8. stdin' \in [Channel -> Seq(Box!Intent)]
    BY <2>2, <2>4, <2>6
  <2>9. newest' \in [Channel -> Box!Intent \cup {None}]
    BY <2>2, <2>6, <2>7
  <2>10. counts' \in [events : Nat, presses : Nat, unprompted : Nat, intents : Nat]
    BY <2>6, Tallied DEF Tallies
  <2> QED BY <2>1, <2>2, <2>3, <2>6, <2>8, <2>9, <2>10
<1>10. ASSUME Box!HandleMove PROVE Box!TypeOK'
  <2> DEFINE spot == Head(batch).at
  <2>1. /\ Head(batch) \in Box!Event /\ Head(batch).phase = "move" /\ Tail(batch) \in Seq(Box!Event)
        /\ batch' = Tail(batch) /\ UNCHANGED <<incoming, pass, working, lines, read>>
    BY <1>10 DEF Box!HandleMove, Box!Handling
  <2>2. spot \in Position
    BY <2>1, Events
  <2> HIDE DEF spot
  <2>3. CASE UNCHANGED <<capture, busy, waiting, stdin, newest, counts>>
    BY <2>1, <2>3
  <2>4. CASE ~UNCHANGED <<capture, busy, waiting, stdin, newest, counts>>
    <3> DEFINE c == ChannelOf[capture.element]
               intent == [value |-> spot, press |-> 0, seq |-> counts.intents + 1]
    <3>1. /\ capture # None
          /\ capture' = [capture EXCEPT !.last = spot] /\ Box!Offer(c, intent)
          /\ newest' = [newest EXCEPT ![c] = intent]
          /\ counts' = [counts EXCEPT !.intents = @ + 1]
      BY <1>10, <2>4 DEF Box!HandleMove, spot
    <3>2. capture \in [element : Drag, last : Position] /\ c \in Channel
      BY <3>1 DEF Elements
    <3>3. intent \in Box!Intent
      <4>1. 0 \in Nat /\ counts.intents + 1 \in Nat
        OBVIOUS
      <4> QED BY <2>2, <4>1, Intended
    <3> HIDE DEF c, intent
    <3>4. /\ busy' \subseteq Channel /\ waiting' \in [Channel -> Box!Intent \cup {None}]
          /\ stdin' \in [Channel -> Seq(Box!Intent)]
      <4>1. CASE c \in busy
        BY <3>1, <3>2, <3>3, <4>1 DEF Box!Offer
      <4>2. CASE c \notin busy
        <5>1. busy' = busy \cup {c} /\ waiting' = waiting
              /\ stdin' = [stdin EXCEPT ![c] = Append(@, intent)]
          BY <3>1, <4>2 DEF Box!Offer
        <5>2. Append(stdin[c], intent) \in Seq(Box!Intent)
          BY <3>2, <3>3
        <5> QED BY <3>2, <5>1, <5>2
      <4> QED BY <4>1, <4>2
    <3>5. capture' \in [element : Drag, last : Position]
      BY <2>2, <3>1, <3>2
    <3>6. newest' \in [Channel -> Box!Intent \cup {None}]
      BY <3>1, <3>2, <3>3
    <3>7. counts' \in [events : Nat, presses : Nat, unprompted : Nat, intents : Nat]
      BY <3>1, Tallied DEF Tallies
    <3> QED BY <2>1, <3>4, <3>5, <3>6, <3>7
  <2> QED BY <2>3, <2>4
<1>11. ASSUME Box!HandleRelease PROVE Box!TypeOK'
  BY <1>11 DEF Box!HandleRelease, Box!Handling
<1>12. ASSUME NEW c \in Channel, Box!Read(c) PROVE Box!TypeOK'
  <2>1. Head(stdin[c]) \in Box!Intent /\ Tail(stdin[c]) \in Seq(Box!Intent)
    BY <1>12 DEF Box!Read
  <2> QED BY <1>12, <2>1 DEF Box!Read
<1>13. ASSUME NEW c \in Channel, Box!React(c) PROVE Box!TypeOK'
  <2>1. lines' \in [Channel -> Nat]
    BY <1>13 DEF Box!React
  <2>2. working' \subseteq Channel /\ UNCHANGED <<incoming, pass, batch, capture, busy, waiting, stdin, read, newest, counts>>
    BY <1>13 DEF Box!React
  <2> QED BY <2>1, <2>2
<1>14. ASSUME NEW c \in Channel, Box!PrintUnprompted(c) PROVE Box!TypeOK'
  <2>1. counts' = [counts EXCEPT !.unprompted = @ + 1] /\ lines' = [lines EXCEPT ![c] = @ + 1]
        /\ UNCHANGED <<incoming, pass, batch, capture, busy, waiting, stdin, working, read, newest>>
    BY <1>14 DEF Box!PrintUnprompted
  <2>2. counts' \in [events : Nat, presses : Nat, unprompted : Nat, intents : Nat]
    BY <2>1, Tallied DEF Tallies
  <2>3. lines' \in [Channel -> Nat]
    BY <2>1
  <2> QED BY <2>1, <2>2, <2>3
<1>15. ASSUME UNCHANGED Box!vars PROVE Box!TypeOK'
  BY <1>15 DEF Box!vars
<1> QED BY <1>2, <1>3, <1>4, <1>5, <1>6, <1>7, <1>8, <1>9, <1>10, <1>11, <1>12, <1>13, <1>14, <1>15
        DEF Box!Next, Box!Pass
-----------------------------------------------------------------------------
(* Every press is accounted for: p presses, the queue q of those ahead of  *)
(* the handlers, and what is written to each module, w.                    *)
Account(q, w, p) ==
  /\ 1..p = Nths(q) \cup UNION {FiredBy(w[c]) : c \in Channel}
  /\ Rising(q)
  /\ \A c \in Channel : NotFalling(w[c]) /\ \A m \in FiredBy(w[c]), n \in Nths(q) : m < n

writing == [c \in Channel |-> Written(c)]

(* The property speaks of the same presses.                                *)
LEMMA Accounted == PressesDelivered <=> Account(Ahead, writing, counts.presses)
<1> DEFINE q == Ahead
           w(c) == Written(c)
<1>1. Nths(q) = {q[i].nth : i \in Presses} /\ (Rising(q) <=> \A i, j \in Presses : i < j => q[i].nth < q[j].nth)
  BY DEF Nths, Rising, Presses
<1>2. \A c \in Channel :
        /\ writing[c] = w(c)
        /\ FiredBy(w(c)) = {w(c)[i].press : i \in Fired(c)}
        /\ NotFalling(w(c)) <=> \A i, j \in Fired(c) : i < j => w(c)[i].press <= w(c)[j].press
        /\ (\A m \in FiredBy(w(c)), n \in Nths(q) : m < n)
             <=> \A i \in Fired(c), j \in Presses : w(c)[i].press < q[j].nth
  BY <1>1 DEF writing, FiredBy, NotFalling, Fired
<1>3. UNION {FiredBy(writing[c]) : c \in Channel}
        = UNION {{w(c)[i].press : i \in Fired(c)} : c \in Channel}
  BY <1>2
<1> HIDE DEF q, w
<1>4. PressesDelivered <=>
        /\ 1..counts.presses = {q[i].nth : i \in Presses}
                                 \cup UNION {{w(c)[i].press : i \in Fired(c)} : c \in Channel}
        /\ \A i, j \in Presses : i < j => q[i].nth < q[j].nth
        /\ \A c \in Channel : \A i \in Fired(c) :
             /\ \A j \in Fired(c) : i < j => w(c)[i].press <= w(c)[j].press
             /\ \A j \in Presses : w(c)[i].press < q[j].nth
  BY DEF PressesDelivered, q, w
<1>5. Account(q, writing, counts.presses) <=>
        /\ 1..counts.presses = Nths(q) \cup UNION {FiredBy(writing[c]) : c \in Channel}
        /\ Rising(q)
        /\ \A c \in Channel : /\ NotFalling(writing[c])
                              /\ \A m \in FiredBy(writing[c]), n \in Nths(q) : m < n
  BY DEF Account
<1>6. Account(q, writing, counts.presses) <=>
        /\ 1..counts.presses = {q[i].nth : i \in Presses}
                                 \cup UNION {{w(c)[i].press : i \in Fired(c)} : c \in Channel}
        /\ \A i, j \in Presses : i < j => q[i].nth < q[j].nth
        /\ \A c \in Channel :
             /\ \A i, j \in Fired(c) : i < j => w(c)[i].press <= w(c)[j].press
             /\ \A i \in Fired(c), j \in Presses : w(c)[i].press < q[j].nth
  BY <1>1, <1>2, <1>3, <1>5
<1> QED BY <1>4, <1>6 DEF q

(* A press is queued behind all those before it.                           *)
LEMMA AnotherPress ==
  ASSUME NEW q \in Seq(Box!Event), NEW w, NEW p \in Nat, Account(q, w, p),
         NEW e \in Box!Event, e.phase = "press", e.nth = p + 1
  PROVE  Account(Append(q, e), w, p + 1)
<1>1. Nths(q) \subseteq 1..p /\ \A c \in Channel : FiredBy(w[c]) \subseteq 1..p
  BY DEF Account
<1>2. NthOf(e) = {p + 1}
  BY DEF NthOf
<1>3. \A m \in Nths(q), n \in NthOf(e) : m < n
  BY <1>1, <1>2
<1>4. Nths(Append(q, e)) = Nths(q) \cup {p + 1} /\ Rising(Append(q, e))
  BY <1>2, <1>3, OneMoreEvent DEF Account
<1>5. 1..(p + 1) = 1..p \cup {p + 1}
  OBVIOUS
<1>6. 1..(p + 1) = Nths(Append(q, e)) \cup UNION {FiredBy(w[c]) : c \in Channel}
  BY <1>4, <1>5 DEF Account
<1>7. ASSUME NEW c \in Channel, NEW m \in FiredBy(w[c]), NEW n \in Nths(Append(q, e)) PROVE m < n
  <2>1. CASE n \in Nths(q)
    BY <2>1 DEF Account
  <2>2. CASE n = p + 1
    BY <1>1, <2>2
  <2> QED BY <1>4, <2>1, <2>2
<1>8. \A c \in Channel : NotFalling(w[c])
  BY DEF Account
<1> QED BY <1>4, <1>6, <1>7, <1>8, Zenon DEF Account

(* A motion or a release makes no difference.                              *)
LEMMA AnotherMotion ==
  ASSUME NEW q \in Seq(Box!Event), NEW w, NEW p \in Nat, Account(q, w, p),
         NEW e \in Box!Event, e.phase # "press"
  PROVE  Account(Append(q, e), w, p)
<1>1. NthOf(e) = {}
  BY DEF NthOf
<1>2. Nths(Append(q, e)) = Nths(q) /\ Rising(Append(q, e))
  <2>1. Rising(q) /\ \A m \in Nths(q), n \in NthOf(e) : m < n
    BY <1>1 DEF Account
  <2> QED BY <1>1, <2>1, OneMoreEvent
<1>3. /\ 1..p = Nths(q) \cup UNION {FiredBy(w[c]) : c \in Channel}
      /\ \A c \in Channel : NotFalling(w[c]) /\ \A m \in FiredBy(w[c]), n \in Nths(q) : m < n
  BY DEF Account
<1> QED BY <1>2, <1>3, Zenon DEF Account

(* Nothing is lost when what is ahead is rewritten with the same presses,  *)
(* nor when what a motion wants, or what waited, is written.               *)
LEMMA SamePresses ==
  ASSUME NEW q, NEW r, NEW w, NEW v, NEW p, Account(q, w, p),
         Nths(r) = Nths(q), Rising(r),
         \A c \in Channel : FiredBy(v[c]) = FiredBy(w[c]) /\ NotFalling(v[c])
  PROVE  Account(r, v, p)
<1>1. UNION {FiredBy(v[c]) : c \in Channel} = UNION {FiredBy(w[c]) : c \in Channel}
  OBVIOUS
<1> QED BY <1>1, Zenon DEF Account

(* A press leaves the queue when its intents are written.                  *)
LEMMA PressWritten ==
  ASSUME NEW q \in Seq(Box!Event), NEW w, NEW v, NEW p \in Nat, Account(q, w, p), q # <<>>,
         NEW k \in Channel,
         \A c \in Channel : NotFalling(v[c]) /\ FiredBy(v[c]) = FiredBy(w[c])
                              \cup (IF c = k THEN NthOf(Head(q)) ELSE {})
  PROVE  Account(Tail(q), v, p)
<1>1. /\ Nths(q) = Nths(Tail(q)) \cup NthOf(Head(q)) /\ Rising(Tail(q))
      /\ \A m \in NthOf(Head(q)), n \in Nths(Tail(q)) : m < n
  BY OneEventLess DEF Account
<1>2. UNION {FiredBy(v[c]) : c \in Channel}
        = NthOf(Head(q)) \cup UNION {FiredBy(w[c]) : c \in Channel}
  OBVIOUS
<1>3. 1..p = Nths(Tail(q)) \cup UNION {FiredBy(v[c]) : c \in Channel}
  BY <1>1, <1>2 DEF Account
<1>4. \A c \in Channel : \A m \in FiredBy(v[c]), n \in Nths(Tail(q)) : m < n
  BY <1>1 DEF Account
<1> QED BY <1>1, <1>3, <1>4 DEF Account

-----------------------------------------------------------------------------
(* Events are drained into an empty batch, and what waits is of a motion.  *)
MotionsWait ==
  /\ pass # "handling" => batch = <<>>
  /\ \A c \in Channel : waiting[c] # None => waiting[c].press = 0

DeliveryInv == Box!TypeOK /\ MotionsWait /\ PressesDelivered
LEMMA QueuesTyped ==
  ASSUME Box!TypeOK
  PROVE  /\ Ahead \in Seq(Box!Event) /\ \A c \in Channel : writing[c] \in Seq(Box!Intent)
         /\ batch \in Seq(Box!Event) /\ incoming \in Seq(Box!Event)
         /\ \A c \in Channel : /\ read[c] \in Seq(Box!Intent) /\ stdin[c] \in Seq(Box!Intent)
                               /\ waiting[c] \in Box!Intent \cup {None}
                               /\ writing[c] = read[c] \o stdin[c]
         /\ counts.presses \in Nat /\ counts.intents \in Nat
<1> HIDE DEF Box!Event, Box!Intent
<1> QED BY DEF Box!TypeOK, Ahead, Written, writing

(* Queues of intents in a row.                                             *)
LEMMA IntentsJoin ==
  \A s, t \in Seq(Box!Intent) :
    /\ \A i \in Box!Intent : s \o Append(t, i) = Append(s \o t, i)
    /\ \A u \in Seq(Box!Intent) : s \o (t \o u) = (s \o t) \o u
<1> HIDE DEF Box!Intent
<1>1. \A s, t \in Seq(Box!Intent), i \in Box!Intent : s \o Append(t, i) = Append(s \o t, i)
  OBVIOUS
<1>2. \A s, t, u \in Seq(Box!Intent) : s \o (t \o u) = (s \o t) \o u
  OBVIOUS
<1> QED BY <1>1, <1>2

(* One intent more, with the number of a press or none.                    *)
LEMMA OneMoreWritten ==
  ASSUME NEW s \in Seq(Box!Intent), NEW i \in Box!Intent, NotFalling(s),
         \A m \in FiredBy(s), n \in FiredOf(i) : m <= n
  PROVE  /\ FiredBy(Append(s, i)) = FiredBy(s) \cup FiredOf(i) /\ NotFalling(Append(s, i))
BY OneMoreIntent

(* An intent of a motion adds no press.                                    *)
LEMMA MotionWritten ==
  ASSUME NEW s \in Seq(Box!Intent), NEW i \in Box!Intent, NotFalling(s), i.press = 0
  PROVE  FiredBy(Append(s, i)) = FiredBy(s) /\ NotFalling(Append(s, i))
<1>1. FiredOf(i) = {}
  BY DEF FiredOf
<1> QED BY <1>1, OneMoreWritten

(* One intent or two of the same press.                                    *)
After(s, n) == n \in Nat \ {0} /\ NotFalling(s) /\ \A m \in FiredBy(s) : m \in Nat /\ m < n

(* One intent of a press newer than those written,                         *)
LEMMA IntentWritten ==
  ASSUME NEW s \in Seq(Box!Intent), NEW a \in Box!Intent, After(s, a.press)
  PROVE  /\ FiredBy(s \o <<a>>) = FiredBy(s) \cup {a.press} /\ NotFalling(s \o <<a>>)
         /\ s \o <<a>> \in Seq(Box!Intent) /\ s \o <<a>> = Append(s, a)
<1> HIDE DEF Box!Intent
<1>1. s \o <<a>> = Append(s, a) /\ Append(s, a) \in Seq(Box!Intent)
  OBVIOUS
<1>2. FiredOf(a) = {a.press}
  BY DEF FiredOf, After
<1>3. \A m \in FiredBy(s), k \in FiredOf(a) : m <= k
  BY <1>2 DEF After
<1> QED BY <1>1, <1>2, <1>3, OneMoreWritten DEF After

(* and two.                                                                *)
LEMMA IntentsWritten ==
  ASSUME NEW s \in Seq(Box!Intent), NEW a \in Box!Intent, NEW b \in Box!Intent,
         After(s, a.press), b.press = a.press
  PROVE  /\ FiredBy(s \o (<<a>> \o <<b>>)) = FiredBy(s) \cup {a.press}
         /\ NotFalling(s \o (<<a>> \o <<b>>))
<1> HIDE DEF Box!Intent
<1>1. s \o (<<a>> \o <<b>>) = Append(s \o <<a>>, b)
  OBVIOUS
<1>2. FiredOf(b) = {a.press}
  BY DEF FiredOf, After
<1>3. /\ FiredBy(s \o <<a>>) = FiredBy(s) \cup {a.press} /\ NotFalling(s \o <<a>>)
      /\ s \o <<a>> \in Seq(Box!Intent)
  BY IntentWritten
<1>4. \A m \in FiredBy(s \o <<a>>), k \in FiredOf(b) : m <= k
  BY <1>2, <1>3 DEF After
<1>5. /\ FiredBy(Append(s \o <<a>>, b)) = FiredBy(s \o <<a>>) \cup FiredOf(b)
      /\ NotFalling(Append(s \o <<a>>, b))
  BY <1>3, <1>4, OneMoreWritten
<1> QED BY <1>1, <1>2, <1>3, <1>5

(* An event other than a press is handled: it leaves the queue, and what   *)
(* is written by it, v, has no press.                                      *)
LEMMA MotionHandled ==
  ASSUME NEW q \in Seq(Box!Event), NEW w, NEW v, NEW p, Account(q, w, p), q # <<>>,
         Head(q).phase # "press",
         \A c \in Channel : FiredBy(v[c]) = FiredBy(w[c]) /\ NotFalling(v[c])
  PROVE  Account(Tail(q), v, p)
<1>1. NthOf(Head(q)) = {} /\ Rising(q)
  BY DEF NthOf, Account
<1>2. Nths(Tail(q)) = Nths(q) /\ Rising(Tail(q))
  BY <1>1, OneEventLess
<1> QED BY <1>2, SamePresses

(* The events are drained, and compressed, into a batch that is empty.     *)
LEMMA Drained ==
  ASSUME DeliveryInv, Box!DrainEvents
  PROVE  MotionsWait' /\ Account(Ahead', writing', counts.presses')
<1> HIDE DEF Box!Event, Box!Intent
<1>1. /\ pass = "drained" /\ pass' = "handling" /\ batch' = Box!Compress(incoming) /\ incoming' = <<>>
      /\ UNCHANGED <<waiting, stdin, read, counts>>
  BY DEF Box!DrainEvents, Box!outbox, Box!modules
<1>2. incoming \in Seq(Box!Event) /\ batch = <<>>
  BY <1>1, QueuesTyped DEF DeliveryInv, MotionsWait
<1>3. Ahead = incoming
  BY <1>2 DEF Ahead
<1>4. Box!Compress(incoming) \in Seq(Box!Event)
  BY <1>2, Shortened
<1>5. Ahead' = Box!Compress(incoming)
  BY <1>1, <1>4 DEF Ahead
<1>6. writing' = writing
  BY <1>1 DEF writing, Written
<1>7. Account(incoming, writing, counts.presses)
  BY <1>3, Accounted DEF DeliveryInv
<1>8. Rising(incoming)
  BY <1>7 DEF Account
<1>9. /\ Nths(Box!Compress(incoming)) = Nths(incoming) /\ Rising(Box!Compress(incoming))
  BY <1>2, <1>8, Compressing
<1>10. \A c \in Channel : FiredBy(writing[c]) = FiredBy(writing[c]) /\ NotFalling(writing[c])
  BY <1>7 DEF Account
<1>11. Account(Box!Compress(incoming), writing, counts.presses)
  BY <1>7, <1>9, <1>10, SamePresses
<1>12. MotionsWait'
  BY <1>1 DEF MotionsWait, DeliveryInv
<1> QED BY <1>1, <1>5, <1>6, <1>11, <1>12

(* What a Pass sends on when it begins is of motions.                      *)
LEMMA PassBegun ==
  ASSUME DeliveryInv, Box!BeginPass
  PROVE  MotionsWait' /\ Account(Ahead', writing', counts.presses')
<1> HIDE DEF Box!Event, Box!Intent
<1>1. /\ pass = "idle" /\ pass' = "drained"
      /\ stdin' = [c \in Channel |-> IF Box!Released(c) THEN Append(stdin[c], waiting[c]) ELSE stdin[c]]
      /\ waiting' = [c \in Channel |-> IF Box!Released(c) THEN None ELSE waiting[c]]
      /\ UNCHANGED <<incoming, batch, read, counts>>
  BY DEF Box!BeginPass
<1>2. Account(Ahead, writing, counts.presses) /\ Rising(Ahead)
  BY Accounted DEF DeliveryInv, Account
<1>3. ASSUME NEW c \in Channel
      PROVE  FiredBy(writing'[c]) = FiredBy(writing[c]) /\ NotFalling(writing'[c])
  <2>1. NotFalling(writing[c]) /\ writing[c] \in Seq(Box!Intent)
    BY <1>2, QueuesTyped DEF Account, DeliveryInv
  <2>2. CASE Box!Released(c)
    <3>1. waiting[c] \in Box!Intent /\ waiting[c].press = 0
      BY <2>2, QueuesTyped DEF Box!Released, DeliveryInv, MotionsWait
    <3>2. writing'[c] = read[c] \o Append(stdin[c], waiting[c])
      BY <1>1, <2>2 DEF writing, Written
    <3>3. /\ read[c] \in Seq(Box!Intent) /\ stdin[c] \in Seq(Box!Intent)
          /\ writing[c] = read[c] \o stdin[c]
      BY QueuesTyped DEF DeliveryInv
    <3>4. read[c] \o Append(stdin[c], waiting[c]) = Append(read[c] \o stdin[c], waiting[c])
      BY <3>1, <3>3, IntentsJoin, Zenon
    <3>5. writing'[c] = Append(writing[c], waiting[c])
      BY <3>2, <3>3, <3>4
    <3> QED BY <2>1, <3>1, <3>5, MotionWritten
  <2>3. CASE ~Box!Released(c)
    <3>1. writing'[c] = writing[c]
      BY <1>1, <2>3 DEF writing, Written
    <3> QED BY <2>1, <3>1
  <2> QED BY <2>2, <2>3
<1>4. Ahead' = Ahead
  BY <1>1 DEF Ahead
<1>5. Account(Ahead, writing', counts.presses)
  BY <1>2, <1>3, SamePresses
<1>6. MotionsWait'
  BY <1>1 DEF MotionsWait, DeliveryInv
<1> QED BY <1>1, <1>4, <1>5, <1>6
LEMMA EventSent ==
  ASSUME DeliveryInv, NEW e \in Box!Event, Box!Send(e), e.phase = "press" => e.nth = counts.presses + 1
  PROVE  MotionsWait' /\ Account(Ahead', writing', counts.presses')
<1> HIDE DEF Box!Event, Box!Intent
<1>1. /\ incoming' = Append(incoming, e) /\ UNCHANGED <<pass, batch, waiting, stdin, read>>
      /\ counts'.presses = IF e.phase = "press" THEN counts.presses + 1 ELSE counts.presses
  <2>1. counts' = [counts EXCEPT !.events = @ + 1,
                                 !.presses = IF e.phase = "press" THEN @ + 1 ELSE @]
    BY DEF Box!Send
  <2>2. counts'.presses = IF e.phase = "press" THEN counts.presses + 1 ELSE counts.presses
    BY <2>1 DEF DeliveryInv, Box!TypeOK
  <2> QED BY <2>2 DEF Box!Send, Box!outbox, Box!modules
<1>2. Account(Ahead, writing, counts.presses)
  BY Accounted DEF DeliveryInv
<1>3. /\ Ahead \in Seq(Box!Event) /\ counts.presses \in Nat
      /\ batch \in Seq(Box!Event) /\ incoming \in Seq(Box!Event)
  BY QueuesTyped DEF DeliveryInv
<1>4. Ahead' = Append(Ahead, e)
  BY <1>1, <1>3, AppendToBoth DEF Ahead
<1>5. writing' = writing
  BY <1>1 DEF writing, Written
<1>6. MotionsWait'
  BY <1>1 DEF MotionsWait, DeliveryInv
<1>7. CASE e.phase = "press"
  <2>1. Account(Append(Ahead, e), writing, counts.presses + 1)
    BY <1>2, <1>3, <1>7, AnotherPress
  <2> QED BY <1>1, <1>4, <1>5, <1>6, <1>7, <2>1
<1>8. CASE e.phase # "press"
  <2>1. Account(Append(Ahead, e), writing, counts.presses)
    BY <1>2, <1>3, <1>8, AnotherMotion
  <2> QED BY <1>1, <1>4, <1>5, <1>6, <1>8, <2>1
<1> QED BY <1>7, <1>8

(* The handlers take the oldest event ahead.                               *)
LEMMA Taken ==
  ASSUME DeliveryInv, NEW phase, Box!Handling(phase)
  PROVE  /\ Ahead # <<>> /\ Head(Ahead) = Head(batch) /\ Ahead' = Tail(Ahead)
         /\ Head(batch) \in Box!Event /\ Head(batch).phase = phase
         /\ pass = "handling" /\ UNCHANGED <<pass, read>>
<1> HIDE DEF Box!Event, Box!Intent
<1>1. batch \in Seq(Box!Event) /\ incoming \in Seq(Box!Event)
  BY QueuesTyped DEF DeliveryInv
<1>2. /\ pass = "handling" /\ batch # <<>> /\ Head(batch).phase = phase
      /\ batch' = Tail(batch) /\ UNCHANGED <<incoming, pass, read>>
  BY DEF Box!Handling, Box!modules
<1>3. Head(batch) \in Box!Event
  BY <1>1, <1>2
<1> QED BY <1>1, <1>2, <1>3, TailOfBoth DEF Ahead

(* What a press writes goes behind all that was written to its module.     *)
LEMMA PressWrites ==
  ASSUME Elements, DeliveryInv, Box!HandlePress
  PROVE  LET e == Head(batch)
             c == ChannelOf[e.element]
         IN /\ writing'[c] = writing[c] \o Box!PressIntents(e)
            /\ \A d \in Channel : d # c => writing'[d] = writing[d]
<1> HIDE DEF Box!Event, Box!Intent
<1> DEFINE e == Head(batch)
           c == ChannelOf[e.element]
           intents == Box!PressIntents(e)
<1>1. Box!Handling("press")
  BY DEF Box!HandlePress
<1>2. e \in Box!Event /\ e.phase = "press" /\ UNCHANGED <<pass, read>>
  BY <1>1, Taken
<1>3. stdin' = [stdin EXCEPT ![c] = @ \o intents]
  BY DEF Box!HandlePress, Box!Urgent
<1> HIDE DEF e
<1>4. c \in Channel
  BY <1>2, Events DEF Elements
<1>5. intents \in Seq(Box!Intent)
  BY <1>2, Sent, QueuesTyped DEF DeliveryInv
<1> HIDE DEF c, intents
<1>6. writing'[c] = writing[c] \o intents
  <2>1. stdin'[c] = stdin[c] \o intents
    BY <1>3, <1>4 DEF DeliveryInv, Box!TypeOK
  <2>2. writing'[c] = read[c] \o (stdin[c] \o intents)
    BY <1>2, <1>4, <2>1 DEF writing, Written
  <2>3. /\ read[c] \in Seq(Box!Intent) /\ stdin[c] \in Seq(Box!Intent)
        /\ writing[c] = read[c] \o stdin[c]
    BY <1>4, QueuesTyped DEF DeliveryInv
  <2>4. read[c] \o (stdin[c] \o intents) = (read[c] \o stdin[c]) \o intents
    BY <1>5, <2>3, IntentsJoin, Zenon
  <2> QED BY <2>2, <2>3, <2>4
<1>7. \A d \in Channel : d # c => writing'[d] = writing[d]
  BY <1>2, <1>3 DEF writing, Written, DeliveryInv, Box!TypeOK
<1> QED BY <1>6, <1>7 DEF c, intents, e

(* A press leaves the batch as its intents are written.                    *)
LEMMA PressHandled ==
  ASSUME Elements, DeliveryInv, Box!HandlePress
  PROVE  MotionsWait' /\ Account(Ahead', writing', counts.presses')
<1> HIDE DEF Box!Event, Box!Intent
<1> DEFINE e == Head(batch)
           c == ChannelOf[e.element]
           intents == Box!PressIntents(e)
<1>1. Box!Handling("press")
  BY DEF Box!HandlePress
<1>2. /\ Ahead # <<>> /\ Head(Ahead) = e /\ Ahead' = Tail(Ahead)
      /\ e \in Box!Event /\ e.phase = "press" /\ pass = "handling" /\ UNCHANGED <<pass, read>>
  BY <1>1, Taken
<1>3. /\ waiting' = waiting /\ stdin' = [stdin EXCEPT ![c] = @ \o intents]
      /\ counts' = [counts EXCEPT !.intents = @ + 2]
  BY DEF Box!HandlePress, Box!Urgent
<1> HIDE DEF e
<1>4. c \in Channel
  BY <1>2, Events DEF Elements
<1>5. /\ Account(Ahead, writing, counts.presses) /\ Ahead \in Seq(Box!Event)
      /\ counts.presses \in Nat /\ counts.intents \in Nat
  BY QueuesTyped, Accounted DEF DeliveryInv
<1>6. counts'.presses = counts.presses
  BY <1>3 DEF DeliveryInv, Box!TypeOK
<1>7. NthOf(e) = {e.nth} /\ e.nth \in Nths(Ahead) /\ e.nth \in Nat \ {0}
  <2>1. NthOf(e) = {e.nth}
    BY <1>2 DEF NthOf
  <2>2. e.nth \in Nths(Ahead)
    BY <1>2, <1>5, <2>1, OneEventLess
  <2>3. Nths(Ahead) \subseteq 1..counts.presses
    BY <1>5 DEF Account
  <2> QED BY <1>5, <2>1, <2>2, <2>3
<1>8. \A d \in Channel : writing[d] \in Seq(Box!Intent) /\ After(writing[d], e.nth)
  <2>1. \A d \in Channel : FiredBy(writing[d]) \subseteq 1..counts.presses /\ NotFalling(writing[d])
    BY <1>5 DEF Account
  <2>2. \A d \in Channel : writing[d] \in Seq(Box!Intent)
    BY QueuesTyped DEF DeliveryInv
  <2>3. \A d \in Channel : \A m \in FiredBy(writing[d]) : m < e.nth
    BY <1>5, <1>7 DEF Account
  <2>4. 1..counts.presses \subseteq Nat
    BY <1>5
  <2> QED BY <1>7, <2>1, <2>2, <2>3, <2>4 DEF After
<1>9. /\ FiredBy(writing[c] \o intents) = FiredBy(writing[c]) \cup {e.nth}
      /\ NotFalling(writing[c] \o intents)
  <2> DEFINE s == writing[c]
  <2>1. s \in Seq(Box!Intent) /\ After(s, e.nth)
    BY <1>4, <1>8
  <2> HIDE DEF s, c, intents
  <2>2. ASSUME NEW a \in Box!Intent, a.press = e.nth
        PROVE  FiredBy(s \o <<a>>) = FiredBy(s) \cup {e.nth} /\ NotFalling(s \o <<a>>)
    BY <2>1, <2>2, IntentWritten
  <2>3. ASSUME NEW a \in Box!Intent, NEW b \in Box!Intent, a.press = e.nth, b.press = e.nth
        PROVE  /\ FiredBy(s \o (<<a>> \o <<b>>)) = FiredBy(s) \cup {e.nth}
               /\ NotFalling(s \o (<<a>> \o <<b>>))
    BY <2>1, <2>3, IntentsWritten
  <2>4. \/ \E a \in Box!Intent : a.press = e.nth /\ intents = <<a>>
        \/ \E a, b \in Box!Intent : a.press = e.nth /\ b.press = e.nth /\ intents = <<a>> \o <<b>>
    BY <1>2, <1>5, Sent DEF intents
  <2> QED BY <2>2, <2>3, <2>4, Zenon DEF s
<1>10. /\ writing'[c] = writing[c] \o intents
       /\ \A d \in Channel : d # c => writing'[d] = writing[d]
  BY PressWrites DEF e
<1> HIDE DEF c, intents
<1>11. \A d \in Channel :
         NotFalling(writing'[d]) /\ FiredBy(writing'[d]) = FiredBy(writing[d])
                                      \cup (IF d = c THEN NthOf(Head(Ahead)) ELSE {})
  <2> TAKE d \in Channel
  <2>1. CASE d = c
    BY <1>2, <1>7, <1>9, <1>10, <2>1
  <2>2. CASE d # c
    BY <1>8, <1>10, <2>2 DEF After
  <2> QED BY <2>1, <2>2
<1>12. Account(Tail(Ahead), writing', counts.presses)
  BY <1>2, <1>4, <1>5, <1>11, PressWritten
<1>13. MotionsWait'
  BY <1>2, <1>3 DEF MotionsWait, DeliveryInv
<1> QED BY <1>2, <1>6, <1>12, <1>13

(* A motion leaves it, its intent written, held back or not wanted.        *)
LEMMA MotionOffered ==
  ASSUME DeliveryInv, Box!HandleMove
  PROVE  MotionsWait' /\ Account(Ahead', writing', counts.presses')
<1> HIDE DEF Box!Event, Box!Intent
<1>1. Box!Handling("move")
  BY DEF Box!HandleMove
<1>2. /\ Ahead # <<>> /\ Head(Ahead).phase # "press" /\ Ahead' = Tail(Ahead)
      /\ Head(batch) \in Box!Event /\ Head(batch).phase = "move"
      /\ pass = "handling" /\ UNCHANGED <<pass, read>>
  BY <1>1, Taken
<1>3. /\ Account(Ahead, writing, counts.presses) /\ Ahead \in Seq(Box!Event)
      /\ \A c \in Channel : NotFalling(writing[c])
  BY QueuesTyped, Accounted DEF DeliveryInv, Account
<1>4. CASE UNCHANGED <<capture, busy, waiting, stdin, newest, counts>>
  <2>1. writing' = writing
    BY <1>2, <1>4 DEF writing, Written
  <2>2. Account(Tail(Ahead), writing, counts.presses)
    BY <1>2, <1>3, MotionHandled
  <2>3. MotionsWait'
    BY <1>2, <1>4 DEF MotionsWait, DeliveryInv
  <2> QED BY <1>2, <1>4, <2>1, <2>2, <2>3
<1>5. CASE ~UNCHANGED <<capture, busy, waiting, stdin, newest, counts>>
  <2> DEFINE k == ChannelOf[capture.element]
             intent == [value |-> Head(batch).at, press |-> 0, seq |-> counts.intents + 1]
  <2>1. /\ Box!Offer(k, intent) /\ counts' = [counts EXCEPT !.intents = @ + 1]
    BY <1>5 DEF Box!HandleMove, Box!outbox
  <2>2. intent \in Box!Intent /\ intent.press = 0
    <3>1. 0 \in Nat /\ counts.intents + 1 \in Nat
      BY QueuesTyped DEF DeliveryInv
    <3>2. Head(batch).at \in Position
      BY <1>2, Events
    <3> QED BY <3>1, <3>2, Intended
  <2> HIDE DEF k, intent
  <2>3. counts'.presses = counts.presses
    BY <2>1 DEF DeliveryInv, Box!TypeOK
  <2>4. \A c \in Channel : waiting'[c] # None => waiting'[c].press = 0
    BY <2>1, <2>2 DEF Box!Offer, MotionsWait, DeliveryInv, Box!TypeOK
  <2>5. ASSUME NEW c \in Channel
        PROVE  FiredBy(writing'[c]) = FiredBy(writing[c]) /\ NotFalling(writing'[c])
    <3>1. CASE stdin'[c] = stdin[c]
      <4>1. writing'[c] = writing[c]
        BY <1>2, <3>1 DEF writing, Written
      <4> QED BY <1>3, <4>1
    <3>2. CASE stdin'[c] = Append(stdin[c], intent)
      <4>1. /\ read[c] \in Seq(Box!Intent) /\ stdin[c] \in Seq(Box!Intent)
            /\ writing[c] = read[c] \o stdin[c] /\ writing[c] \in Seq(Box!Intent)
        BY QueuesTyped DEF DeliveryInv
      <4>2. writing'[c] = read[c] \o Append(stdin[c], intent)
        BY <1>2, <3>2 DEF writing, Written
      <4>3. read[c] \o Append(stdin[c], intent) = Append(read[c] \o stdin[c], intent)
        BY <2>2, <4>1, IntentsJoin, Zenon
      <4>4. writing'[c] = Append(writing[c], intent)
        BY <4>1, <4>2, <4>3
      <4> QED BY <1>3, <2>2, <4>1, <4>4, MotionWritten
    <3> QED BY <2>1, <3>1, <3>2 DEF Box!Offer, DeliveryInv, Box!TypeOK
  <2>6. Account(Tail(Ahead), writing', counts.presses)
    BY <1>2, <1>3, <2>5, MotionHandled
  <2>7. MotionsWait'
    BY <1>2, <2>4 DEF MotionsWait
  <2> QED BY <1>2, <2>3, <2>6, <2>7
<1> QED BY <1>4, <1>5

(* A release leaves it.                                                    *)
LEMMA ReleaseHandled ==
  ASSUME DeliveryInv, Box!HandleRelease
  PROVE  MotionsWait' /\ Account(Ahead', writing', counts.presses')
<1> HIDE DEF Box!Event, Box!Intent
<1>1. Box!Handling("release") /\ UNCHANGED <<waiting, stdin, counts>>
  BY DEF Box!HandleRelease, Box!outbox
<1>2. /\ Ahead # <<>> /\ Head(Ahead).phase # "press" /\ Ahead' = Tail(Ahead)
      /\ pass = "handling" /\ UNCHANGED <<pass, read>>
  BY <1>1, Taken
<1>3. /\ Account(Ahead, writing, counts.presses) /\ Ahead \in Seq(Box!Event)
      /\ \A c \in Channel : NotFalling(writing[c])
  BY QueuesTyped, Accounted DEF DeliveryInv, Account
<1>4. writing' = writing
  BY <1>1, <1>2 DEF writing, Written
<1>5. Account(Tail(Ahead), writing, counts.presses)
  BY <1>2, <1>3, MotionHandled
<1>6. MotionsWait'
  BY <1>1, <1>2 DEF MotionsWait, DeliveryInv
<1> QED BY <1>1, <1>2, <1>4, <1>5, <1>6

(* What a module reads stays in what was written to it.                    *)
LEMMA ReadKeeps ==
  ASSUME DeliveryInv, NEW c \in Channel, Box!Read(c)
  PROVE  \A d \in Channel : writing'[d] = writing[d]
<1> HIDE DEF Box!Event, Box!Intent
<1>1. /\ stdin[c] # <<>> /\ read' = [read EXCEPT ![c] = Append(@, Head(stdin[c]))]
      /\ stdin' = [stdin EXCEPT ![c] = Tail(@)]
  BY DEF Box!Read
<1>2. read[c] \in Seq(Box!Intent) /\ stdin[c] \in Seq(Box!Intent)
  BY QueuesTyped DEF DeliveryInv
<1>3. writing'[c] = writing[c]
  <2>1. read'[c] = Append(read[c], Head(stdin[c])) /\ stdin'[c] = Tail(stdin[c])
    BY <1>1 DEF DeliveryInv, Box!TypeOK
  <2>2. read'[c] \o stdin'[c] = read[c] \o stdin[c]
    BY <1>1, <1>2, <2>1, MoveAcross
  <2> QED BY <2>2 DEF writing, Written
<1>4. \A d \in Channel : d # c => read'[d] = read[d] /\ stdin'[d] = stdin[d]
  BY <1>1 DEF DeliveryInv, Box!TypeOK
<1>5. \A d \in Channel : d # c => writing'[d] = writing[d]
  BY <1>4 DEF writing, Written
<1> QED BY <1>3, <1>5

(* So no press is lost when it reads.                                      *)
LEMMA IntentRead ==
  ASSUME DeliveryInv, NEW c \in Channel, Box!Read(c)
  PROVE  MotionsWait' /\ Account(Ahead', writing', counts.presses')
<1> HIDE DEF Box!Event, Box!Intent
<1>1. /\ stdin[c] # <<>> /\ read' = [read EXCEPT ![c] = Append(@, Head(stdin[c]))]
      /\ stdin' = [stdin EXCEPT ![c] = Tail(@)]
      /\ UNCHANGED <<incoming, pass, batch, waiting, counts>>
  BY DEF Box!Read, Box!outbox
<1>2. read[c] \in Seq(Box!Intent) /\ stdin[c] \in Seq(Box!Intent)
  BY QueuesTyped DEF DeliveryInv
<1>3. \A d \in Channel : writing'[d] = writing[d]
  BY ReadKeeps
<1>4. Account(Ahead, writing, counts.presses)
  BY Accounted DEF DeliveryInv
<1>5. Account(Ahead, writing', counts.presses)
  BY <1>3, <1>4, SamePresses DEF Account
<1>6. Ahead' = Ahead
  BY <1>1 DEF Ahead
<1>7. MotionsWait'
  BY <1>1 DEF MotionsWait, DeliveryInv
<1> QED BY <1>1, <1>5, <1>6, <1>7

(* The other actions touch neither the queues nor what waits.              *)
LEMMA NothingWritten ==
  ASSUME DeliveryInv, UNCHANGED <<incoming, batch, waiting, stdin, read>>, counts'.presses = counts.presses,
         pass' = "handling" => pass = "handling", pass' # "handling" => batch = <<>>
  PROVE  MotionsWait' /\ Account(Ahead', writing', counts.presses')
<1>1. Ahead' = Ahead /\ writing' = writing
  BY DEF Ahead, writing, Written
<1>2. Account(Ahead, writing, counts.presses)
  BY Accounted DEF DeliveryInv
<1>3. MotionsWait'
  BY DEF MotionsWait, DeliveryInv
<1> QED BY <1>1, <1>2, <1>3

(* Every step keeps the invariant,                                         *)
LEMMA DeliveryStep ==
  ASSUME Elements, DeliveryInv
  PROVE  [Box!Next]_(Box!vars) => DeliveryInv'
<1> HIDE DEF Box!Event, Box!Intent
<1> DEFINE Good == MotionsWait' /\ Account(Ahead', writing', counts.presses')
<1> USE DEF Box!outbox, Box!modules
<1>1. ASSUME NEW spot \in Position, Box!Move(spot) PROVE Good
  BY <1>1, EventSent, Events DEF Box!Move
<1>2. ASSUME NEW e \in Control, NEW spot \in Position, Box!Press(e, spot) PROVE Good
  <2>1. counts.presses + 1 \in Nat
    BY QueuesTyped DEF DeliveryInv
  <2> QED BY <1>2, <2>1, EventSent, Events DEF Box!Press
<1>3. ASSUME Box!Release PROVE Good
  BY <1>3, EventSent, Events DEF Box!Release
<1>4. ASSUME Box!EndPass PROVE Good
  BY <1>4, NothingWritten DEF Box!EndPass
<1>5. ASSUME NEW c \in Channel, Box!GraceEnds(c) PROVE Good
  BY <1>5, NothingWritten DEF Box!GraceEnds, DeliveryInv, MotionsWait
<1>6. ASSUME NEW c \in Channel, Box!React(c) PROVE Good
  BY <1>6, NothingWritten DEF Box!React, DeliveryInv, MotionsWait
<1>7. ASSUME NEW c \in Channel, Box!PrintUnprompted(c) PROVE Good
  <2>1. counts'.presses = counts.presses
    BY <1>7 DEF Box!PrintUnprompted, DeliveryInv, Box!TypeOK
  <2> QED BY <1>7, <2>1, NothingWritten DEF Box!PrintUnprompted, DeliveryInv, MotionsWait
<1>8. ASSUME UNCHANGED Box!vars PROVE Good
  BY <1>8, NothingWritten DEF Box!vars, DeliveryInv, MotionsWait
<1>9. [Box!Next]_(Box!vars) => Good
  <2> HIDE DEF Good
  <2> QED BY <1>1, <1>2, <1>3, <1>4, <1>5, <1>6, <1>7, <1>8, PassBegun, Drained, PressHandled,
             MotionOffered, ReleaseHandled, IntentRead DEF Box!Next, Box!Pass, Good
<1>10. [Box!Next]_(Box!vars) => Box!TypeOK'
  BY Typed DEF DeliveryInv
<1>11. Account(Ahead', writing', counts.presses') => PressesDelivered'
  <2>1. (PressesDelivered <=> Account(Ahead, writing, counts.presses))'
    BY Accounted, PTL
  <2> QED BY <2>1
<1> QED BY <1>9, <1>10, <1>11 DEF DeliveryInv

(* which holds at the start.                                               *)
LEMMA DeliveryStart ==
  ASSUME Elements, Box!Init
  PROVE  DeliveryInv
<1> HIDE DEF Box!Event, Box!Intent
<1>1. <<>> \in Seq(Box!Event) /\ <<>> \in Seq(Box!Intent)
  OBVIOUS
<1>2. Box!TypeOK
  BY <1>1 DEF Box!Init, Box!TypeOK
<1>3. MotionsWait
  BY DEF Box!Init, MotionsWait
<1>4. /\ Ahead = <<>> /\ \A c \in Channel : writing[c] = <<>>
  BY DEF Box!Init, Ahead, writing, Written
<1>5. /\ Nths(<<>>) = {} /\ Rising(<<>>) /\ FiredBy(<<>>) = {} /\ NotFalling(<<>>) /\ 1..0 = {}
  BY DEF Nths, Rising, FiredBy, NotFalling
<1>6. Account(Ahead, writing, counts.presses)
  BY <1>4, <1>5 DEF Box!Init, Account
<1> QED BY <1>2, <1>3, <1>6, Accounted DEF DeliveryInv

(* "A click is never superseded": for any elements, modules and positions, *)
(* any number of events and however slow the modules, no press is lost on  *)
(* its way and a module hears of its presses in the order they were made.  *)
THEOREM Delivered ==
  ASSUME Elements
  PROVE  Box!Spec => []PressesDelivered
<1>1. Box!Init => DeliveryInv
  BY DeliveryStart
<1>2. DeliveryInv /\ [Box!Next]_(Box!vars) => DeliveryInv'
  BY DeliveryStep
<1>3. DeliveryInv => PressesDelivered
  BY DEF DeliveryInv
<1> QED BY <1>1, <1>2, <1>3, PTL DEF Box!Spec

-----------------------------------------------------------------------------
(* The last intent of a module is never lost.                              *)

(* What is in a queue stays in it as more is written, and what is written  *)
(* is in it.                                                               *)
LEMMA RangeGrows ==
  ASSUME NEW S, NEW s \in Seq(S), NEW t \in Seq(S)
  PROVE  /\ Box!Range(s) \subseteq Box!Range(s \o t)
         /\ \A e \in S : /\ Box!Range(s) \subseteq Box!Range(Append(s, e))
                         /\ e \in Box!Range(Append(s, e))
         /\ t # <<>> => Box!Last(t) \in Box!Range(s \o t)
<1>1. /\ Len(s) \in Nat /\ Len(t) \in Nat /\ DOMAIN s = 1..Len(s)
      /\ DOMAIN (s \o t) = 1..(Len(s) + Len(t))
      /\ \A i \in 1..Len(s) : (s \o t)[i] = s[i]
      /\ \A i \in 1..Len(t) : (s \o t)[Len(s) + i] = t[i]
  OBVIOUS
<1>2. Box!Range(s) \subseteq Box!Range(s \o t)
  BY <1>1 DEF Box!Range
<1>3. ASSUME NEW e \in S
      PROVE  Box!Range(s) \subseteq Box!Range(Append(s, e)) /\ e \in Box!Range(Append(s, e))
  <2>1. /\ DOMAIN Append(s, e) = 1..(Len(s) + 1) /\ Append(s, e)[Len(s) + 1] = e
        /\ \A i \in 1..Len(s) : Append(s, e)[i] = s[i]
    OBVIOUS
  <2>2. Len(s) + 1 \in DOMAIN Append(s, e) /\ \A i \in DOMAIN s : i \in DOMAIN Append(s, e)
    BY <1>1, <2>1
  <2> QED BY <1>1, <2>1, <2>2 DEF Box!Range
<1>4. ASSUME t # <<>> PROVE Box!Last(t) \in Box!Range(s \o t)
  <2>1. Len(t) \in 1..Len(t) /\ Len(s) + Len(t) \in DOMAIN (s \o t)
    BY <1>1, <1>4
  <2>2. (s \o t)[Len(s) + Len(t)] = Box!Last(t)
    BY <1>1, <2>1 DEF Box!Last
  <2> QED BY <2>1, <2>2 DEF Box!Range
<1> QED BY <1>2, <1>3, <1>4

(* The last intent of module c, now that n is the last one, w is held back *)
(* and s has been written.                                                 *)
KeptIn(n, w, s) == n # None => n = w \/ n \in Box!Range(s)

AllKept == \A c \in Channel : KeptIn(newest[c], waiting[c], writing[c])

(* The property, in those words.                                           *)
LEMMA KeptMeans == Box!NewestIsKept <=> AllKept
<1>1. \A c \in Channel : writing[c] = Box!Written(c)
  BY DEF writing, Written, Box!Written
<1>2. \A c \in Channel : KeptIn(newest[c], waiting[c], writing[c])
                        <=> (newest[c] # None => newest[c] = waiting[c] \/ newest[c] \in Box!Range(Box!Written(c)))
  BY <1>1 DEF KeptIn
<1> QED BY <1>2 DEF Box!NewestIsKept, AllKept

(* A Pass that begins writes what it no longer holds back.                 *)
LEMMA PassKeeps ==
  ASSUME DeliveryInv, AllKept, Box!BeginPass
  PROVE  AllKept'
<1> HIDE DEF Box!Event, Box!Intent
<1>1. /\ stdin' = [c \in Channel |-> IF Box!Released(c) THEN Append(stdin[c], waiting[c]) ELSE stdin[c]]
      /\ waiting' = [c \in Channel |-> IF Box!Released(c) THEN None ELSE waiting[c]]
      /\ read' = read /\ newest' = newest
  BY DEF Box!BeginPass
<1> SUFFICES ASSUME NEW c \in Channel PROVE KeptIn(newest[c], waiting'[c], writing'[c])
  BY <1>1 DEF AllKept
<1>2. CASE Box!Released(c)
  <2>1. /\ waiting[c] \in Box!Intent /\ read[c] \in Seq(Box!Intent) /\ stdin[c] \in Seq(Box!Intent)
        /\ writing[c] = read[c] \o stdin[c] /\ writing[c] \in Seq(Box!Intent)
    BY <1>2, QueuesTyped DEF Box!Released, DeliveryInv
  <2>2. writing'[c] = read[c] \o Append(stdin[c], waiting[c])
    BY <1>1, <1>2 DEF writing, Written
  <2>3. read[c] \o Append(stdin[c], waiting[c]) = Append(read[c] \o stdin[c], waiting[c])
    BY <2>1, IntentsJoin, Zenon
  <2>4. writing'[c] = Append(writing[c], waiting[c])
    BY <2>1, <2>2, <2>3
  <2>5. /\ Box!Range(writing[c]) \subseteq Box!Range(writing'[c])
        /\ waiting[c] \in Box!Range(writing'[c])
    BY <2>1, <2>4, RangeGrows
  <2> QED BY <2>5 DEF AllKept, KeptIn
<1>3. CASE ~Box!Released(c)
  <2>1. waiting'[c] = waiting[c] /\ writing'[c] = writing[c]
    BY <1>1, <1>3 DEF writing, Written
  <2> QED BY <2>1 DEF AllKept
<1> QED BY <1>2, <1>3

(* A press writes all it produces, and leaves what is held back.           *)
LEMMA PressKeeps ==
  ASSUME Elements, DeliveryInv, AllKept, Box!HandlePress
  PROVE  AllKept'
<1> HIDE DEF Box!Event, Box!Intent
<1> DEFINE e == Head(batch)
           k == ChannelOf[e.element]
           intents == Box!PressIntents(e)
<1>1. Box!Handling("press")
  BY DEF Box!HandlePress
<1>2. e \in Box!Event /\ e.phase = "press"
  BY <1>1, Taken
<1>3. /\ waiting' = waiting /\ newest' = [newest EXCEPT ![k] = Box!Last(intents)]
  BY DEF Box!HandlePress, Box!Urgent
<1>4. /\ k \in Channel /\ intents \in Seq(Box!Intent) /\ intents # <<>>
  <2>1. counts.intents \in Nat
    BY QueuesTyped DEF DeliveryInv
  <2>2. /\ intents \in Seq(Box!Intent)
        /\ (\E m \in Box!Intent : intents = <<m>>) \/ (\E m, n \in Box!Intent : intents = <<m>> \o <<n>>)
    BY <1>2, <2>1, Sent
  <2>3. k \in Channel
    BY <1>2, Events DEF Elements
  <2>4. \A m, n \in Box!Intent : <<m>> # <<>> /\ <<m>> \o <<n>> # <<>>
    <3> TAKE m, n \in Box!Intent
    <3>1. Len(<<m>>) = 1 /\ Len(<<m>> \o <<n>>) = 2 /\ Len(<<>>) = 0
      OBVIOUS
    <3> QED BY <3>1
  <2> HIDE DEF e, k, intents
  <2>5. intents # <<>>
    BY <2>2, <2>4, Zenon
  <2> QED BY <2>2, <2>3, <2>5
<1>5. /\ writing'[k] = writing[k] \o intents
      /\ \A d \in Channel : d # k => writing'[d] = writing[d]
  BY PressWrites
<1> HIDE DEF e, k, intents
<1> SUFFICES ASSUME NEW c \in Channel PROVE KeptIn(newest'[c], waiting[c], writing'[c])
  BY <1>3 DEF AllKept
<1>6. writing[c] \in Seq(Box!Intent) /\ newest \in [Channel -> Box!Intent \cup {None}]
  BY QueuesTyped DEF DeliveryInv, Box!TypeOK
<1>7. CASE c = k
  <2>1. newest'[c] = Box!Last(intents)
    BY <1>3, <1>4, <1>6, <1>7
  <2>2. Box!Last(intents) \in Box!Range(writing[c] \o intents)
    BY <1>4, <1>6, RangeGrows
  <2> QED BY <1>5, <1>7, <2>1, <2>2 DEF KeptIn
<1>8. CASE c # k
  <2>1. newest'[c] = newest[c] /\ writing'[c] = writing[c]
    BY <1>3, <1>5, <1>6, <1>8
  <2> QED BY <2>1 DEF AllKept
<1> QED BY <1>7, <1>8

(* A motion's intent takes the place of one that is not the last any more, *)
(* or is written.                                                          *)
LEMMA MotionKeeps ==
  ASSUME DeliveryInv, AllKept, Box!HandleMove
  PROVE  AllKept'
<1> HIDE DEF Box!Event, Box!Intent
<1>1. Box!Handling("move")
  BY DEF Box!HandleMove
<1>2. Head(batch) \in Box!Event /\ Head(batch).phase = "move" /\ read' = read
  BY <1>1, Taken
<1>3. CASE UNCHANGED <<waiting, stdin, newest>>
  <2>1. writing' = writing
    BY <1>2, <1>3 DEF writing, Written
  <2> QED BY <1>3, <2>1 DEF AllKept
<1>4. CASE ~UNCHANGED <<waiting, stdin, newest>>
  <2> DEFINE k == ChannelOf[capture.element]
             intent == [value |-> Head(batch).at, press |-> 0, seq |-> counts.intents + 1]
  <2>1. Box!Offer(k, intent) /\ newest' = [newest EXCEPT ![k] = intent]
    BY <1>4 DEF Box!HandleMove, Box!outbox
  <2>2. intent \in Box!Intent
    <3>1. 0 \in Nat /\ counts.intents + 1 \in Nat
      BY QueuesTyped DEF DeliveryInv
    <3>2. Head(batch).at \in Position
      BY <1>2, Events
    <3> QED BY <3>1, <3>2, Intended
  <2> HIDE DEF k, intent
  <2> SUFFICES ASSUME NEW c \in Channel PROVE KeptIn(newest'[c], waiting'[c], writing'[c])
    BY DEF AllKept
  <2>3. /\ writing[c] \in Seq(Box!Intent) /\ newest \in [Channel -> Box!Intent \cup {None}]
        /\ waiting \in [Channel -> Box!Intent \cup {None}] /\ stdin \in [Channel -> Seq(Box!Intent)]
        /\ writing[c] = read[c] \o stdin[c] /\ read[c] \in Seq(Box!Intent) /\ stdin[c] \in Seq(Box!Intent)
    BY QueuesTyped DEF DeliveryInv, Box!TypeOK
  <2>4. CASE c # k
    <3>1. waiting'[c] = waiting[c] /\ stdin'[c] = stdin[c] /\ newest'[c] = newest[c]
      BY <2>1, <2>3, <2>4 DEF Box!Offer
    <3>2. writing'[c] = writing[c]
      BY <1>2, <3>1 DEF writing, Written
    <3> QED BY <3>1, <3>2 DEF AllKept
  <2>5. CASE c = k /\ k \in busy
    <3>1. waiting'[c] = intent /\ newest'[c] = intent
      BY <2>1, <2>3, <2>5 DEF Box!Offer
    <3> QED BY <3>1 DEF KeptIn
  <2>6. CASE c = k /\ k \notin busy
    <3>1. stdin'[c] = Append(stdin[c], intent) /\ newest'[c] = intent
      BY <2>1, <2>3, <2>6 DEF Box!Offer
    <3>2. writing'[c] = read[c] \o Append(stdin[c], intent)
      BY <1>2, <3>1 DEF writing, Written
    <3>3. read[c] \o Append(stdin[c], intent) = Append(read[c] \o stdin[c], intent)
      BY <2>2, <2>3, IntentsJoin, Zenon
    <3>4. intent \in Box!Range(writing'[c])
      BY <2>2, <2>3, <3>2, <3>3, RangeGrows
    <3> QED BY <3>1, <3>4 DEF KeptIn
  <2> QED BY <2>4, <2>5, <2>6
<1> QED BY <1>3, <1>4

(* However many intents a drag produces while a module is silent, busy or  *)
(* pressed upon, the last one is held back for it or written, in any state:*)
(* what is left of NewestIsRead is that passes and the module go on        *)
(* (outbox.rs:16-20).                                                      *)
THEOREM LastIntentIsKept ==
  ASSUME Elements
  PROVE  Box!Spec => []Box!NewestIsKept
<1> DEFINE Inv == DeliveryInv /\ AllKept
<1>1. Box!Init => Inv
  <2> SUFFICES ASSUME Box!Init PROVE AllKept
    BY DeliveryStart
  <2>1. \A c \in Channel : newest[c] = None
    BY DEF Box!Init
  <2> QED BY <2>1 DEF AllKept, KeptIn
<1>2. Inv /\ [Box!Next]_(Box!vars) => Inv'
  <2> SUFFICES ASSUME DeliveryInv, AllKept, [Box!Next]_(Box!vars) PROVE AllKept'
    BY DeliveryStep
  <2>1. ASSUME UNCHANGED <<waiting, newest, writing>> PROVE AllKept'
    BY <2>1 DEF AllKept
  <2>2. ASSUME UNCHANGED <<waiting, newest, stdin, read>> PROVE AllKept'
    <3>1. writing' = writing
      BY <2>2 DEF writing, Written
    <3> QED BY <2>1, <2>2, <3>1
  <2>3. ASSUME NEW c \in Channel, Box!Read(c) PROVE AllKept'
    <3>1. \A d \in Channel : writing'[d] = writing[d]
      BY <2>3, ReadKeeps
    <3>2. UNCHANGED <<waiting, newest>>
      BY <2>3 DEF Box!Read, Box!outbox
    <3> QED BY <3>1, <3>2 DEF AllKept
  <2>4. ASSUME NEW c \in Channel, Box!GraceEnds(c) \/ Box!React(c) \/ Box!PrintUnprompted(c) PROVE AllKept'
    BY <2>2, <2>4 DEF Box!GraceEnds, Box!React, Box!PrintUnprompted, Box!outbox, Box!modules
  <2>5. ASSUME Box!DrainEvents \/ Box!EndPass \/ Box!HandleRelease PROVE AllKept'
    BY <2>2, <2>5 DEF Box!DrainEvents, Box!EndPass, Box!HandleRelease, Box!Handling, Box!outbox, Box!modules
  <2>6. ASSUME NEW e, Box!Send(e) PROVE AllKept'
    BY <2>2, <2>6 DEF Box!Send, Box!outbox, Box!modules
  <2>7. ASSUME UNCHANGED Box!vars PROVE AllKept'
    BY <2>2, <2>7 DEF Box!vars, Box!outbox, Box!modules
  <2> QED BY <2>3, <2>4, <2>5, <2>6, <2>7, PassKeeps, PressKeeps, MotionKeeps
          DEF Box!Next, Box!Pass, Box!Move, Box!Press, Box!Release
<1>3. Inv => Box!NewestIsKept
  BY KeptMeans
<1> QED BY <1>1, <1>2, <1>3, PTL DEF Box!Spec
=============================================================================
