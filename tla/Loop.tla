-------------------------------- MODULE Loop --------------------------------
(* The Loop (src/src/data/data_loop/mod.rs) and what a Tick makes of what  *)
(* reached it (src/src/app.rs): the one thread that supervises the         *)
(* subprocesses, hears their lines, evaluates the layout, reloads it when  *)
(* its files change and re-execs when the binary does.  Everything with    *)
(* work for it sends on a channel of its own and then pings; pings are a   *)
(* channel of capacity one.  What an eval shows goes to RenderPipeline,    *)
(* pointer events to Intents.                                              *)
EXTENDS Integers, Sequences

CONSTANTS
  Key,           \* what a layout may run: streams and modules
  Line,          \* what they print
  Noisy,         \* those that write to stderr, too
  Source,        \* contents of the layout file
  Broken,        \* those that do not compile
  Misshapen,     \* those that render something no Surfaces can be read from
  Imports,       \* those that import a file of another directory
  Lib,           \* contents of that file
  BrokenLib,     \* those that do not compile
  Wants(_, _),   \* what a source runs given the values, None if it throws
  MaxEvents,     \* bound: what happens outside of the Loop
  None

Values == [Key -> Line \cup {None}]
NoValues == [k \in Key |-> None]

ASSUME FilesAssumption == /\ Broken \cup Misshapen \cup Imports \subseteq Source
                          /\ BrokenLib \subseteq Lib /\ Noisy \subseteq Key
                          /\ None \notin Source \cup Line
ASSUME BoundAssumption == MaxEvents \in Nat
ASSUME WantsAssumption ==
  \A source \in Source, values \in Values : Wants(source, values) \in (SUBSET Key) \cup {None}

VARIABLES
  disk,      \* the files: the layout file, None when missing, and the import
  plugged,   \* the displays: how often they have changed
  watched,   \* is the import among the InterestingPaths
  unseen,    \* history: has the import changed unwatched since the last event
  at,        \* where the Loop is in its pass
  ping,      \* the notifier, full or empty
  pinging,   \* the threads that have sent and not pinged yet
  declared,  \* channel: the desired sets of the evals
  items,     \* channel: lines
  inbox,     \* channel: OutputsChanged
  reloads,   \* channel: how many reloads are asked for
  replaced,  \* channel: how many times the binary was replaced
  wanted,    \* the desired set being supervised
  pool,      \* the subprocess of each key: which start it is, and its state
  said,      \* the last line it printed on stdout
  values,    \* stream_values
  changed,   \* has this Tick heard something new
  known,     \* the displays the App has heard of
  loaded,    \* the layout being installed
  installed, \* the evaluator in use: the files and the ctx it was built from
  shown,     \* the last eval: the evaluator, displays and values it used
  before,    \* history: the start of every key before the last reload
  events     \* what has happened outside so far

world == <<disk, plugged, watched, unseen>>
channels == <<declared, items, inbox, reloads, replaced>>
processes == <<wanted, pool, said>>
app == <<values, changed, known, loaded, installed, shown, before>>
vars == <<world, at, ping, pinging, channels, processes, app, events>>

Latest(queue) == queue[Len(queue)]

File == [source : Source \cup {None}, lib : Lib]
Layout == [source : Source, lib : Lib, ctx : Nat]
Subprocess == [start : Nat, state : {"none", "up", "crashed"}]
Item == [key : Key, line : Line]

ASSUME NoneAssumption == None \notin Layout

(* An eval that does not throw may still be one that nothing comes of.     *)
Evaluates(source, vals) == Wants(source, vals) # None
Applies(source, vals) == Evaluates(source, vals) /\ source \notin Misshapen

LoadsMissing(file) == /\ file.source \notin Broken
                      /\ file.source \in Imports => file.lib \notin BrokenLib
                      /\ Evaluates(file.source, NoValues)

(* It parses, what it imports does, and its first eval does not throw.     *)
Loads(file) == /\ file.source \notin Broken \cup {None}
               /\ file.source \in Imports => file.lib \notin BrokenLib
               /\ Evaluates(file.source, NoValues)

(* The desired set of an eval, if anything comes of it.                    *)
Declares(source, vals) == IF Applies(source, vals) THEN <<Wants(source, vals)>> ELSE <<>>

Built(file, displays) == [source |-> file.source, lib |-> file.lib, ctx |-> displays]

Eval(evaluator, vals, displays) ==
  [evaluator |-> evaluator, values |-> vals, displays |-> displays]

(* The App starts on whatever is on disk; without a layout it shows none.  *)
Init ==
  /\ \E file \in File :
       LET shows == Loads(file) /\ Applies(file.source, NoValues)
       IN /\ disk = file
          /\ installed = IF Loads(file) THEN Built(file, 0) ELSE None
          /\ shown = IF shows THEN Eval(Built(file, 0), NoValues, 0) ELSE None
          /\ declared = IF shows THEN Declares(file.source, NoValues) ELSE <<>>
          /\ ping = shows
          /\ watched = (Loads(file) /\ file.source \in Imports)
  /\ plugged = 0 /\ unseen = FALSE
  /\ at = "top" /\ pinging = {}
  /\ items = <<>> /\ inbox = <<>> /\ reloads = 0 /\ replaced = 0
  /\ wanted = {} /\ pool = [k \in Key |-> [start |-> 0, state |-> "none"]]
  /\ said = NoValues /\ values = NoValues /\ changed = FALSE
  /\ known = 0 /\ loaded = None
  /\ before = [k \in Key |-> 0]
  /\ events = 0

-----------------------------------------------------------------------------
(* Supervision: the top of a pass.                                         *)

(* Reconciling kills what is no longer wanted and starts what is missing   *)
(* or has crashed.                                                         *)
ReconcileAlive(set) ==
  /\ pool' = [k \in Key |->
       IF k \notin set THEN [pool[k] EXCEPT !.state = "none"]
       ELSE IF pool[k].state # "none" THEN pool[k] \* a crashed one stays dead
       ELSE [start |-> pool[k].start + 1, state |-> "up"]]
  /\ said' = [k \in Key |-> IF pool[k] = pool'[k] THEN said[k] ELSE None]

Reconcile(set) ==
  /\ pool' = [k \in Key |->
       IF k \notin set THEN [pool[k] EXCEPT !.state = "none"]
       ELSE IF pool[k].state = "up" THEN pool[k]
       ELSE [start |-> pool[k].start + 1, state |-> "up"]]
  /\ said' = [k \in Key |-> IF pool[k] = pool'[k] THEN said[k] ELSE None]

TakeNewestDesired ==
  /\ at = "top" /\ declared # <<>>
  /\ wanted' = Latest(declared)
  /\ Reconcile(Latest(declared))
  /\ declared' = <<>>
  /\ UNCHANGED <<world, at, ping, pinging, items, inbox, reloads, replaced, app, events>>

(* Every declared set is reconciled, in order, the last one to stay.       *)
TakeDesired ==
  /\ at = "top" /\ declared # <<>>
  /\ wanted' = Head(declared)
  /\ Reconcile(Head(declared))
  /\ declared' = Tail(declared)
  /\ UNCHANGED <<world, at, ping, pinging, items, inbox, reloads, replaced, app, events>>

Supervise ==
  /\ at = "top" /\ declared = <<>>
  /\ Reconcile(wanted)
  /\ at' = "hear"
  /\ UNCHANGED <<world, ping, pinging, channels, wanted, app, events>>

-----------------------------------------------------------------------------
(* The Tick.                                                               *)

DeclareQuietly(sets) == declared' = declared \o sets /\ ping' = ping

Declare(sets) == declared' = declared \o sets /\ ping' = TRUE

EvalAndShow(vals, displays) ==
  /\ shown' = IF installed # None /\ Applies(installed.source, vals)
                THEN Eval(installed, vals, displays) ELSE shown
  /\ UNCHANGED <<declared, ping>>

(* apply_eval_result: show what the eval returned and declare what it runs,*)
(* or leave everything as it is when it throws or has no Surfaces.         *)
EvalAndApply(vals, displays) ==
  IF installed # None /\ Applies(installed.source, vals)
    THEN /\ shown' = Eval(installed, vals, displays)
         /\ Declare(<<Wants(installed.source, vals)>>)
    ELSE UNCHANGED <<shown, declared, ping>>

(* Every line that arrived replaces the value of its key.                  *)
Hear ==
  /\ at = "hear" /\ items # <<>>
  /\ LET item == Head(items)
     IN /\ values' = [values EXCEPT ![item.key] = item.line]
        /\ changed' = (changed \/ item.line # values[item.key])
  /\ items' = Tail(items)
  /\ UNCHANGED <<world, at, ping, pinging, declared, inbox, reloads, replaced, processes,
                 known, loaded, installed, shown, before, events>>

(* One eval for all of them, if one was news.                              *)
Tick ==
  /\ at = "hear" /\ items = <<>>
  /\ IF changed THEN EvalAndApply(values, known) ELSE UNCHANGED <<shown, declared, ping>>
  /\ changed' = FALSE
  /\ at' = "binary"
  /\ UNCHANGED <<world, pinging, items, inbox, reloads, replaced, processes, values, known,
                 loaded, installed, before, events>>

CheckBinaryWithoutStop ==
  /\ at = "binary"
  /\ replaced' = IF replaced > 0 THEN replaced - 1 ELSE replaced
  /\ at' = "reload"
  /\ UNCHANGED <<world, ping, pinging, declared, items, inbox, reloads, processes, app,
                 events>>

(* A replaced binary ends the pass and the Loop.                           *)
CheckBinary ==
  /\ at = "binary"
  /\ IF replaced > 0 THEN replaced' = replaced - 1 /\ at' = "stopping"
                     ELSE at' = "reload" /\ UNCHANGED replaced
  /\ UNCHANGED <<world, ping, pinging, declared, items, inbox, reloads, processes, app,
                 events>>

(* One reload a pass.  A layout that does not load changes nothing.        *)
Reload ==
  /\ at = "reload"
  /\ IF reloads > 0 /\ Loads(disk)
       THEN /\ loaded' = Built(disk, known)
            /\ at' = "install"
       ELSE at' = "events" /\ UNCHANGED loaded
  /\ reloads' = IF reloads > 0 THEN reloads - 1 ELSE 0
  /\ UNCHANGED <<world, ping, pinging, declared, items, inbox, replaced, processes, values,
                 changed, known, installed, shown, before, events>>

InstallOverValues ==
  /\ at = "install"
  /\ at' = "events"
  /\ Declare(<<{}>> \o Declares(loaded.source, NoValues))
  /\ shown' = IF Applies(loaded.source, NoValues) THEN Eval(loaded, NoValues, known)
                                                 ELSE shown
  /\ installed' = loaded /\ loaded' = None
  /\ watched' = (loaded.source \in Imports)
  /\ before' = [k \in Key |-> pool[k].start]
  /\ UNCHANGED <<disk, plugged, unseen, pinging, items, inbox, reloads, replaced, processes,
                 values, changed, known, events>>

InstallDrainingReloads ==
  /\ at = "install"
  /\ at' = "events"
  /\ Declare(<<{}>> \o Declares(loaded.source, NoValues))
  /\ values' = NoValues
  /\ shown' = IF Applies(loaded.source, NoValues) THEN Eval(loaded, NoValues, known)
                                                 ELSE shown
  /\ installed' = loaded /\ loaded' = None
  /\ watched' = (loaded.source \in Imports)
  /\ before' = [k \in Key |-> pool[k].start]
  /\ reloads' = 0
  /\ UNCHANGED <<disk, plugged, unseen, pinging, items, inbox, replaced, processes, changed,
                 known, events>>

(* What did load replaces everything at once: no process survives it, and  *)
(* no value.  Only now are its imports watched, and only now does it turn  *)
(* out whether there are Surfaces in it.                                   *)
Install ==
  /\ at = "install"
  /\ at' = "events"
  /\ Declare(<<{}>> \o Declares(loaded.source, NoValues))
  /\ values' = NoValues
  /\ shown' = IF Applies(loaded.source, NoValues) THEN Eval(loaded, NoValues, known)
                                                 ELSE shown
  /\ installed' = loaded /\ loaded' = None
  /\ watched' = (loaded.source \in Imports)
  /\ before' = [k \in Key |-> pool[k].start]
  /\ UNCHANGED <<disk, plugged, unseen, pinging, items, inbox, reloads, replaced, processes,
                 changed, known, events>>

(* The presenter's events, all of them: the last on the displays is it.    *)
HandleEvents ==
  /\ at = "events"
  /\ IF inbox = <<>>
       THEN UNCHANGED <<known, shown, declared, ping>>
       ELSE known' = Latest(inbox) /\ EvalAndApply(values, Latest(inbox))
  /\ inbox' = <<>>
  /\ at' = "waiting"
  /\ UNCHANGED <<world, pinging, items, reloads, replaced, processes, values, changed,
                 loaded, installed, before, events>>

-----------------------------------------------------------------------------
(* The wait: a ping, or the supervision interval.                          *)
Wake ==
  /\ at = "waiting" /\ ping
  /\ ping' = FALSE /\ at' = "top"
  /\ UNCHANGED <<world, pinging, channels, processes, app, events>>

IntervalPasses ==
  /\ at = "waiting" /\ ~ping
  /\ at' = "top"
  /\ UNCHANGED <<world, ping, pinging, channels, processes, app, events>>

(* main goes on to kill every subprocess and to exec the new binary.       *)
Shutdown ==
  /\ at = "stopping"
  /\ Reconcile({})
  /\ at' = "exec"
  /\ UNCHANGED <<world, ping, pinging, channels, wanted, app, events>>

Pass == TakeDesired \/ Supervise \/ Hear \/ Tick \/ CheckBinary \/ Reload \/ Install
          \/ HandleEvents \/ Wake \/ IntervalPasses \/ Shutdown

-----------------------------------------------------------------------------
(* The other threads.  A thread sends and then pings.                      *)
Happens == at # "exec" /\ events < MaxEvents /\ events' = events + 1

Sends(thread) == thread \notin pinging /\ pinging' = pinging \cup {thread}

Ping(thread) ==
  /\ thread \in pinging
  /\ ping' = TRUE /\ pinging' = pinging \ {thread}
  /\ UNCHANGED <<world, at, channels, processes, app, events>>

(* The pool hands on what a process writes, on stdout or stderr.           *)
Write(k, line, stream) ==
  /\ Happens /\ Sends("bridge")
  /\ pool[k].state = "up"
  /\ stream = "stderr" => k \in Noisy
  /\ items' = Append(items, [key |-> k, line |-> line])
  /\ said' = IF stream = "stdout" THEN [said EXCEPT ![k] = line] ELSE said
  /\ UNCHANGED <<world, at, ping, declared, inbox, reloads, replaced, wanted, pool, app>>

(* A crash tells nobody.                                                   *)
Crash(k) ==
  /\ Happens
  /\ pool[k].state = "up"
  /\ pool' = [pool EXCEPT ![k].state = "crashed"]
  /\ UNCHANGED <<world, at, ping, pinging, channels, wanted, said, app>>

SaveLayout(source) ==
  /\ Happens /\ Sends("watcher")
  /\ disk' = [disk EXCEPT !.source = source]
  /\ reloads' = reloads + 1 /\ unseen' = FALSE
  /\ UNCHANGED <<plugged, watched, at, ping, declared, items, inbox, replaced, processes, app>>

(* A change of the import is an event only while the import is watched.    *)
SaveImport(lib) ==
  /\ Happens
  /\ disk' = [disk EXCEPT !.lib = lib]
  /\ unseen' = ~watched
  /\ IF watched THEN Sends("watcher") /\ reloads' = reloads + 1
                ELSE UNCHANGED <<pinging, reloads>>
  /\ UNCHANGED <<plugged, watched, at, ping, declared, items, inbox, replaced, processes, app>>

ReplaceBinary ==
  /\ Happens /\ Sends("watcher")
  /\ replaced' = replaced + 1
  /\ UNCHANGED <<world, at, ping, declared, items, inbox, reloads, processes, app>>

Hotplug ==
  /\ Happens /\ Sends("presenter")
  /\ plugged' = plugged + 1
  /\ inbox' = Append(inbox, plugged + 1)
  /\ UNCHANGED <<disk, watched, unseen, at, ping, declared, items, reloads, replaced,
                 processes, app>>

Outside ==
  \/ \E k \in Key : Crash(k) \/ \E line \in Line, stream \in {"stdout", "stderr"} :
                                   Write(k, line, stream)
  \/ \E source \in Source : SaveLayout(source)
  \/ \E lib \in Lib : SaveImport(lib)
  \/ ReplaceBinary \/ Hotplug

Gone == at = "exec" /\ UNCHANGED vars

Next == Pass \/ Outside \/ (\E thread \in pinging : Ping(thread)) \/ Gone

Spec == Init /\ [][Next]_vars

(* The Loop's thread runs, its timer included, and a thread that has sent  *)
(* goes on to ping.  Nothing outside has to happen.                        *)
FairSpec == Spec /\ WF_vars(Pass) /\ WF_vars(\E thread \in pinging : Ping(thread))

-----------------------------------------------------------------------------
(* Properties.                                                             *)
TypeOK ==
  /\ disk \in File /\ plugged \in Nat /\ watched \in BOOLEAN /\ unseen \in BOOLEAN
  /\ at \in {"top", "hear", "binary", "reload", "install", "events", "waiting",
             "stopping", "exec"}
  /\ ping \in BOOLEAN /\ pinging \subseteq {"bridge", "watcher", "presenter"}
  /\ declared \in Seq(SUBSET Key) /\ items \in Seq(Item) /\ inbox \in Seq(Nat)
  /\ reloads \in Nat /\ replaced \in Nat
  /\ wanted \subseteq Key /\ pool \in [Key -> Subprocess] /\ said \in Values
  /\ values \in Values /\ changed \in BOOLEAN /\ known \in Nat
  /\ loaded \in Layout \cup {None} /\ (loaded # None) = (at = "install")
  /\ installed \in Layout \cup {None}
  /\ shown \in [evaluator : Layout, values : Values, displays : Nat] \cup {None}
  /\ before \in [Key -> Nat]
  /\ events \in Nat

(* What is going to run once the Loop has caught up with the evals.        *)
Target == IF declared = <<>> THEN wanted ELSE Latest(declared)

(* The Loop never waits out its interval on a line, a declared process, a  *)
(* display or a new binary: "anything with work for it pings" (ADR 0024).  *)
NothingSleeps ==
  at = "waiting" /\ ~ping /\ pinging = {} =>
    items = <<>> /\ declared = <<>> /\ inbox = <<>> /\ replaced = 0

(* The bar and the processes behind it go together: what runs, or is going *)
(* to, is what the layout on the screen asked for (ADR 0009), and a reload *)
(* that fails leaves both as they are - but while a layout without Surfaces*)
(* is in use, nothing runs behind the bar that stays.                      *)
RunsWhatIsShown ==
  shown # None =>
    Target = IF installed.source \in Misshapen THEN {} ELSE Wants(shown.evaluator.source, shown.values)

(* A reload that fails "must leave the currently-running layout's ...      *)
(* dispatched Items untouched" (app.rs:1256): not so, see the README.      *)
KeepsWhatIsShown ==
  shown # None => Target = Wants(shown.evaluator.source, shown.values)

(* Once a Tick has evaluated what it heard, the screen shows the layout in *)
(* use on the values and displays there are, unless it throws on them.     *)
ShowsWhatItKnows ==
  installed # None /\ ~changed /\ Applies(installed.source, values) =>
    shown = Eval(installed, values, known)

(* "On reload every subprocess is restarted" (layout-file.md:26): once its *)
(* desired sets are taken, nothing that ran before it is up.               *)
ReloadRestarts ==
  declared = <<>> => \A k \in Key : pool[k].state = "up" => pool[k].start > before[k]

OnDisk(layout) ==
  layout.source = disk.source /\ (disk.source \in Imports => layout.lib = disk.lib)
UpToDate == installed # None /\ OnDisk(installed)

(* In the end the layout in use is the one on disk, if that one loads and  *)
(* the watcher had a chance to hear of it.                                 *)
CatchesUp == <>[](at = "exec" \/ unseen \/ ~Loads(disk) \/ UpToDate)

(* What that rests on, in any state: it is, or is being installed, or a    *)
(* reload is asked for that no earlier one has used up (app.rs:            *)
(* handle_layout_reload reads the files after it has taken the request).   *)
NoSaveIsMissed ==
  \/ unseen \/ ~Loads(disk) \/ reloads > 0
  \/ IF loaded # None THEN OnDisk(loaded) ELSE UpToDate

(* In the end what is wanted is up, crashed or not, nothing else is, and   *)
(* each value is the last line its process printed on stdout (data.md:33). *)
Settles ==
  <>[](at = "exec" \/ (/\ \A k \in Key : (pool[k].state = "up") = (k \in wanted)
                       /\ \A k \in wanted : said[k] # None => values[k] = said[k]))

(* In any state: what runs or has crashed is what is wanted, and nothing   *)
(* outlives the exec, which would leave it a zombie (main.rs:446-450).     *)
RunsTheWanted ==
  IF at = "exec" THEN \A k \in Key : pool[k].state = "none"
  ELSE \A k \in Key : pool[k].state # "none" <=> k \in wanted

(* And the last line a process printed is the value of its key, or is still*)
(* to be heard as the last of its key, or a restart of it is declared that *)
(* the values were emptied for; never is it undone by a line of an earlier *)
(* process of the key.  What goes to stderr breaks it.                     *)
LinesAreKept ==
  \A k \in Key \ Noisy : said[k] # None =>
    LET mine == {i \in DOMAIN items : items[i].key = k}
    IN \/ mine = {} /\ values[k] = said[k]
       \/ \E i \in mine : items[i].line = said[k] /\ \A j \in mine : j <= i
       \/ \E i \in DOMAIN declared : k \notin declared[i]

(* A new binary is run, and no subprocess outlives the exec, which would   *)
(* leave it a zombie (main.rs:446-450).                                    *)
BinaryIsReplaced ==
  replaced > 0 ~> at = "exec" /\ \A k \in Key : pool[k].state = "none"

(* "Both the layout and the config are hot-reloaded on save" (README.md:8).*)
HotReloads == <>[](at = "exec" \/ ~Loads(disk) \/ UpToDate)

(* ctx is "injected by Rust before each evaluation" (data.md:281): what is *)
(* shown was evaluated for the displays there are.                         *)
CtxIsCurrent == <>[](at # "exec" /\ shown # None => shown.evaluator.ctx = plugged)
=============================================================================
