-------------------------------- MODULE Units --------------------------------
(* Units (src/src/units.rs): the reconciler thread evaluates the layout in *)
(* a runtime of its own, asks each Unit what the world holds, and runs the *)
(* hooks the difference calls for, while the data, the globals, the layout *)
(* and the world itself change.                                            *)
EXTENDS Integers, FiniteSets

CONSTANTS
  Layout,     \* the layouts that are saved
  Data,       \* the Stream values
  NoData,     \* those of a layout that has just been loaded
  Globals,    \* the globals
  NoGlobals,  \* those of a layout that has just been loaded
  Item,       \* the Items there are: their Unit, key and value
  Declares,   \* what a layout declares for the data and the globals
  Throws,     \* an evaluation that throws
  Manages,    \* the hooks of each Unit
  Claims,     \* the keys that take a thing only one of them can have
  MaxLoads,   \* bound: loads of a layout
  MaxEvents   \* bound: changes of data, globals and world, and throws

Unit == {i.unit : i \in Item}
Hook == {"exit", "update", "enter"}
EnterFirst == <<"enter", "update", "exit">>
Functional(s) == \A i, j \in s : i.unit = j.unit /\ i.key = j.key => i = j

ASSUME DataAssumption == NoData \in Data /\ NoGlobals \in Globals /\ Item # {}
ASSUME DeclaresAssumption ==
  \A l \in Layout, d \in Data, g \in Globals :
    Declares[l][d][g] # Throws => Declares[l][d][g] \subseteq Item /\ Functional(Declares[l][d][g])
ASSUME ManagesAssumption == Manages \in [Unit -> SUBSET Hook]
ASSUME BoundsAssumption == MaxLoads \in Nat \ {0} /\ MaxEvents \in Nat

VARIABLES
  shown,     \* the layout of the bar
  load,      \* which load of a layout that is
  values,    \* the shared Stream values
  globals,   \* the shared globals
  joining,   \* the layout the Loop loads once the sweep in flight is over
  world,     \* the Items there are, whoever made them
  sweeper,   \* the reconciler thread of each load
  calm,      \* history: since the sweep began, nothing threw and nothing drifted
  settled,   \* history: did the world hold what was declared when it began
  clicked,   \* history: have the globals changed since the last evaluation
  warm,      \* history: the Items that were declared and there at the last load
  events     \* changes of data, globals and world, and throws so far

environment == <<shown, load, values, globals, joining>>
history == <<calm, settled, warm>>
vars == <<environment, world, sweeper, history, clicked, events>>

Sweeper == [at : {"none", "asleep", "observe", "over", "dead"} \cup Hook,
            idle : BOOLEAN, saw : Data, declared : SUBSET Item,
            left : SUBSET Unit, unit : Unit, seen : SUBSET Item]
NoSweeper == [at |-> "none", idle |-> FALSE, saw |-> NoData, declared |-> {},
              left |-> {}, unit |-> CHOOSE u \in Unit : TRUE, seen |-> {}]
Start == [NoSweeper EXCEPT !.at = "asleep"]

Of(u, items) == {i \in items : i.unit = u}
Has(items, item) == \E i \in items : i.unit = item.unit /\ i.key = item.key
Declared(s) == {i.unit : i \in s.declared}

(* The world holds of a Unit what is declared.  What a Unit has no hook    *)
(* for it does not manage.                                                 *)
Right(u, items) ==
  /\ "enter" \in Manages[u] => \A i \in Of(u, items) : Has(world, i)
  /\ "update" \in Manages[u] => \A i \in Of(u, items) : Has(world, i) => i \in world
  /\ "exit" \in Manages[u] => \A i \in Of(u, world) : Has(items, i)
AllRight(items) == \A u \in {i.unit : i \in items} : Right(u, items)

(* Exits first, so that a Unit can free a thing before it claims it again. *)
Order == <<"exit", "update", "enter">>
NextHook(hook) == CHOOSE h \in Hook : \E i \in 1..2 : Order[i] = hook /\ Order[i + 1] = h

BatchOfStrangers(hook, s) ==
  LET desired == Of(s.unit, s.declared) IN
  CASE hook = "exit"   -> {i \in s.seen : ~Has(desired, i)}
    [] hook = "update" -> {i \in desired : Has(s.seen, i)}
    [] hook = "enter"  -> desired

(* reconcile: what a hook is given.                                        *)
Batch(hook, s) ==
  LET desired == Of(s.unit, s.declared) IN
  CASE hook = "exit"   -> {i \in s.seen : ~Has(desired, i)}
    [] hook = "update" -> {i \in desired : Has(s.seen, i) /\ i \notin s.seen}
    [] hook = "enter"  -> {i \in desired : ~Has(s.seen, i)}

Set(items, item) == {i \in items : ~(i.unit = item.unit /\ i.key = item.key)} \cup {item}

AfterBeside(hook, acted) == IF hook = "exit" THEN world \ acted ELSE world \cup acted

(* What the world is after a hook has acted on some Items.                 *)
After(hook, acted) ==
  IF hook = "exit" THEN {i \in world : ~Has(acted, i)}
  ELSE {i \in world : ~Has(acted, i)} \cup acted

Taken(item) == item.key \in Claims /\ \E i \in world : i.key \in Claims /\ i.key # item.key

Event == events < MaxEvents /\ events' = events + 1

Init ==
  /\ shown \in Layout /\ load = 1 /\ values = NoData /\ globals = NoGlobals
  /\ joining = "no" /\ world = {}
  /\ sweeper = [n \in 1..MaxLoads |-> IF n = 1 THEN Start ELSE NoSweeper]
  /\ calm = TRUE /\ settled = FALSE /\ clicked = FALSE /\ warm = {} /\ events = 0

-----------------------------------------------------------------------------
(* The reconciler thread.                                                  *)

(* Its evaluator cannot be built: the thread ends.                         *)
FailToStart(n) ==
  /\ Event /\ sweeper[n] = Start
  /\ sweeper' = [sweeper EXCEPT ![n].at = "dead"]
  /\ UNCHANGED <<environment, world, history, clicked>>

Stop(n) ==
  /\ sweeper[n].at = "asleep" /\ n = load /\ joining # "no"
  /\ sweeper' = [sweeper EXCEPT ![n].at = "over"]
  /\ UNCHANGED <<environment, world, history, clicked, events>>

IdleOnEmptyEval(n) == sweeper[n].idle

(* A layout that declared no Unit is not evaluated again for the same data.*)
Idle(n) == sweeper[n].idle /\ sweeper[n].saw = values

(* The evaluation of a sweep.  One that throws counts no Unit.             *)
Evaluate(n) ==
  /\ sweeper[n].at = "asleep" /\ ~(n = load /\ joining # "no") /\ ~Idle(n)
  /\ LET items == Declares[shown][values][globals]
         declared == IF items = Throws THEN {} ELSE items
     IN /\ sweeper' = [sweeper EXCEPT
              ![n] = [Start EXCEPT !.at = IF declared = {} THEN "asleep" ELSE "observe",
                                   !.idle = (declared = {}), !.saw = values,
                                   !.declared = declared,
                                   !.left = {i.unit : i \in declared}]]
        /\ settled' = AllRight(declared)
  /\ calm' = TRUE /\ clicked' = FALSE
  /\ UNCHANGED <<environment, world, warm, events>>

(* observe: one that throws reads as an empty world.                       *)
Observe(n, u) ==
  /\ sweeper[n].at = "observe" /\ u \in sweeper[n].left
  /\ \/ /\ sweeper' = [sweeper EXCEPT ![n].at = Order[1], ![n].unit = u, ![n].seen = Of(u, world)]
        /\ UNCHANGED <<calm, events>>
     \/ /\ Event /\ calm' = FALSE
        /\ sweeper' = [sweeper EXCEPT ![n].at = Order[1], ![n].unit = u, ![n].seen = {}]
  /\ UNCHANGED <<environment, world, settled, warm, clicked>>

(* A hook is given its batch, and acts on all of it, or throws on the way. *)
RunHook(n, hook) ==
  LET s == sweeper[n]
      batch == IF hook \in Manages[s.unit] THEN Batch(hook, s) ELSE {}
      refused == {i \in batch : hook # "exit" /\ Taken(i)}
      last == hook = Order[3]
      left == IF last THEN s.left \ {s.unit} ELSE s.left
  IN
  /\ s.at = hook
  /\ \E acted \in SUBSET (batch \ refused) :
       /\ world' = After(hook, acted)
       /\ IF acted = batch THEN UNCHANGED <<calm, events>>
          ELSE IF refused # {} THEN UNCHANGED <<calm, events>>
          ELSE Event /\ calm' = FALSE
  /\ sweeper' = [sweeper EXCEPT ![n].at = IF ~last THEN NextHook(hook)
                                          ELSE IF left = {} THEN "asleep" ELSE "observe",
                                ![n].left = left, ![n].seen = IF last THEN {} ELSE @]
  /\ UNCHANGED <<environment, settled, warm, clicked>>

-----------------------------------------------------------------------------
(* The Loop.                                                               *)

Tick(d) ==
  /\ joining = "no" /\ d # values /\ Event /\ values' = d
  /\ UNCHANGED <<shown, load, globals, joining, world, sweeper, history, clicked>>

Click(g) ==
  /\ joining = "no" /\ g # globals /\ Event /\ globals' = g /\ clicked' = TRUE
  /\ UNCHANGED <<shown, load, values, joining, world, sweeper, history>>

(* A reload, or the process replacing itself: the values are emptied, the  *)
(* thread is told to stop, and waited for.  That the old layout may be     *)
(* swept on no data before it is told is a Tick(NoData) before this.       *)
Reload(l) ==
  /\ joining = "no" /\ load < MaxLoads
  /\ joining' = l /\ values' = NoData
  /\ LET items == Declares[shown][values][globals]
     IN warm' = IF items = Throws \/ l # shown THEN {} ELSE items \cap world
  /\ UNCHANGED <<shown, load, globals, world, sweeper, calm, settled, clicked, events>>

RespawnAtOnce ==
  /\ joining # "no"
  /\ shown' = joining /\ load' = load + 1 /\ joining' = "no"
  /\ globals' = NoGlobals /\ clicked' = FALSE
  /\ sweeper' = [sweeper EXCEPT ![load + 1] = Start]
  /\ UNCHANGED <<values, world, history, events>>

(* The old thread has ended: the new layout gets its own.                  *)
Respawn ==
  /\ joining # "no" /\ sweeper[load].at \in {"over", "dead"}
  /\ shown' = joining /\ load' = load + 1 /\ joining' = "no"
  /\ globals' = NoGlobals /\ clicked' = FALSE
  /\ sweeper' = [sweeper EXCEPT ![load] = [NoSweeper EXCEPT !.at = "over"], ![load + 1] = Start]
  /\ UNCHANGED <<values, world, history, events>>

(* The world moves by itself: an Item goes, comes or changes.              *)
Drift(i) ==
  /\ Event
  /\ world' \in {{w \in world : ~Has({i}, w)}, Set(world, i)} \ {world}
  /\ \A v, w \in world' : v.key \in Claims /\ w.key \in Claims => v.key = w.key
  /\ calm' = FALSE
  /\ UNCHANGED <<environment, sweeper, settled, warm, clicked>>

-----------------------------------------------------------------------------
Sweep(n) == \/ Stop(n) \/ Evaluate(n)
            \/ \E u \in Unit : Observe(n, u)
            \/ \E hook \in Hook : RunHook(n, hook)

Next ==
  \/ \E n \in 1..MaxLoads : Sweep(n) \/ FailToStart(n)
  \/ Respawn
  \/ \E d \in Data : Tick(d)
  \/ \E g \in Globals : Click(g)
  \/ \E l \in Layout : Reload(l)
  \/ \E i \in Item : Drift(i)

Spec == Init /\ [][Next]_vars

(* Sweeps follow one another, and their hooks return.                      *)
FairSpec == Spec /\ (\A n \in 1..MaxLoads : WF_vars(Sweep(n))) /\ WF_vars(Respawn)

-----------------------------------------------------------------------------
(* Every variable has its type.                                            *)
TypeOK ==
  /\ shown \in Layout /\ load \in 1..MaxLoads /\ values \in Data /\ globals \in Globals
  /\ joining \in Layout \cup {"no"} /\ world \subseteq Item /\ Functional(world)
  /\ sweeper \in [1..MaxLoads -> Sweeper]
  /\ calm \in BOOLEAN /\ settled \in BOOLEAN /\ clicked \in BOOLEAN
  /\ warm \subseteq Item /\ events \in 0..MaxEvents

(* Two layouts never act on the world at once: the hooks of a layout that  *)
(* was replaced are over before the next one starts (Drop for Reconciler). *)
OneSweeper == \A n \in 1..MaxLoads : n # load => sweeper[n].at \in {"none", "over", "dead"}

(* A sweep that nothing disturbs is enough: at its end the world holds     *)
(* what it evaluated, though a Unit may have to free a thing before it     *)
(* claims it again (units_reconcile.rs: exits first).                      *)
OneSweepIsEnough ==
  [][\A n \in 1..MaxLoads :
       sweeper[n].at \in Hook /\ sweeper'[n].at = "asleep" /\ calm' => AllRight(sweeper[n].declared)']_vars

(* A world that is as declared is left alone: unless something drifts or   *)
(* throws, such a sweep has nothing to give to any hook (sweep_unit).      *)
QuietWhenSettled ==
  \A n \in 1..MaxLoads, hook \in Hook :
    sweeper[n].at = hook /\ settled /\ calm /\ hook \in Manages[sweeper[n].unit] => Batch(hook, sweeper[n]) = {}

(* The world ends up as declared, however it drifted, whatever threw and   *)
(* however often the layout was reloaded, unless the reconciler could not  *)
(* start, the layout does not evaluate, or nothing but the globals moved    *)
(* since it declared nothing (Reconciler::spawn).                                   *)
AsDeclared == LET items == Declares[shown][values][globals]
              IN items # Throws /\ AllRight(items)
Excused == sweeper[load].at = "dead" \/ Declares[shown][values][globals] = Throws
Converges == <>[](AsDeclared \/ Excused \/ clicked)

(* What that rests on, in any state: the reconciler of the layout in use   *)
(* only rests on data and a layout that declare nothing, and is never over *)
(* before its layout is.                                                   *)
RestsOnNothing ==
  joining = "no" /\ sweeper[load].at \notin {"observe"} \cup Hook =>
    \/ sweeper[load].at = "asleep" /\ ~Idle(load)
    \/ clicked \/ Excused \/ Declares[shown][values][globals] = {}

(* "The click updates `globals`. The next Sweep sees the new declaration   *)
(* and acts" (docs/src/content/docs/docs/units.md:523).  The code breaks   *)
(* it: a layout without Items, or that threw, is not swept again.          *)
ClicksConverge == <>[](AsDeclared \/ Excused)

(* "Nothing is torn down when tauler exits or re-execs. On start, observe  *)
(* seeds the set, the diff comes back empty, and nothing runs"             *)
(* (docs/adr/0035:9).  The code breaks it: the first sweep has no data.    *)
WarmStart ==
  [][\A n \in 1..MaxLoads : sweeper[n].at = "exit" /\ sweeper'[n].at = "update" /\ n = load /\ joining = "no"
       => \A i \in warm \cap world : i \in world']_vars
=============================================================================
