------------------------------ MODULE Figures ------------------------------
(* D3Figures (src/src/d3_figure/, src/src/app.rs, src/src/render/picture.rs): *)
(* each eval names the figures on screen, the Loop plans which to draw, a  *)
(* draw runtime per layout load draws them on a thread of its own, and     *)
(* what comes back is stored as the Picture of its key.  Until then a      *)
(* figure shows the Picture of the key it had before.  One Surface shows   *)
(* all figures; how a frame gets to its window is RenderPipeline.          *)
EXTENDS Integers, Sequences, Pictures

CONSTANTS
  Calls,      \* what an eval may name: the keys of its figures, in order
  Asset,      \* the files a runtime needs: d3 and linkedom
  MaxLoads,   \* bound: loads of the layout, the first and the download's included
  MaxEvents   \* bound: new data, layout saves and failures, together

ASSUME CallsAssumption == Calls \subseteq Seq(Name) /\ Blank \notin Name \cup Calls
ASSUME BoundsAssumption == MaxEvents \in Nat /\ MaxLoads \in Nat \ {0, 1}

Generation == 1..MaxLoads

VARIABLES
  reloads,    \* channel: the reloads asked for
  previous,   \* Requests: the keys of the last plan
  thread,     \* the thread of each draw runtime
  drawn,      \* channel: finished drawings
  files,      \* the assets that are in the cache
  download,   \* is a download thread running
  heldBack,   \* does a failed download hold back the next
  lost,       \* history: keys the newest runtime drew or dropped in vain
  events      \* new data, saves and failures so far

requests == <<calls, spawning, reloads, previous, generation>>
pictures == <<entries, fallback, recorded>>
fetch == <<files, download, heldBack>>
vars == <<requests, thread, drawn, pictures, fetch, lost, events>>

Named(keys) == {keys[i] : i \in DOMAIN keys}

Picture == [by : Generation, key : Name]
Batch == [calls : Calls, draw : Seq(Name)]
Thread == [at : {"none", "wait", "preparing", "round", "drawing", "gone"},
           batches : Seq(Batch), pending : Seq(Name), inputs : Calls \cup {Blank},
           held : BOOLEAN, loaded : BOOLEAN, todo : Seq(Name)]
NoThread == [at |-> "none", batches |-> <<>>, pending |-> <<>>, inputs |-> Blank,
             held |-> FALSE, loaded |-> FALSE, todo |-> <<>>]

ASSUME BlankAssumption == Blank \notin Generation \cup Picture

-----------------------------------------------------------------------------
(* Planning.                                                               *)

PlannedForgetful(keys, again) == SelectSeq(keys, LAMBDA k : k \notin Named(previous))

(* The keys of an eval that have to be drawn, each once.                   *)
Planned(keys, again) ==
  LET requested == IF again THEN {} ELSE Named(previous)
      draw[i \in 0..Len(keys)] ==
        IF i = 0 THEN <<>>
        ELSE IF keys[i] \in requested \cup Named(draw[i - 1]) THEN draw[i - 1]
             ELSE Append(draw[i - 1], keys[i])
  IN draw[Len(keys)]

(* A figure whose key changed shows the key it had at its position.        *)
Fallbacks(keys) ==
  LET after[i \in 0..Len(keys)] ==
        IF i = 0 THEN fallback
        ELSE IF i \in DOMAIN previous /\ previous[i] # keys[i]
             THEN SetFallback(after[i - 1], keys[i], previous[i])
             ELSE after[i - 1]
  IN after[Len(keys)]

(* Figures::request: only with something to draw is the runtime asked.     *)
Request(keys, g, again) ==
  LET draw == Planned(keys, again)
  IN /\ fallback' = Fallbacks(keys)
     /\ previous' = keys
     /\ thread' = [thread EXCEPT
          ![g].at = IF @ = "none" THEN "wait" ELSE @,
          ![g].batches = IF draw = <<>> THEN @ ELSE Append(@, [calls |-> keys, draw |-> draw])]

-----------------------------------------------------------------------------
(* The Loop.                                                               *)

(* The first load has been evaluated, its runtime is still to be spawned.  *)
Init ==
  /\ calls \in Calls /\ spawning = TRUE /\ reloads = 0
  /\ previous = <<>> /\ generation = 0
  /\ thread = [g \in Generation |-> NoThread] /\ drawn = <<>>
  /\ entries = [k \in Name |-> Blank] /\ fallback = [k \in Name |-> Blank]
  /\ recorded = [i \in DOMAIN calls |-> Blank]
  /\ files \in SUBSET Asset /\ download = FALSE /\ heldBack = FALSE
  /\ lost = {} /\ events = 0

Event == events < MaxEvents /\ events' = events + 1

(* New data: an eval, its plan, a reconcile on what its keys show now.     *)
Eval(keys) ==
  /\ ~spawning /\ Event
  /\ calls' = keys
  /\ Request(keys, generation, FALSE)
  /\ recorded' = FrameStamp(keys, entries, fallback')
  /\ UNCHANGED <<spawning, reloads, generation, drawn, entries, fetch, lost>>

(* How many loads there are and will be, a download's among them.          *)
Loads == generation + reloads + (IF spawning THEN 1 ELSE 0)
                    + (IF download \/ files # Asset THEN 1 ELSE 0)

Save ==
  /\ Event /\ Loads < MaxLoads /\ reloads' = reloads + 1
  /\ UNCHANGED <<calls, spawning, previous, generation, thread, drawn, pictures, fetch, lost>>

(* The runtime goes first; the eval of the new layout plans nothing yet,   *)
(* and is reconciled with the Pictures its keys have.                      *)
Reload(keys) ==
  /\ ~spawning /\ reloads > 0 /\ reloads' = reloads - 1
  /\ spawning' = TRUE /\ calls' = keys
  /\ recorded' = FrameStamp(keys, entries, fallback)
  /\ UNCHANGED <<previous, generation, thread, drawn, entries, fallback, fetch, lost, events>>

(* The new layout does not load: all stays as it was.                      *)
KeepLayout ==
  /\ ~spawning /\ reloads > 0 /\ reloads' = reloads - 1
  /\ UNCHANGED <<calls, spawning, previous, generation, thread, drawn, pictures, fetch, lost, events>>

SpawnInPlace ==
  /\ spawning /\ spawning' = FALSE /\ UNCHANGED generation
  /\ Request(calls, generation + 1, TRUE)
  /\ lost' = {}
  /\ UNCHANGED <<calls, reloads, drawn, entries, recorded, fetch, events>>

(* spawn_draw_runtime, in every load: its first plan asks for every key.   *)
SpawnDrawRuntime ==
  /\ spawning /\ spawning' = FALSE /\ generation' = generation + 1
  /\ Request(calls, generation + 1, TRUE)
  /\ lost' = {}
  /\ UNCHANGED <<calls, reloads, drawn, entries, recorded, fetch, events>>

Anyone(drawing) == TRUE
CurrentOnly(drawing) == drawing.by = generation

(* store_drawn: the drawings of the current runtime become the Pictures    *)
(* of their keys, what nobody shows goes, and the latest eval is           *)
(* reconciled again.                                                       *)
StoreDrawn ==
  /\ ~spawning /\ drawn # <<>> /\ drawn' = <<>>
  /\ LET arrived == {i \in DOMAIN drawn : CurrentOnly(drawn[i])}
         last(k) == CHOOSE i \in arrived :
                      drawn[i].key = k /\ \A j \in arrived : drawn[j].key = k => j <= i
         set == {drawn[i].key : i \in arrived}
         kept == Retain(Named(previous),
                        [k \in Name |-> IF k \in set THEN drawn[last(k)].by ELSE entries[k]],
                        [k \in Name |-> IF k \in set THEN Blank ELSE fallback[k]])
     IN IF arrived = {} THEN UNCHANGED pictures
        ELSE /\ entries' = kept.pics /\ fallback' = kept.falls
             /\ recorded' = FrameStamp(calls, kept.pics, kept.falls)
  /\ UNCHANGED <<requests, thread, fetch, lost, events>>

-----------------------------------------------------------------------------
(* A draw runtime's thread.                                                *)

Stopped(g) == spawning \/ g # generation

Gone == [NoThread EXCEPT !.at = "gone"]

(* The top of its loop, where it sees that it was dropped.                 *)
Top(g, queue) == IF Stopped(g) THEN Gone ELSE [queue EXCEPT !.at = "wait"]

(* Vec::retain.                                                            *)
Retained(keys, set) ==
  LET after[i \in 0..Len(keys)] ==
        IF i = 0 THEN <<>>
        ELSE IF keys[i] \in set THEN Append(after[i - 1], keys[i]) ELSE after[i - 1]
  IN after[Len(keys)]

(* Queue::keep: what the batch no longer names is superseded.              *)
Keep(queue, batch) ==
  [queue EXCEPT
     !.pending = Retained(@, Named(batch.calls) \ Named(batch.draw)) \o batch.draw,
     !.inputs = batch.calls]

KeepWaiting(g) ==
  LET batches == thread[g].batches
      after[i \in 0..Len(batches)] ==
        IF i = 0 THEN [thread[g] EXCEPT !.batches = <<>>] ELSE Keep(after[i - 1], batches[i])
  IN after[Len(batches)]

loop == <<requests, pictures>>
Becomes(g, state) == thread' = [thread EXCEPT ![g] = state]

(* While a failed round holds the next one back, requests are only kept.   *)
Collect(g) ==
  /\ thread[g].at = "wait" /\ thread[g].held /\ thread[g].batches # <<>>
  /\ Becomes(g, Top(g, [Keep(thread[g], Head(thread[g].batches)) EXCEPT !.batches = Tail(@)]))
  /\ UNCHANGED <<loop, drawn, fetch, lost, events>>

StartRound(g) ==
  /\ thread[g].at = "wait" /\ ~thread[g].held
  /\ thread[g].pending # <<>> \/ thread[g].batches # <<>>
  /\ LET queue == KeepWaiting(g)
     IN Becomes(g, IF queue.pending = <<>> THEN Top(g, queue)
                   ELSE [queue EXCEPT !.held = TRUE, !.at = "preparing"])
  /\ UNCHANGED <<loop, drawn, fetch, lost, events>>

HasLibraries(g) == thread[g].loaded \/ files = Asset

(* Without the libraries nothing is drawn, and a download is started       *)
(* unless one runs or is held back.  The look at the files and the claim   *)
(* are one step.                                                           *)
NotReady(g) ==
  /\ thread[g].at = "preparing" /\ ~HasLibraries(g)
  /\ download' = (download \/ ~heldBack)
  /\ Becomes(g, Top(g, thread[g]))
  /\ UNCHANGED <<loop, drawn, files, heldBack, lost, events>>

(* Ready: the newest requests are taken, and evaluated with the inputs of  *)
(* the newest eval that asked.                                             *)
Ready(g) ==
  /\ thread[g].at = "preparing" /\ HasLibraries(g)
  /\ LET queue == KeepWaiting(g)
     IN Becomes(g, [queue EXCEPT !.todo = queue.pending, !.pending = <<>>, !.held = FALSE,
                                 !.loaded = TRUE, !.at = "round"])
  /\ UNCHANGED <<loop, drawn, fetch, lost, events>>

(* The layout does not build, before the libraries are asked for, or does  *)
(* not evaluate, after they are loaded: its requests are kept.             *)
RoundFails(g) ==
  /\ thread[g].at = "preparing"
  /\ Event
  /\ \/ ~thread[g].loaded /\ Becomes(g, Top(g, thread[g]))
     \/ HasLibraries(g) /\ Becomes(g, Top(g, [KeepWaiting(g) EXCEPT !.loaded = TRUE]))
  /\ UNCHANGED <<loop, drawn, fetch, lost>>

Lose(g, keys) == lost' = IF Stopped(g) THEN lost ELSE lost \cup keys

(* The libraries themselves throw: the requests are dropped.               *)
LibrariesFail(g) ==
  /\ thread[g].at = "preparing" /\ ~thread[g].loaded /\ files = Asset
  /\ Event
  /\ Lose(g, Named(thread[g].pending))
  /\ Becomes(g, Top(g, [thread[g] EXCEPT !.pending = <<>>]))
  /\ UNCHANGED <<loop, drawn, fetch>>

HoldPasses(g) ==
  /\ thread[g].at = "wait" /\ thread[g].held
  /\ Becomes(g, [thread[g] EXCEPT !.held = FALSE])
  /\ UNCHANGED <<loop, drawn, fetch, lost, events>>

StartDraw(g) ==
  /\ thread[g].at = "round"
  /\ Becomes(g, IF thread[g].todo = <<>> THEN Top(g, thread[g])
                ELSE IF Stopped(g) THEN Gone ELSE [thread[g] EXCEPT !.at = "drawing"])
  /\ UNCHANGED <<loop, drawn, fetch, lost, events>>

FinishDraw(g) ==
  /\ thread[g].at = "drawing"
  /\ drawn' = Append(drawn, [by |-> g, key |-> Head(thread[g].todo)])
  /\ Becomes(g, [thread[g] EXCEPT !.at = "round", !.todo = Tail(@)])
  /\ UNCHANGED <<loop, fetch, lost, events>>

(* It threw, or was interrupted: logged, and that is all.                  *)
DrawThrows(g) ==
  /\ thread[g].at = "drawing"
  /\ Event
  /\ Lose(g, {Head(thread[g].todo)})
  /\ Becomes(g, [thread[g] EXCEPT !.at = "round", !.todo = Tail(@)])
  /\ UNCHANGED <<loop, drawn, fetch>>

(* Dropped while it waits: the channel is closed.                          *)
Closed(g) ==
  /\ thread[g].at = "wait" /\ Stopped(g) /\ thread[g].batches = <<>>
  /\ Becomes(g, Gone)
  /\ UNCHANGED <<loop, drawn, fetch, lost, events>>

-----------------------------------------------------------------------------
(* The download.                                                           *)

others == <<calls, spawning, previous, generation, thread, drawn, pictures, lost>>

Download(a) ==
  /\ download /\ a \notin files /\ files' = files \cup {a}
  /\ UNCHANGED <<others, reloads, download, heldBack, events>>

(* Everything is there: a reload is asked for.                             *)
DownloadDone ==
  /\ download /\ files = Asset
  /\ download' = FALSE /\ heldBack' = FALSE /\ reloads' = reloads + 1
  /\ UNCHANGED <<others, files, events>>

DownloadFails ==
  /\ download /\ files # Asset
  /\ Event
  /\ download' = FALSE /\ heldBack' = TRUE
  /\ UNCHANGED <<others, reloads, files>>

BackoffPasses ==
  /\ heldBack /\ heldBack' = FALSE
  /\ UNCHANGED <<others, reloads, files, download, events>>

-----------------------------------------------------------------------------
TheLoop == (\E keys \in Calls : Reload(keys)) \/ KeepLayout \/ SpawnDrawRuntime \/ StoreDrawn
Run(g) == \/ StartRound(g) \/ NotReady(g) \/ Ready(g) \/ StartDraw(g)
          \/ FinishDraw(g) \/ Closed(g) \/ Collect(g)
Fault(g) == RoundFails(g) \/ LibrariesFail(g) \/ DrawThrows(g)
Fetch == (\E a \in Asset : Download(a)) \/ DownloadDone

Next ==
  \/ \E keys \in Calls : Eval(keys)
  \/ Save \/ TheLoop
  \/ \E g \in Generation : Run(g) \/ HoldPasses(g) \/ Fault(g)
  \/ Fetch \/ DownloadFails \/ BackoffPasses

Spec == Init /\ [][Next]_vars

(* Every thread runs, timers pass and a download that does not fail ends;  *)
(* data, saves and failures are not owed.                                    *)
FairSpec ==
  /\ Spec /\ WF_vars(TheLoop) /\ WF_vars(Fetch) /\ WF_vars(BackoffPasses)
  /\ \A g \in Generation : WF_vars(Run(g)) /\ WF_vars(HoldPasses(g))

-----------------------------------------------------------------------------
(* Every variable has its type, and a thread runs for each generation up   *)
(* to the newest.                                                          *)
TypeOK ==
  /\ calls \in Calls /\ spawning \in BOOLEAN /\ reloads \in Nat
  /\ previous \in Calls \cup {<<>>} /\ generation \in {0} \cup Generation
  /\ thread \in [Generation -> Thread] /\ drawn \in Seq(Picture)
  /\ \A g \in Generation : thread[g].at = "none" <=> g > generation
  /\ entries \in [Name -> Generation \cup {Blank}] /\ fallback \in [Name -> Name \cup {Blank}]
  /\ recorded \in Seq(Picture \cup {Blank}) /\ DOMAIN recorded = DOMAIN calls
  /\ files \subseteq Asset /\ download \in BOOLEAN /\ heldBack \in BOOLEAN
  /\ lost \subseteq Name /\ events \in 0..MaxEvents

(* The structure of a layout is stable: a key names one figure, at one     *)
(* place in every eval, and a figure whose key changes is always there.    *)
Structured ==
  /\ \A a, b \in Calls : \A i \in DOMAIN a, j \in DOMAIN b : a[i] = b[j] => i = j
  /\ \A a, b, c \in Calls : \A i \in DOMAIN a \cap DOMAIN b : a[i] # b[i] => i \in DOMAIN c

(* A key the newest runtime has still to draw, or to hand over: in its     *)
(* queue or in a batch, with no later batch to supersede it, in its round, *)
(* or finished.                                                            *)
Waits(t, k) ==
  LET StillIn(c) == k \in Named(t.batches[c].calls)
  IN \/ k \in Named(t.pending) /\ \A c \in DOMAIN t.batches : StillIn(c)
     \/ \E b \in DOMAIN t.batches :
          k \in Named(t.batches[b].draw) /\ \A c \in DOMAIN t.batches : c > b => StillIn(c)
     \/ t.at \in {"round", "drawing"} /\ k \in Named(t.todo)

OnItsWay(k) ==
  Waits(thread[generation], k) \/ \E i \in DOMAIN drawn : drawn[i] = [by |-> generation, key |-> k]

(* A figure on screen that is not shown as the layout in use draws it, and *)
(* whose draw has not failed, has a request with the newest runtime or a   *)
(* drawing on its way: a key is requested once (requests.rs), so none may  *)
(* be dropped by a later batch, a failed round, a download that is awaited *)
(* or a store.                                                             *)
NoDrawingIsLost ==
  ~spawning => \A i \in DOMAIN calls :
    \/ calls[i] \in lost
    \/ recorded[i] = [key |-> calls[i], by |-> generation]
    \/ OnItsWay(calls[i])

(* In the end the frame asked for has every figure as the layout in use    *)
(* drew it, unless its draw failed: no request, drawing or wake-up is lost *)
(* between the plan, the queue, the download, the reload it asks for and   *)
(* the store (requests.rs, draw.rs, fetch.rs).                             *)
DrawnInTheEnd ==
  <>[](\A i \in DOMAIN calls :
         calls[i] \in lost \/ recorded[i] = [key |-> calls[i], by |-> generation])
=============================================================================
