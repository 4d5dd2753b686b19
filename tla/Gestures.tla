------------------------------ MODULE Gestures ------------------------------
(* From a press, a drag or a screen reader's activation to the layout's    *)
(* function (app.rs, pointer.rs, jsx.rs, a11y/mod.rs).  Functions stay in  *)
(* JavaScript, in a registry every evaluation refills; the tree carries    *)
(* their index.  A drag keeps its function in a slot of its own.  The      *)
(* accessibility tree of the panel is shared with the thread of the        *)
(* platform, which reduces an activation to a place in the tree.           *)
(* What the functions send is the outbox's business: see Intents.          *)
EXTENDS Integers, Sequences

CONSTANTS
  Button,     \* elements with a function on_click
  Slider,     \* elements with a function on_drag
  Plain,      \* elements with intents on_click, which register nothing
  Track,      \* elements with intents on_drag
  Renders,    \* what an evaluation may return: the tree of the panel, if it
              \* has one, the elements created on the way, in order, and the
              \* index each element made before it still carries
  None,
  MaxEvents   \* bound: pointer events, hotplugs, lines, saves, activations, detachments

Element == Button \cup Slider \cup Plain \cup Track
Registers == Button \cup Slider
Activatable == Button \cup Plain
MadeIn(r, e) == \E i \in DOMAIN r.made : r.made[i] = e

ASSUME ElementAssumption == /\ Button \cap Slider = {} /\ Registers \cap (Plain \cup Track) = {}
                            /\ None \notin Element \cup Seq(Element) \cup Renders
ASSUME RendersAssumption == \A r \in Renders :
  /\ r.tree \in Seq(Element) \cup {None} /\ r.made \in Seq(Registers)
  /\ \A e \in DOMAIN r.kept : e \in Registers /\ r.kept[e] \in Nat \ {0}
  /\ r.tree # None => \A i \in DOMAIN r.tree :
       r.tree[i] \in Registers => MadeIn(r, r.tree[i]) \/ r.tree[i] \in DOMAIN r.kept
ASSUME BoundsAssumption == MaxEvents \in Nat

VARIABLES
  shown,      \* the panel the pipeline holds: a render and the eval it is of
  registry,   \* __tauler_handlers of the evaluator in use
  captured,   \* __tauler_captured of the evaluator in use
  capture,    \* does App hold a capture
  evals,      \* evaluations so far
  broken,     \* history: has an evaluation refilled the registry, but not the panel
  drag,       \* history: the function run by the press that began the drag
  ran,        \* history: what the last gesture ran
  pc,         \* where the pass of the Loop is
  ping,       \* the channel of capacity one the Loop waits on
  owed,       \* threads that have sent and not yet pinged
  line, events,   \* channels to the Loop
  reloads,    \* reload requests in theirs
  batch,      \* the events of this pass
  adapter,    \* the accessibility adapter of the panel
  state,      \* what it shares with the platform's thread
  reading,    \* the content that thread builds the first tree of
  tree,       \* the tree the platform presents
  actions,    \* channel: places activated
  todo,       \* the activations of this pass
  count       \* inputs so far

js == <<registry, captured>>
app == <<shown, js, capture, evals, broken, drag, ran>>
inputs == <<line, reloads, events>>
a11y == <<adapter, state, reading, tree>>
vars == <<app, pc, ping, owed, inputs, batch, a11y, actions, todo, count>>

Function == [eval : Nat, element : Element]
Count == count < MaxEvents /\ count' = count + 1

(* The functions an evaluation parks in the registry, in order.            *)
Registered(r, n) == [i \in DOMAIN r.made |-> [eval |-> n, element |-> r.made[i]]]
(* __tauler_handlers[id], for the id the panel carries for an element: its *)
(* place among those its evaluation made, or the one it got when it was    *)
(* made, at module scope or in an evaluation the layout kept it from.      *)
Id(e) == IF MadeIn(shown.render, e) THEN CHOOSE i \in DOMAIN shown.render.made : shown.render.made[i] = e
         ELSE shown.render.kept[e]
Registry(e) == IF e \in Registers /\ Id(e) \in DOMAIN registry THEN registry[Id(e)] ELSE None

Init ==
  /\ \E r \in Renders : /\ shown = [render |-> r, eval |-> 1]
                        /\ registry = Registered(r, 1)
  /\ captured = None /\ capture = FALSE /\ evals = 1 /\ broken = FALSE
  /\ drag = None /\ ran = None
  /\ pc = "tick" /\ ping = FALSE /\ owed = {} /\ count = 0
  /\ line = FALSE /\ reloads = 0 /\ events = <<>> /\ batch = <<>>
  /\ adapter = "none" /\ state = None /\ reading = None /\ tree = None
  /\ actions = <<>> /\ todo = <<>>

-----------------------------------------------------------------------------
(* Evaluations.                                                            *)

(* A render that throws has registered what it created until then; one     *)
(* whose tree has no Surfaces to read is not shown.                        *)
Eval ==
  /\ evals' = evals + 1
  /\ \E r \in Renders :
       \/ /\ registry' = Registered(r, evals')
          /\ shown' = [render |-> r, eval |-> evals'] /\ broken' = FALSE
       \/ /\ \E k \in 0..Len(r.made) : registry' = SubSeq(Registered(r, evals'), 1, k)
          /\ broken' = TRUE /\ UNCHANGED shown
  /\ UNCHANGED captured

InstallOverEvaluator ==
  /\ evals' = evals + 1
  /\ \E r \in Renders : shown' = [render |-> r, eval |-> evals'] /\ broken' = FALSE
  /\ UNCHANGED <<registry, captured>>

(* A reload whose trial throws changes nothing.  Otherwise the evaluator   *)
(* is a new one, its slot empty; the capture of App stays.  The eval with  *)
(* the new fonts may throw, and then the trial is what is installed.       *)
Install ==
  /\ evals' = evals + 1
  /\ \E r, again \in Renders :
       \/ /\ registry' = Registered(r, evals')
          /\ shown' = [render |-> r, eval |-> evals'] /\ broken' = FALSE
       \/ /\ registry' = Registered(r, evals')
          /\ broken' = TRUE /\ UNCHANGED shown
       \/ /\ \E k \in 0..Len(again.made) :
               registry' = SubSeq(Registered(again, evals'), 1, k)
          /\ shown' = [render |-> r, eval |-> evals'] /\ broken' = TRUE
  /\ captured' = None

-----------------------------------------------------------------------------
(* Gestures.                                                               *)

EndCapture == /\ capture' = FALSE
              /\ captured' = IF capture THEN None ELSE captured

Ran(how, e, f) == ran' = [how |-> how, element |-> e, function |-> f]

(* The place is hit in the panel as it is now.  A slider's function is     *)
(* captured, and run like any other; intents are sent, with nothing to     *)
(* capture.                                                                *)
HandlePress(place) ==
  IF shown.render.tree = None \/ place \notin DOMAIN shown.render.tree
    THEN EndCapture /\ drag' = None /\ UNCHANGED ran
    ELSE LET e == shown.render.tree[place] IN
      /\ Ran("press", e, Registry(e))
      /\ IF e \in Slider \cup Track
           THEN capture' = TRUE /\ captured' = Registry(e) /\ drag' = Registry(e)
           ELSE EndCapture /\ drag' = None

HandleMotionAfresh ==
  LET e == CHOOSE x \in Slider : TRUE IN
  /\ IF capture /\ shown.render.tree # None /\ e \in {shown.render.tree[i] : i \in DOMAIN shown.render.tree}
       THEN Ran("motion", None, Registry(e)) ELSE UNCHANGED ran
  /\ UNCHANGED <<capture, captured, drag>>

HandleMotion ==
  /\ IF capture /\ captured # None THEN Ran("motion", None, captured) ELSE UNCHANGED ran
  /\ UNCHANGED <<capture, captured, drag>>

HandleRelease == EndCapture /\ drag' = None /\ UNCHANGED ran

HandleEvent ==
  /\ pc = "events" /\ batch # <<>> /\ batch' = Tail(batch)
  /\ LET event == Head(batch) IN
       \/ /\ event.kind = "press" /\ HandlePress(event.place)
          /\ UNCHANGED <<shown, registry, evals, broken>>
       \/ /\ event.kind = "motion" /\ HandleMotion
          /\ UNCHANGED <<shown, registry, evals, broken>>
       \/ /\ event.kind = "release" /\ HandleRelease
          /\ UNCHANGED <<shown, registry, evals, broken>>
       \/ /\ event.kind = "outputs" /\ Eval
          /\ UNCHANGED <<capture, drag, ran>>
  /\ UNCHANGED <<pc, ping, owed, inputs, a11y, actions, todo, count>>

(* An activation names a place; what is there now is pressed.              *)
Activate ==
  /\ pc = "actions" /\ todo # <<>> /\ todo' = Tail(todo)
  /\ IF shown.render.tree # None /\ Head(todo) \in DOMAIN shown.render.tree
       THEN LET e == shown.render.tree[Head(todo)] IN
            IF e \in Activatable THEN Ran("activate", e, Registry(e)) ELSE UNCHANGED ran
       ELSE UNCHANGED ran
  /\ UNCHANGED <<shown, js, capture, evals, broken, drag, pc, ping, owed, inputs, batch, a11y,
                 actions, count>>

-----------------------------------------------------------------------------
(* The pass of the Loop around them.                                       *)

Wake == /\ pc = "waiting" /\ ping /\ pc' = "tick" /\ ping' = FALSE
        /\ UNCHANGED <<app, owed, inputs, batch, a11y, actions, todo, count>>

IntervalPasses == /\ pc = "waiting" /\ pc' = "tick"
                  /\ UNCHANGED <<app, ping, owed, inputs, batch, a11y, actions, todo, count>>

Tick ==
  /\ pc = "tick" /\ pc' = "reload" /\ line' = FALSE
  /\ IF line THEN Eval /\ UNCHANGED <<capture, drag, ran>> ELSE UNCHANGED app
  /\ UNCHANGED <<ping, owed, reloads, events, batch, a11y, actions, todo, count>>

(* A pass takes one request; its trial may throw.                          *)
Reload ==
  /\ pc = "reload" /\ pc' = "events"
  /\ batch' = events /\ events' = <<>>
  /\ IF reloads = 0 THEN UNCHANGED <<reloads, app>>
     ELSE /\ reloads' = reloads - 1
          /\ \/ Install /\ UNCHANGED <<capture, drag, ran>>
             \/ UNCHANGED app
  /\ UNCHANGED <<ping, owed, line, a11y, actions, todo, count>>

(* The adapters follow the panels: the content is shared first, then the   *)
(* tree is pushed.                                                         *)
UpdateA11y ==
  /\ pc = "events" /\ batch = <<>>
  /\ IF shown.render.tree = None
       THEN /\ adapter' = "none" /\ state' = None /\ reading' = None /\ tree' = None
            /\ pc' = "drain"
       ELSE /\ adapter' = IF adapter = "none" THEN "inactive" ELSE adapter
            /\ IF state # None /\ state.content = shown.render
                 THEN pc' = "drain" /\ UNCHANGED state
                 ELSE /\ pc' = "push"
                      /\ state' = [content |-> shown.render,
                                   reverse |-> IF state = None THEN {} ELSE state.reverse]
            /\ UNCHANGED <<reading, tree>>
  /\ UNCHANGED <<app, ping, owed, inputs, batch, actions, todo, count>>

PushTreeOnly ==
  /\ pc = "push" /\ adapter # "building" /\ pc' = "drain"
  /\ IF adapter = "inactive" THEN UNCHANGED a11y
     ELSE /\ adapter' = "active" /\ tree' = state.content.tree
          /\ UNCHANGED <<state, reading>>
  /\ UNCHANGED <<app, ping, owed, inputs, batch, actions, todo, count>>

(* update_if_active: nothing to do while no screen reader is there.        *)
Push ==
  /\ pc = "push" /\ adapter # "building" /\ pc' = "drain"
  /\ IF adapter = "inactive" THEN UNCHANGED a11y
     ELSE /\ adapter' = "active" /\ tree' = state.content.tree
          /\ state' = [state EXCEPT !.reverse = DOMAIN state.content.tree]
          /\ UNCHANGED reading
  /\ UNCHANGED <<app, ping, owed, inputs, batch, actions, todo, count>>

Drain ==
  /\ pc = "drain" /\ pc' = "actions" /\ todo' = actions /\ actions' = <<>>
  /\ UNCHANGED <<app, ping, owed, inputs, batch, a11y, count>>

EndPass ==
  /\ pc = "actions" /\ todo = <<>> /\ pc' = "waiting"
  /\ UNCHANGED <<app, ping, owed, inputs, batch, a11y, actions, todo, count>>

Loop == \/ Wake \/ Tick \/ Reload \/ HandleEvent \/ UpdateA11y \/ Push \/ Drain
        \/ Activate \/ EndPass

-----------------------------------------------------------------------------
(* The presenter's thread, which sends and then pings, and the rest of the *)
(* world, whose sending is the matter of Loop.                             *)

Send(event) ==
  /\ Count /\ "presenter" \notin owed /\ owed' = owed \cup {"presenter"}
  /\ events' = Append(events, event)
  /\ UNCHANGED <<app, pc, ping, line, reloads, batch, a11y, actions, todo>>

Press == \E r \in Renders : r.tree # None /\ \E place \in DOMAIN r.tree :
           Send([kind |-> "press", place |-> place])

Ping(t) == /\ t \in owed /\ owed' = owed \ {t} /\ ping' = TRUE
           /\ UNCHANGED <<app, pc, inputs, batch, a11y, actions, todo, count>>

LineComes == /\ Count /\ line' = TRUE /\ ping' = TRUE
             /\ UNCHANGED <<app, pc, owed, reloads, events, batch, a11y, actions, todo>>

(* The watchers ask for a reload and ping; a fetch thread only asks.       *)
Save == /\ Count /\ reloads' = reloads + 1 /\ ping' = TRUE
        /\ UNCHANGED <<app, pc, owed, line, events, batch, a11y, actions, todo>>

Fetched == /\ Count /\ reloads' = reloads + 1
           /\ UNCHANGED <<app, pc, ping, owed, line, events, batch, a11y, actions, todo>>

-----------------------------------------------------------------------------
(* The platform's thread.  It holds the adapter while it builds its first  *)
(* tree, not what it shares with the Loop.                                 *)

StartReading ==
  /\ adapter = "inactive"
  /\ IF state = None THEN adapter' = "pending" /\ UNCHANGED reading
     ELSE adapter' = "building" /\ reading' = state.content
  /\ UNCHANGED <<app, pc, ping, owed, inputs, batch, state, tree, actions, todo, count>>

FinishReading ==
  /\ adapter = "building" /\ adapter' = "active" /\ reading' = None
  /\ tree' = reading.tree
  /\ state' = [state EXCEPT !.reverse = DOMAIN reading.tree]
  /\ UNCHANGED <<app, pc, ping, owed, inputs, batch, actions, todo, count>>

Detach ==
  /\ Count /\ adapter \in {"active", "pending"} /\ adapter' = "inactive" /\ tree' = None
  /\ UNCHANGED <<app, pc, ping, owed, inputs, batch, state, reading, actions, todo>>

ActQuietly(place) ==
  /\ Count /\ adapter = "active" /\ "platform" \notin owed
  /\ place \in DOMAIN tree /\ tree[place] \in Activatable
  /\ IF place \in state.reverse THEN actions' = Append(actions, place) ELSE UNCHANGED actions
  /\ UNCHANGED <<app, pc, ping, owed, inputs, batch, a11y, todo>>

(* do_action: an activation whose node the map does not know is dropped.   *)
Act(place) ==
  /\ Count /\ adapter = "active" /\ "platform" \notin owed
  /\ place \in DOMAIN tree /\ tree[place] \in Activatable
  /\ IF place \in state.reverse
       THEN actions' = Append(actions, place) /\ owed' = owed \cup {"platform"}
       ELSE UNCHANGED <<actions, owed>>
  /\ UNCHANGED <<app, pc, ping, inputs, batch, a11y, todo>>

Platform == StartReading \/ FinishReading \/ (tree # None /\ \E place \in DOMAIN tree : Act(place))

Next == \/ Loop \/ IntervalPasses
        \/ Press \/ \E k \in {"motion", "release", "outputs"} : Send([kind |-> k])
        \/ \E t \in {"presenter", "platform"} : Ping(t)
        \/ LineComes \/ Save \/ Fetched \/ Platform \/ Detach

Spec == Init /\ [][Next]_vars

-----------------------------------------------------------------------------
Content == Renders
TypeOK ==
  /\ shown \in [render : Renders, eval : 1..evals] /\ evals \in Nat
  /\ registry \in Seq(Function) /\ captured \in Function \cup {None}
  /\ capture \in BOOLEAN /\ broken \in BOOLEAN /\ drag \in Function \cup {None}
  /\ pc \in {"waiting", "tick", "reload", "events", "push", "drain", "actions"}
  /\ ping \in BOOLEAN /\ owed \subseteq {"presenter", "platform"}
  /\ line \in BOOLEAN /\ reloads \in Nat
  /\ adapter \in {"none", "inactive", "pending", "building", "active"}
  /\ state = None \/ state \in [content : Content, reverse : SUBSET Nat]
  /\ adapter = "building" <=> reading # None
  /\ adapter = "active" <=> tree # None
  /\ adapter = "none" => state = None

(* A press, or an activation, of an element that the evaluation on the     *)
(* screen made runs the function made with it: the index the panel carries *)
(* means the same in the registry, whatever was evaluated or reloaded in   *)
(* between - as long as no evaluation threw since.                         *)
RunsItsOwn ==
  [][ran' # ran /\ ~broken /\ ran'.how # "motion" /\ MadeIn(shown.render, ran'.element)
       => ran'.function = [eval |-> shown.eval, element |-> ran'.element]]_vars

(* The same with evaluations that throw: not so, see the README.           *)
RunsItsOwnAlways ==
  [][ran' # ran /\ ran'.how # "motion" /\ MadeIn(shown.render, ran'.element)
       => ran'.function = [eval |-> shown.eval, element |-> ran'.element]]_vars

(* An element made at module scope, or kept from an earlier evaluation, at *)
(* least runs no other element's function: not so, see the README.         *)
KeptRunsItsOwn ==
  [][ran' # ran /\ ~broken /\ ran'.how # "motion" /\ ran'.function # None
       => ran'.function.element = ran'.element]_vars

(* Motions only ever run the function of the press that began the drag,    *)
(* over evaluations and hotplugs, and none after its release.              *)
DragKeepsItsOwn == [][ran' # ran /\ ran'.how = "motion" => ran'.function = drag]_vars

(* The Loop does not wait with a gesture or an activation left to it, but  *)
(* for a ping that is there or about to be.  (Reloads may be: see README.) *)
NobodyWaits ==
  pc = "waiting" /\ ~ping /\ owed = {} => events = <<>> /\ actions = <<>> /\ ~line

(* Whenever the Loop waits and a screen reader has a tree, it is the tree  *)
(* of the panel, and every node of it can be activated, whichever of the   *)
(* two threads built last.                                                 *)
TreeIsShown ==
  pc = "waiting" /\ adapter = "active"
    => tree = shown.render.tree /\ state.reverse = DOMAIN tree
=============================================================================
