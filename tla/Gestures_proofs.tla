--------------------------- MODULE Gestures_proofs ---------------------------
(* Proofs about Gestures: the functions run are those on the screen, a     *)
(* drag keeps its own, the Loop does not wait over a gesture, and the tree *)
(* a screen reader has is the panel's.                                     *)
EXTENDS Gestures, TLAPS

(* What the Loop and the adapter's threads share.                          *)
Shared == [content : Content, reverse : SUBSET Nat]

(* What the adapter's thread and the Loop share is never a panel that is   *)
(* not there, and whoever builds a tree has something to build it from.    *)
SharedOK ==
  /\ reading \in Renders \cup {None}
  /\ state # None => state \in Shared /\ state.content.tree # None
  /\ adapter \in {"building", "active"} \/ pc = "push" => state \in Shared /\ state.content.tree # None
  /\ adapter = "building" => reading \in Renders /\ reading.tree # None

(* The registry is the one the evaluation on the screen filled.            *)
Filled == ~broken => registry = Registered(shown.render, shown.eval)

(* The slot of a drag holds the function of the press that began it, or    *)
(* nothing since a reload.                                                 *)
Kept == capture /\ captured # None => captured = drag

(* What the pass has been at holds nothing but what a ping announces.      *)
Announced ==
  ~ping /\ owed = {} =>
    /\ pc = "tick" \/ ~line
    /\ pc \in {"tick", "reload"} \/ events = <<>>
    /\ pc \notin {"actions", "waiting"} \/ actions = <<>>

(* From the moment the content is shared until the panel changes, it is    *)
(* the panel's; but for the moment before it is pushed, the tree presented *)
(* or being built is the content's.                                        *)
Followed ==
  /\ pc \in {"push", "drain", "actions", "waiting"} =>
       IF shown.render.tree = None THEN adapter = "none" /\ pc # "push"
       ELSE state \in Shared /\ state.content = shown.render
  /\ pc # "push" =>
       /\ adapter = "building" => reading = state.content
       /\ adapter = "active" => tree = state.content.tree /\ state.reverse = DOMAIN tree

(* TypeOK in three parts: what gestures run, where the pass is, and what   *)
(* the screen reader's side holds.                                         *)
AppOK ==
  /\ shown \in [render : Renders, eval : 1..evals] /\ evals \in Nat
  /\ registry \in Seq(Function) /\ captured \in Function \cup {None}
  /\ capture \in BOOLEAN /\ broken \in BOOLEAN /\ drag \in Function \cup {None}
PassOK ==
  /\ pc \in {"waiting", "tick", "reload", "events", "push", "drain", "actions"}
  /\ ping \in BOOLEAN /\ owed \subseteq {"presenter", "platform"}
  /\ line \in BOOLEAN /\ reloads \in Nat
AdapterOK ==
  /\ adapter \in {"none", "inactive", "pending", "building", "active"}
  /\ state = None \/ state \in Shared
  /\ adapter = "building" <=> reading # None
  /\ adapter = "active" <=> tree # None
  /\ adapter = "none" => state = None

IInv == TypeOK /\ SharedOK /\ Filled /\ Kept /\ Announced /\ Followed

(* The three parts are TypeOK.                                             *)
LEMMA TypeParts == TypeOK <=> AppOK /\ PassOK /\ AdapterOK
  BY Zenon DEF TypeOK, AppOK, PassOK, AdapterOK, Shared

(* The steps in which an evaluation, a gesture or an activation happens;   *)
(* every other one leaves them alone.                                      *)
Evaluates == /\ \/ Eval
                \/ Install
             /\ UNCHANGED <<capture, drag, ran>>
HandlesGesture == /\ \/ \E place : HandlePress(place)
                     \/ HandleMotion
                     \/ HandleRelease
                  /\ UNCHANGED <<shown, registry, evals, broken>>
Activates == /\ UNCHANGED <<shown, js, capture, evals, broken, drag>>
             /\ \/ UNCHANGED ran
                \/ \E place \in DOMAIN shown.render.tree :
                     /\ shown.render.tree # None
                     /\ Ran("activate", shown.render.tree[place], Registry(shown.render.tree[place]))

-----------------------------------------------------------------------------
(* What gestures run.                                                      *)

(* An evaluation parks functions, one for each element made, in order.     *)
LEMMA RegisteredFunctions ==
  ASSUME NEW r \in Renders, NEW n \in Nat
  PROVE  /\ Registered(r, n) \in Seq(Function)
         /\ DOMAIN Registered(r, n) = DOMAIN r.made /\ Len(Registered(r, n)) = Len(r.made)
         /\ \A i \in DOMAIN r.made : Registered(r, n)[i] = [eval |-> n, element |-> r.made[i]]
<1>1. r.made \in Seq(Registers)  BY RendersAssumption
<1>2. DOMAIN r.made = 1..Len(r.made) /\ Len(r.made) \in Nat
      /\ \A i \in DOMAIN r.made : r.made[i] \in Registers
  BY <1>1
<1>3. \A i \in 1..Len(r.made) : [eval |-> n, element |-> r.made[i]] \in Function
  BY <1>2 DEF Function, Element, Registers
<1>4. [i \in 1..Len(r.made) |-> [eval |-> n, element |-> r.made[i]]] \in Seq(Function)
  BY <1>2, <1>3
<1> QED  BY <1>2, <1>4 DEF Registered

(* So does one that throws, as far as it came.                             *)
LEMMA SomeOfThem ==
  ASSUME NEW r \in Renders, NEW n \in Nat, NEW k \in 0..Len(r.made)
  PROVE  SubSeq(Registered(r, n), 1, k) \in Seq(Function)
<1>1. r.made \in Seq(Registers)  BY RendersAssumption
<1>2. Len(r.made) \in Nat  BY <1>1
<1> DEFINE s == Registered(r, n)
<1>3. s \in Seq(Function) /\ Len(s) = Len(r.made)  BY RegisteredFunctions
<1> HIDE DEF s
<1>4. SubSeq(s, 1, k) \in Seq(Function)  BY <1>2, <1>3
<1> QED  BY <1>4 DEF s

(* What the registry answers with is a function or nothing.                *)
LEMMA RegistryTyped ==
  ASSUME AppOK, NEW e
  PROVE  Registry(e) \in Function \cup {None}
<1>1. registry \in Seq(Function)  BY DEF AppOK
<1>2. ASSUME NEW i \in DOMAIN registry PROVE registry[i] \in Function  BY <1>1, <1>2
<1> QED  BY <1>2, Zenon DEF Registry

(* For an element its evaluation made, it is the function made with it.    *)
LEMMA RegistryOfShown ==
  ASSUME AppOK, Filled, ~broken, NEW e, MadeIn(shown.render, e)
  PROVE  Registry(e) = [eval |-> shown.eval, element |-> e]
<1> DEFINE r == shown.render
<1>1. r \in Renders /\ shown.eval \in Nat  BY DEF AppOK
<1>2. registry = Registered(r, shown.eval)  BY Zenon DEF Filled
<1>3. Id(e) \in DOMAIN r.made /\ r.made[Id(e)] = e  BY Zenon DEF Id, MadeIn
<1>4. DOMAIN registry = DOMAIN r.made
      /\ \A i \in DOMAIN r.made : registry[i] = [eval |-> shown.eval, element |-> r.made[i]]
  BY <1>1, <1>2, RegisteredFunctions
<1>5. e \in Registers
  <2>1. r.made \in Seq(Registers)  BY <1>1, RendersAssumption, Zenon
  <2> QED  BY <1>3, <2>1
<1>6. Registry(e) = registry[Id(e)]  BY <1>3, <1>4, <1>5, Zenon DEF Registry
<1> QED  BY <1>3, <1>4, <1>6, Zenon

(* An evaluation that is shown fills the registry; one that throws breaks  *)
(* what is shown off from it.                                              *)
LEMMA EvaluationKeeps ==
  ASSUME AppOK, Filled, Kept, Evaluates
  PROVE  AppOK' /\ Filled' /\ Kept'
<1>1. evals' = evals + 1 /\ evals \in Nat /\ shown \in [render : Renders, eval : 1..evals]
  BY DEF AppOK, Evaluates, Eval, Install
<1>2. evals' \in Nat  BY <1>1
<1>3. shown \in [render : Renders, eval : 1..evals']  BY <1>1
<1>4. captured' \in {captured, None}  BY Zenon DEF Evaluates, Eval, Install
<1>5. \/ \E r \in Renders : /\ registry' = Registered(r, evals')
                            /\ shown' = [render |-> r, eval |-> evals'] /\ broken' = FALSE
      \/ \E r \in Renders : registry' = Registered(r, evals') /\ broken' = TRUE /\ UNCHANGED shown
      \/ \E r \in Renders : \E k \in 0..Len(r.made) :
           /\ registry' = SubSeq(Registered(r, evals'), 1, k) /\ broken' = TRUE
           /\ \/ UNCHANGED shown
              \/ \E s \in Renders : shown' = [render |-> s, eval |-> evals']
  BY Zenon DEF Evaluates, Eval, Install
<1>6. registry' \in Seq(Function)  BY <1>2, <1>5, RegisteredFunctions, SomeOfThem, Zenon
<1>7. \A r \in Renders : [render |-> r, eval |-> evals'] \in [render : Renders, eval : 1..evals']
  BY <1>1, <1>2
<1>8. shown' \in [render : Renders, eval : 1..evals']  BY <1>3, <1>5, <1>7, Zenon
<1>9. broken' \in BOOLEAN  BY <1>5, Zenon
<1>10. UNCHANGED <<capture, drag>>  BY Zenon DEF Evaluates
<1>11. AppOK'  BY <1>2, <1>4, <1>6, <1>8, <1>9, <1>10 DEF AppOK
<1>12. Filled'
  <2>1. CASE broken' = TRUE  BY <2>1 DEF Filled
  <2>2. CASE broken' # TRUE
    <3>1. PICK r \in Renders : registry' = Registered(r, evals') /\ shown' = [render |-> r, eval |-> evals']
      BY <1>5, <2>2, Zenon
    <3>2. shown'.render = r /\ shown'.eval = evals'  BY <3>1
    <3> QED  BY <3>1, <3>2, Zenon DEF Filled, Registered
  <2> QED  BY <2>1, <2>2
<1>13. Kept'  BY <1>4, <1>10, Zenon DEF Kept
<1> QED  BY <1>11, <1>12, <1>13

(* A gesture runs what is captured, or what the registry holds for the     *)
(* element pressed, which it captures if the element is a slider.          *)
LEMMA GestureKeeps ==
  ASSUME AppOK, Filled, Kept, HandlesGesture
  PROVE  AppOK' /\ Filled' /\ Kept'
<1>1. UNCHANGED <<shown, registry, evals, broken>>  BY Zenon DEF HandlesGesture
<1>2. \A e : Registry(e) \in Function \cup {None}  BY RegistryTyped, Zenon
<1>3. \/ capture' = TRUE /\ captured' = drag' /\ drag' \in Function \cup {None}
      \/ capture' = FALSE /\ drag' = None /\ captured' \in {captured, None}
      \/ UNCHANGED <<capture, captured, drag>>
  BY <1>2, Zenon DEF HandlesGesture, HandlePress, HandleMotion, HandleRelease, EndCapture
<1>4. /\ shown \in [render : Renders, eval : 1..evals] /\ evals \in Nat
      /\ registry \in Seq(Function) /\ broken \in BOOLEAN
      /\ captured \in Function \cup {None} /\ drag \in Function \cup {None} /\ capture \in BOOLEAN
  BY DEF AppOK
<1>5. /\ capture' \in BOOLEAN
      /\ captured' \in Function \cup {None} /\ drag' \in Function \cup {None}
  BY <1>3, <1>4, Zenon
<1>6. AppOK'  BY <1>1, <1>4, <1>5 DEF AppOK
<1>7. Filled'  BY <1>1, Zenon DEF Filled, Registered
<1>8. Kept'  BY <1>3, Zenon DEF Kept
<1> QED  BY <1>6, <1>7, <1>8

(* Every step is one of these, or leaves what gestures run alone.          *)
LEMMA AppSteps ==
  ASSUME Next
  PROVE  Evaluates \/ HandlesGesture \/ Activates \/ UNCHANGED app
<1>1. ASSUME Tick PROVE Evaluates \/ UNCHANGED app  BY <1>1, Zenon DEF Tick, Evaluates
<1>2. ASSUME Reload PROVE Evaluates \/ UNCHANGED app  BY <1>2, Zenon DEF Reload, Evaluates
<1>3. ASSUME HandleEvent PROVE Evaluates \/ HandlesGesture
  BY <1>3, Zenon DEF HandleEvent, Evaluates, HandlesGesture
<1>4. ASSUME Activate PROVE Activates  BY <1>4, Zenon DEF Activate, Activates
<1>5. ASSUME Wake \/ UpdateA11y \/ Push \/ Drain \/ EndPass \/ IntervalPasses PROVE UNCHANGED app
  BY <1>5, Zenon DEF Wake, UpdateA11y, Push, Drain, EndPass, IntervalPasses
<1>6. ASSUME NEW event, Send(event) PROVE UNCHANGED app  BY <1>6, Zenon DEF Send
<1>7. ASSUME NEW t, Ping(t) PROVE UNCHANGED app  BY <1>7, Zenon DEF Ping
<1>8. ASSUME LineComes \/ Save \/ Fetched \/ Detach PROVE UNCHANGED app
  BY <1>8, Zenon DEF LineComes, Save, Fetched, Detach
<1>9. ASSUME Platform PROVE UNCHANGED app
  BY <1>9, Zenon DEF Platform, StartReading, FinishReading, Act
<1> QED  BY <1>1, <1>2, <1>3, <1>4, <1>5, <1>6, <1>7, <1>8, <1>9, Zenon DEF Next, Loop, Press

(* The registry and the slot stay those of the panel and of the drag.      *)
LEMMA AppStep ==
  ASSUME AppOK, Filled, Kept, [Next]_vars
  PROVE  AppOK' /\ Filled' /\ Kept'
<1>1. ASSUME UNCHANGED app PROVE AppOK' /\ Filled' /\ Kept'
  <2>1. UNCHANGED <<shown, registry, captured, capture, evals, broken, drag>>
    BY <1>1, Zenon DEF app, js
  <2>2. AppOK'  BY <2>1, Zenon DEF AppOK
  <2>3. Filled'  BY <2>1, Zenon DEF Filled, Registered
  <2>4. Kept'  BY <2>1, Zenon DEF Kept
  <2> QED  BY <2>2, <2>3, <2>4
<1>2. ASSUME Activates PROVE AppOK' /\ Filled' /\ Kept'
  <2>1. UNCHANGED <<shown, registry, captured, capture, evals, broken, drag>>
    BY <1>2, Zenon DEF Activates, js
  <2>2. AppOK'  BY <2>1, Zenon DEF AppOK
  <2>3. Filled'  BY <2>1, Zenon DEF Filled, Registered
  <2>4. Kept'  BY <2>1, Zenon DEF Kept
  <2> QED  BY <2>2, <2>3, <2>4
<1>3. ASSUME UNCHANGED vars PROVE UNCHANGED app  BY <1>3, Zenon DEF vars
<1> QED  BY <1>1, <1>2, <1>3, AppSteps, EvaluationKeeps, GestureKeeps, Zenon

(* What a step runs: a press or an activation runs what the registry holds *)
(* for the element in the panel, a motion what the slot of the drag holds. *)
LEMMA WhatRuns ==
  ASSUME [Next]_vars, ran' # ran
  PROVE  \/ /\ capture /\ captured # None
            /\ Ran("motion", None, captured)
         \/ \E how \in {"press", "activate"} : \E place \in DOMAIN shown.render.tree :
              /\ shown.render.tree # None
              /\ Ran(how, shown.render.tree[place], Registry(shown.render.tree[place]))
<1>1. ASSUME UNCHANGED vars PROVE FALSE  BY <1>1, Zenon DEF vars, app
<1>2. ASSUME UNCHANGED app PROVE FALSE  BY <1>2, Zenon DEF app
<1>3. ASSUME Evaluates PROVE FALSE  BY <1>3, Zenon DEF Evaluates
<1>4. CASE Activates  BY <1>4, Zenon DEF Activates
<1>5. CASE HandlesGesture
  <2>1. ASSUME HandleRelease PROVE FALSE  BY <2>1, Zenon DEF HandleRelease
  <2>2. CASE HandleMotion  BY <2>2, Zenon DEF HandleMotion
  <2>3. CASE \E place : HandlePress(place)  BY <2>3, Zenon DEF HandlePress
  <2> QED  BY <1>5, <2>1, <2>2, <2>3, Zenon DEF HandlesGesture
<1> QED  BY <1>1, <1>2, <1>3, <1>4, <1>5, AppSteps, Zenon

-----------------------------------------------------------------------------
(* The pings.                                                              *)

(* What comes to the Loop comes with a ping, there or owed; what the pass  *)
(* has been at is emptied when it gets there.                              *)
LEMMA AnnouncedStep ==
  ASSUME PassOK, Announced, [Next]_vars
  PROVE  PassOK' /\ Announced'
<1> USE DEF PassOK, Announced
<1>1. CASE UNCHANGED vars  BY <1>1 DEF vars, inputs
<1>2. CASE Wake  BY <1>2 DEF Wake, inputs
<1>3. CASE Tick  BY <1>3 DEF Tick
<1>4. CASE Reload  BY <1>4 DEF Reload
<1>5. CASE HandleEvent
  <2>1. pc = "events" /\ UNCHANGED <<pc, ping, owed, line, reloads, events, actions>>
    BY <1>5, Zenon DEF HandleEvent, inputs
  <2> QED  BY <2>1
<1>6. CASE UpdateA11y
  <2>1. /\ pc = "events" /\ pc' \in {"drain", "push"}
        /\ UNCHANGED <<ping, owed, line, reloads, events, actions>>
    BY <1>6, Zenon DEF UpdateA11y, inputs
  <2> QED  BY <2>1
<1>7. CASE Push  BY <1>7 DEF Push, inputs
<1>8. CASE Drain  BY <1>8 DEF Drain, inputs
<1>9. CASE Activate
  <2>1. UNCHANGED <<pc, ping, owed, line, reloads, events, actions>>
    BY <1>9, Zenon DEF Activate, inputs
  <2> QED  BY <2>1
<1>10. CASE EndPass  BY <1>10 DEF EndPass, inputs
<1>11. CASE IntervalPasses  BY <1>11 DEF IntervalPasses, inputs
<1>12. ASSUME NEW event, Send(event) PROVE PassOK' /\ Announced'
  BY <1>12 DEF Send
<1>13. ASSUME NEW t, Ping(t) PROVE PassOK' /\ Announced'
  BY <1>13 DEF Ping, inputs
<1>14. CASE LineComes  BY <1>14 DEF LineComes
<1>15. CASE Save \/ Fetched
  <2>1. /\ reloads' = reloads + 1
        /\ ping' = TRUE \/ ping' = ping
        /\ UNCHANGED <<pc, owed, line, events, actions>>
    BY <1>15, Zenon DEF Save, Fetched
  <2>2. reloads' \in Nat  BY <2>1
  <2>3. ping' \in BOOLEAN  BY <2>1, Zenon
  <2>4. PassOK'  BY <2>1, <2>2, <2>3, Zenon
  <2>5. Announced'  BY <2>1, Zenon
  <2> QED  BY <2>4, <2>5
<1>16. CASE Detach  BY <1>16 DEF Detach, inputs
<1>17. CASE StartReading \/ FinishReading
  BY <1>17 DEF StartReading, FinishReading, inputs
<1>18. ASSUME NEW place, Act(place) PROVE PassOK' /\ Announced'
  BY <1>18 DEF Act, inputs
<1> QED
  BY <1>1, <1>2, <1>3, <1>4, <1>5, <1>6, <1>7, <1>8, <1>9, <1>10, <1>11, <1>12, <1>13,
     <1>14, <1>15, <1>16, <1>17, <1>18, Zenon DEF Next, Loop, Press, Platform

-----------------------------------------------------------------------------
(* The tree of the screen reader.                                          *)

A11yInv == AdapterOK /\ SharedOK /\ Followed

(* A step that changes neither the panel nor what is shared with the       *)
(* platform may move the pass among places that promise the same.          *)
LEMMA A11yFrame ==
  ASSUME A11yInv, UNCHANGED a11y,
         \/ UNCHANGED <<shown, pc>>
         \/ pc' \in {"tick", "reload", "events"} /\ pc # "push"
         \/ /\ UNCHANGED shown
            /\ pc \in {"drain", "actions"} /\ pc' \in {"actions", "waiting"}
  PROVE  A11yInv'
<1>1. UNCHANGED <<adapter, state, reading, tree>>  BY Zenon DEF a11y
<1>2. AdapterOK'  BY <1>1, Zenon DEF AdapterOK, A11yInv, Shared, Content
<1>3. pc' = "push" => pc = "push"  OBVIOUS
<1>4. SharedOK'  BY <1>1, <1>3, Zenon DEF SharedOK, A11yInv, Shared, Content
<1>5. pc' # "push" => pc # "push"  OBVIOUS
<1>6. pc' \in {"push", "drain", "actions", "waiting"} =>
        UNCHANGED shown /\ pc \in {"push", "drain", "actions", "waiting"}
  OBVIOUS
<1>7. Followed'  BY <1>1, <1>5, <1>6, Zenon DEF Followed, A11yInv, Shared, Content
<1> QED  BY <1>2, <1>4, <1>7 DEF A11yInv

(* The content shared is the panel's, and pushing is still to be done if   *)
(* it changed.                                                             *)
LEMMA UpdateKeeps ==
  ASSUME AppOK, A11yInv, UpdateA11y
  PROVE  A11yInv'
<1>1. /\ pc = "events" /\ UNCHANGED shown
      /\ shown.render \in Renders
  BY DEF AppOK, UpdateA11y, app
<1>2. CASE shown.render.tree = None
  <2>1. /\ adapter' = "none" /\ state' = None /\ reading' = None /\ tree' = None
        /\ pc' = "drain" /\ shown' = shown
    BY <1>2, <1>1 DEF UpdateA11y
  <2>2. AdapterOK'  BY <2>1 DEF AdapterOK
  <2>3. SharedOK'  BY <2>1 DEF SharedOK
  <2>4. Followed'  BY <1>2, <2>1 DEF Followed
  <2> QED  BY <2>2, <2>3, <2>4 DEF A11yInv
<1>3. CASE shown.render.tree # None /\ state # None /\ state.content = shown.render
  <2>1. /\ adapter' = (IF adapter = "none" THEN "inactive" ELSE adapter)
        /\ pc' = "drain" /\ shown' = shown /\ UNCHANGED <<state, reading, tree>>
    BY <1>3, <1>1 DEF UpdateA11y
  <2>2. adapter # "none" /\ adapter' = adapter  BY <1>3, <2>1 DEF AdapterOK, A11yInv
  <2>3. state \in Shared  BY <1>3, Zenon DEF AdapterOK, A11yInv
  <2>4. AdapterOK'  BY <2>1, <2>2, Zenon DEF AdapterOK, A11yInv, Shared, Content
  <2>5. pc' # "push"  BY <2>1
  <2>6. SharedOK'  BY <2>1, <2>2, <2>5, Zenon DEF SharedOK, A11yInv, Shared, Content
  <2>7. pc # "push"  BY <1>1
  <2>8. Followed'  BY <1>3, <2>1, <2>2, <2>3, <2>7, Zenon DEF Followed, A11yInv, Shared, Content
  <2> QED  BY <2>4, <2>6, <2>8 DEF A11yInv
<1>4. CASE shown.render.tree # None /\ ~(state # None /\ state.content = shown.render)
  <2>1. /\ adapter' = (IF adapter = "none" THEN "inactive" ELSE adapter)
        /\ pc' = "push" /\ shown' = shown /\ UNCHANGED <<reading, tree>>
        /\ state' = [content |-> shown.render, reverse |-> IF state = None THEN {} ELSE state.reverse]
    BY <1>4, <1>1 DEF UpdateA11y
  <2>2. (IF state = None THEN {} ELSE state.reverse) \in SUBSET Nat
    BY DEF AdapterOK, A11yInv, Shared
  <2>3. state' \in Shared /\ state'.content = shown.render
    BY <1>1, <2>1, <2>2 DEF Shared, Content
  <2>4. /\ adapter' \in {"none", "inactive", "pending", "building", "active"}
        /\ adapter' # "none"
        /\ adapter' = "building" <=> adapter = "building"
        /\ adapter' = "active" <=> adapter = "active"
    BY <2>1 DEF AdapterOK, A11yInv
  <2>5. AdapterOK'  BY <2>1, <2>3, <2>4, Zenon DEF AdapterOK, A11yInv, Shared, Content
  <2>6. state'.content.tree # None  BY <1>4, <2>3
  <2>7. SharedOK'
    BY <2>1, <2>3, <2>4, <2>6, Zenon DEF SharedOK, A11yInv, Shared, Content
  <2>8. Followed'  BY <1>4, <2>1, <2>3, Zenon DEF Followed, Shared, Content
  <2> QED  BY <2>5, <2>7, <2>8 DEF A11yInv
<1> QED  BY <1>2, <1>3, <1>4, Zenon

(* The domain of a panel's tree is a set of places.                        *)
LEMMA Places ==
  ASSUME NEW r \in Renders, r.tree # None
  PROVE  DOMAIN r.tree \in SUBSET Nat
<1>1. r.tree \in Seq(Element)  BY RendersAssumption
<1> QED  BY <1>1

(* Pushing presents the content that is shared, whatever the other thread  *)
(* has built before.                                                       *)
LEMMA PushKeeps ==
  ASSUME A11yInv, Push
  PROVE  A11yInv'
<1>1. /\ pc = "push" /\ pc' = "drain" /\ adapter # "building" /\ UNCHANGED shown
  BY DEF Push, app
<1>2. /\ state \in Shared /\ state.content.tree # None
      /\ IF shown.render.tree = None THEN adapter = "none" ELSE state.content = shown.render
  BY <1>1 DEF SharedOK, Followed, A11yInv
<1>3. CASE adapter = "inactive"
  <2>1. UNCHANGED <<adapter, state, reading, tree>>  BY <1>3, Zenon DEF Push, a11y
  <2>2. AdapterOK'  BY <2>1, Zenon DEF AdapterOK, A11yInv, Shared, Content
  <2>3. SharedOK'  BY <2>1, <1>1, <1>3 DEF SharedOK, A11yInv, Shared, Content
  <2>4. Followed'  BY <2>1, <1>1, <1>2, <1>3 DEF Followed, Shared, Content
  <2> QED  BY <2>2, <2>3, <2>4 DEF A11yInv
<1>4. CASE adapter # "inactive"
  <2>1. /\ adapter' = "active" /\ tree' = state.content.tree /\ UNCHANGED reading
        /\ state' = [state EXCEPT !.reverse = DOMAIN state.content.tree]
    BY <1>4, Zenon DEF Push
  <2>2. state.content \in Renders  BY <1>2 DEF Shared, Content
  <2>3. DOMAIN state.content.tree \in SUBSET Nat  BY <1>2, <2>2, Places
  <2>4. /\ state' \in Shared /\ state'.content = state.content
        /\ state'.reverse = DOMAIN state.content.tree
    BY <1>2, <2>1, <2>3 DEF Shared
  <2>5. reading = None  BY <1>1 DEF AdapterOK, A11yInv
  <2>6. AdapterOK'  BY <1>2, <2>1, <2>4, <2>5 DEF AdapterOK, Shared, Content
  <2>7. SharedOK'  BY <1>1, <1>2, <2>1, <2>4, <2>5 DEF SharedOK, Shared, Content
  <2>8. shown.render.tree # None  BY <1>1, Zenon DEF Followed, A11yInv
  <2>9. Followed'  BY <1>1, <1>2, <2>1, <2>4, <2>8 DEF Followed, Shared, Content
  <2> QED  BY <2>6, <2>7, <2>9 DEF A11yInv
<1> QED  BY <1>3, <1>4

(* The platform's thread starts from the content shared, or waits for one; *)
(* it presents what it built; it can let go of a tree it has.              *)
LEMMA ReadingKeeps ==
  ASSUME A11yInv, StartReading \/ FinishReading \/ Detach
  PROVE  A11yInv'
<1>1. UNCHANGED <<pc, shown>>
  BY DEF StartReading, FinishReading, Detach, app
<1>2. CASE StartReading /\ state = None
  <2>1. adapter = "inactive" /\ adapter' = "pending" /\ UNCHANGED <<state, reading, tree>>
    BY <1>2, Zenon DEF StartReading
  <2>2. AdapterOK'  BY <2>1, <1>2 DEF AdapterOK, A11yInv, Shared, Content
  <2>3. SharedOK'  BY <2>1, <1>1, <1>2 DEF SharedOK, A11yInv, Shared, Content
  <2>4. Followed'  BY <2>1, <1>1, <1>2 DEF Followed, A11yInv, Shared, Content
  <2> QED  BY <2>2, <2>3, <2>4 DEF A11yInv
<1>3. CASE StartReading /\ state # None
  <2>1. /\ adapter = "inactive" /\ adapter' = "building" /\ reading' = state.content
        /\ UNCHANGED <<state, tree>>
    BY <1>3, Zenon DEF StartReading
  <2>2. state \in Shared /\ state.content.tree # None  BY <1>3 DEF SharedOK, A11yInv
  <2>3. state.content \in Renders  BY <2>2 DEF Shared, Content
  <2>4. reading' # None
    <3>1. None \notin Renders  BY ElementAssumption
    <3> QED  BY <2>1, <2>3, <3>1
  <2>5. AdapterOK'  BY <2>1, <2>2, <2>4, <1>3 DEF AdapterOK, A11yInv, Shared, Content
  <2>6. SharedOK'  BY <2>1, <2>2, <2>3, <1>1, <1>3 DEF SharedOK, A11yInv, Shared, Content
  <2>7. Followed'  BY <2>1, <1>1, <1>3 DEF Followed, A11yInv, Shared, Content
  <2> QED  BY <2>5, <2>6, <2>7 DEF A11yInv
<1>4. CASE FinishReading
  <2>1. /\ adapter = "building" /\ adapter' = "active" /\ reading' = None
        /\ tree' = reading.tree /\ state' = [state EXCEPT !.reverse = DOMAIN reading.tree]
    BY <1>4, Zenon DEF FinishReading
  <2>2. /\ state \in Shared /\ state.content.tree # None
        /\ reading \in Renders /\ reading.tree # None
    BY <2>1 DEF SharedOK, A11yInv
  <2>3. DOMAIN reading.tree \in SUBSET Nat  BY <2>2, Places
  <2>4. /\ state' \in Shared /\ state'.content = state.content
        /\ state'.reverse = DOMAIN reading.tree
    BY <2>1, <2>2, <2>3 DEF Shared
  <2>5. AdapterOK'  BY <2>1, <2>2, <2>4 DEF AdapterOK, Shared, Content
  <2>6. SharedOK'  BY <1>1, <2>1, <2>2, <2>4 DEF SharedOK, A11yInv, Shared, Content
  <2>7. pc # "push" => reading = state.content  BY <2>1, Zenon DEF Followed, A11yInv
  <2>8. shown.render.tree = None => pc \notin {"push", "drain", "actions", "waiting"}
    BY <2>1 DEF Followed, A11yInv
  <2>9. pc \in {"push", "drain", "actions", "waiting"} => state.content = shown.render
    BY <2>8, Zenon DEF Followed, A11yInv
  <2>10. Followed'
    <3>1. pc \in {"push", "drain", "actions", "waiting"} =>
            state' \in Shared /\ state'.content = shown.render
      BY <2>4, <2>9, Zenon
    <3>2. pc # "push" => tree' = state'.content.tree /\ state'.reverse = DOMAIN tree'
      BY <2>1, <2>4, <2>7, Zenon
    <3>3. adapter' # "building" /\ pc' = pc /\ shown' = shown  BY <1>1, <2>1
    <3>4. pc = "push" => shown.render.tree # None  BY <2>8
    <3> QED  BY <2>8, <3>1, <3>2, <3>3, <3>4, Zenon DEF Followed, Shared, Content
  <2> QED  BY <2>5, <2>6, <2>10 DEF A11yInv
<1>5. CASE Detach
  <2>1. /\ adapter \in {"active", "pending"} /\ adapter' = "inactive" /\ tree' = None
        /\ UNCHANGED <<state, reading>>
    BY <1>5, Zenon DEF Detach
  <2>2. AdapterOK'  BY <2>1 DEF AdapterOK, A11yInv, Shared, Content
  <2>3. SharedOK'  BY <2>1, <1>1 DEF SharedOK, A11yInv, Shared, Content
  <2>4. Followed'  BY <2>1, <1>1 DEF Followed, A11yInv, Shared, Content
  <2> QED  BY <2>2, <2>3, <2>4 DEF A11yInv
<1> QED  BY <1>2, <1>3, <1>4, <1>5, Zenon

(* Everything else leaves the tree alone, and may at most change the panel *)
(* before the adapters are brought up to date.                             *)
LEMMA A11yStep ==
  ASSUME AppOK, A11yInv, [Next]_vars
  PROVE  A11yInv'
<1>1. CASE UNCHANGED vars  BY <1>1, A11yFrame, Zenon DEF vars, app
<1>2. CASE Wake \/ IntervalPasses
  <2>1. UNCHANGED a11y /\ pc = "waiting" /\ pc' = "tick"  BY <1>2, Zenon DEF Wake, IntervalPasses
  <2>2. pc # "push" /\ pc' \in {"tick", "reload", "events"}  BY <2>1
  <2> QED  BY <2>1, <2>2, A11yFrame, Zenon
<1>3. CASE Tick
  <2>1. UNCHANGED a11y /\ pc = "tick" /\ pc' = "reload"  BY <1>3, Zenon DEF Tick
  <2>2. pc # "push" /\ pc' \in {"tick", "reload", "events"}  BY <2>1
  <2> QED  BY <2>1, <2>2, A11yFrame, Zenon
<1>4. CASE Reload
  <2>1. UNCHANGED a11y /\ pc = "reload" /\ pc' = "events"  BY <1>4, Zenon DEF Reload
  <2>2. pc # "push" /\ pc' \in {"tick", "reload", "events"}  BY <2>1
  <2> QED  BY <2>1, <2>2, A11yFrame, Zenon
<1>5. CASE HandleEvent
  <2>1. UNCHANGED a11y /\ pc = "events" /\ pc' = pc  BY <1>5, Zenon DEF HandleEvent
  <2>2. pc # "push" /\ pc' \in {"tick", "reload", "events"}  BY <2>1
  <2> QED  BY <2>1, <2>2, A11yFrame, Zenon
<1>6. CASE UpdateA11y  BY <1>6, UpdateKeeps, Zenon
<1>7. CASE Push  BY <1>7, PushKeeps, Zenon
<1>8. CASE Drain \/ EndPass
  <2>1. /\ UNCHANGED <<a11y, shown>>
        /\ (pc = "drain" /\ pc' = "actions") \/ (pc = "actions" /\ pc' = "waiting")
    BY <1>8, Zenon DEF Drain, EndPass, app
  <2>2. pc \in {"drain", "actions"} /\ pc' \in {"actions", "waiting"}  BY <2>1
  <2> QED  BY <2>1, <2>2, A11yFrame, Zenon
<1>9. CASE Activate  BY <1>9, A11yFrame, Zenon DEF Activate
<1>10. ASSUME NEW event, Send(event) PROVE A11yInv'  BY <1>10, A11yFrame, Zenon DEF Send, app
<1>11. ASSUME NEW t, Ping(t) PROVE A11yInv'  BY <1>11, A11yFrame, Zenon DEF Ping, app
<1>12. CASE LineComes \/ Save \/ Fetched  BY <1>12, A11yFrame, Zenon DEF LineComes, Save, Fetched, app
<1>13. CASE StartReading \/ FinishReading \/ Detach  BY <1>13, ReadingKeeps, Zenon
<1>14. ASSUME NEW place, Act(place) PROVE A11yInv'  BY <1>14, A11yFrame, Zenon DEF Act, app
<1> QED
  BY <1>1, <1>2, <1>3, <1>4, <1>5, <1>6, <1>7, <1>8, <1>9, <1>10, <1>11, <1>12, <1>13, <1>14,
     Zenon DEF Next, Loop, Press, Platform

-----------------------------------------------------------------------------
(* The theorems.                                                           *)

(* It all holds when the program starts.                                   *)
LEMMA InitHolds ==
  ASSUME Init
  PROVE  IInv
<1>1. PICK r \in Renders : shown = [render |-> r, eval |-> 1] /\ registry = Registered(r, 1)
  BY Zenon DEF Init
<1>2. shown.render = r /\ shown.eval = 1 /\ shown \in [render : Renders, eval : 1..1]  BY <1>1
<1>3. registry \in Seq(Function)  BY <1>1, RegisteredFunctions
<1>4. /\ captured = None /\ capture = FALSE /\ evals = 1 /\ broken = FALSE /\ drag = None
      /\ pc = "tick" /\ ping = FALSE /\ owed = {} /\ line = FALSE /\ reloads = 0
      /\ adapter = "none" /\ state = None /\ reading = None /\ tree = None
  BY Zenon DEF Init
<1>5. AppOK  BY <1>2, <1>3, <1>4 DEF AppOK
<1>6. PassOK  BY <1>4 DEF PassOK
<1>7. AdapterOK  BY <1>4 DEF AdapterOK
<1>8. SharedOK  BY <1>4 DEF SharedOK
<1>9. Filled  BY <1>1, <1>2, Zenon DEF Filled
<1>10. Kept  BY <1>4 DEF Kept
<1>11. Announced  BY <1>4 DEF Announced
<1>12. Followed  BY <1>4 DEF Followed
<1> QED  BY <1>5, <1>6, <1>7, <1>8, <1>9, <1>10, <1>11, <1>12, TypeParts, Zenon DEF IInv

(* Every step keeps it.                                                    *)
LEMMA StepKeeps ==
  ASSUME IInv, [Next]_vars
  PROVE  IInv'
<1>1. AppOK /\ PassOK /\ AdapterOK  BY TypeParts, Zenon DEF IInv
<1>2. AppOK' /\ Filled' /\ Kept'  BY <1>1, AppStep, Zenon DEF IInv
<1>3. PassOK' /\ Announced'  BY <1>1, AnnouncedStep, Zenon DEF IInv
<1>4. A11yInv'  BY <1>1, A11yStep, Zenon DEF IInv, A11yInv
<1>5. AdapterOK' /\ SharedOK' /\ Followed'  BY <1>4, Zenon DEF A11yInv
<1>6. TypeOK' <=> AppOK' /\ PassOK' /\ AdapterOK'
  BY Zenon DEF TypeOK, AppOK, PassOK, AdapterOK, Shared
<1> QED  BY <1>2, <1>3, <1>5, <1>6, Zenon DEF IInv

(* The invariant the theorems below rest on.                               *)
LEMMA InvariantHolds == Spec => []IInv
<1>1. Init => IInv  BY InitHolds
<1>2. IInv /\ [Next]_vars => IInv'  BY StepKeeps
<1> QED  BY <1>1, <1>2, PTL DEF Spec

(* Every variable keeps its type: a panel is one an evaluation returned,   *)
(* and no later than the last; a tree is there when the adapter is active. *)
THEOREM GesturesTyped == Spec => []TypeOK
<1>1. IInv => TypeOK  BY Zenon DEF IInv
<1> QED  BY <1>1, InvariantHolds, PTL

(* The Loop does not wait with a gesture or an activation left to it, but  *)
(* for a ping that is there or about to be.                                *)
THEOREM NoGestureIsLeft == Spec => []NobodyWaits
<1>1. IInv => NobodyWaits  BY DEF IInv, Announced, NobodyWaits
<1> QED  BY <1>1, InvariantHolds, PTL

(* Whenever the Loop waits, the tree a screen reader has is the panel's,   *)
(* and every node of it can be activated.                                  *)
THEOREM ScreenReaderSeesThePanel == Spec => []TreeIsShown
<1>1. ASSUME IInv, pc = "waiting", adapter = "active"
      PROVE  tree = shown.render.tree /\ state.reverse = DOMAIN tree
  <2>1. Followed  BY <1>1, Zenon DEF IInv
  <2>2. pc # "push" /\ adapter # "none" /\ pc \in {"push", "drain", "actions", "waiting"}  BY <1>1
  <2>3. tree = state.content.tree /\ state.reverse = DOMAIN tree
    BY <1>1, <2>1, <2>2, Zenon DEF Followed
  <2>4. state.content = shown.render  BY <2>1, <2>2, Zenon DEF Followed
  <2> QED  BY <2>3, <2>4, Zenon
<1>2. IInv => TreeIsShown  BY <1>1, Zenon DEF TreeIsShown
<1> QED  BY <1>2, InvariantHolds, PTL

(* As long as no evaluation threw since the panel was made, a press or an  *)
(* activation of an element made with it runs the function made for that   *)
(* very element.                                                           *)
THEOREM PressRunsItsOwn == Spec => RunsItsOwn
<1> DEFINE P == ran' # ran /\ ~broken /\ ran'.how # "motion" /\ MadeIn(shown.render, ran'.element)
                  => ran'.function = [eval |-> shown.eval, element |-> ran'.element]
<1>1. ASSUME IInv, [Next]_vars, ran' # ran, ~broken, ran'.how # "motion",
             MadeIn(shown.render, ran'.element)
      PROVE  ran'.function = [eval |-> shown.eval, element |-> ran'.element]
  <2>1. AppOK /\ Filled  BY <1>1, TypeParts, Zenon DEF IInv
  <2>2. ASSUME Ran("motion", None, captured) PROVE FALSE
    BY <1>1, <2>2 DEF Ran
  <2>3. PICK how \in {"press", "activate"}, place \in DOMAIN shown.render.tree :
          Ran(how, shown.render.tree[place], Registry(shown.render.tree[place]))
    BY <1>1, <2>2, WhatRuns, Zenon
  <2> DEFINE e == shown.render.tree[place]
  <2>4. ran'.element = e /\ ran'.function = Registry(e)  BY <2>3 DEF Ran
  <2>5. MadeIn(shown.render, e)  BY <1>1, <2>4, Zenon
  <2>6. Registry(e) = [eval |-> shown.eval, element |-> e]
    BY <1>1, <2>1, <2>5, RegistryOfShown, Zenon
  <2> QED  BY <2>4, <2>6, Zenon
<1>2. IInv /\ [Next]_vars => [P]_vars  BY <1>1, Zenon
<1> QED  BY <1>2, InvariantHolds, PTL DEF Spec, RunsItsOwn

(* Motions run the function of the press that began the drag, whatever was *)
(* evaluated, plugged in or reloaded since.                                *)
THEOREM DragRunsItsOwn == Spec => DragKeepsItsOwn
<1> DEFINE P == ran' # ran /\ ran'.how = "motion" => ran'.function = drag
<1>1. ASSUME IInv, [Next]_vars, ran' # ran, ran'.how = "motion"
      PROVE  ran'.function = drag
  <2>1. ASSUME NEW how \in {"press", "activate"}, NEW e, NEW f, Ran(how, e, f) PROVE FALSE
    BY <1>1, <2>1 DEF Ran
  <2>2. capture /\ captured # None /\ Ran("motion", None, captured)
    BY <1>1, <2>1, WhatRuns, Zenon
  <2>3. ran'.function = captured  BY <2>2 DEF Ran
  <2> QED  BY <1>1, <2>2, <2>3, Zenon DEF IInv, Kept
<1>2. IInv /\ [Next]_vars => [P]_vars  BY <1>1, Zenon
<1> QED  BY <1>2, InvariantHolds, PTL DEF Spec, DragKeepsItsOwn
=============================================================================
