----------------------- MODULE RenderPipeline_proofs -----------------------
(* What holds of the render pipeline for any panels, wallpapers, outputs   *)
(* and layouts, however many passes: types, panels that sample the         *)
(* published wallpaper, frames that fit the window they are painted in,    *)
(* wallpapers that are painted before what is cropped from them, repaints  *)
(* that meet the size they were drawn for, and pictures that reach their   *)
(* window in the order, and as new as, the tick thread recorded them.      *)
(* Then, that every step is one of LatestFrame's, or not seen from outside.*)
(* Last, on a clock of its own, how long a panel waits for its turn.       *)
EXTENDS RenderRefinement, SequenceTheorems, FiniteSetTheorems, TLAPS

USE DEF Surface

-----------------------------------------------------------------------------
(* The inductive invariant.  TypeOK does not carry itself: the answer to a *)
(* Now job is sent on with desired[wait.id], which has to be a spec, and   *)
(* which spec is wanted may only change when nobody is waiting.            *)

(* Walls and panels are never mixed in one phase, and the surface a frame  *)
(* is awaited for is one the phase still has to finish.                    *)
Phased ==
  /\ phase \in {"idle", "closed"} => todo = {}
  /\ phase \in {"walls", "clear walls"} => todo \subseteq Wall
  /\ phase \in {"panels", "clear panels"} => todo \subseteq Panel
  /\ wait # None => wait.id \in todo /\ desired[wait.id] # None

(* Panels already reconciled were cropped from the wallpaper now published,*)
(* and the one being drawn is.                                             *)
Sampled ==
  phase \in {"panels", "idle"} =>
    /\ \A p \in Panel \ todo : tracked[p] # None =>
         tracked[p].backdrop = registry[tracked[p].spec.output]
    /\ wait # None => wait.backdrop = registry[desired[wait.id].output]

IInv == TypeOK /\ Phased /\ Sampled

-----------------------------------------------------------------------------
(* Types.                                                                  *)

(* Sending to a queue and taking from it keep its type.                    *)
LEMMA QueueTyped ==
  ASSUME NEW T, NEW q \in Seq(T)
  PROVE  /\ \A e \in T : Append(q, e) \in Seq(T)
         /\ \A e \in T, f \in T : q \o <<e, f>> \in Seq(T)
         /\ \A e \in T : q \o <<e>> \in Seq(T)
         /\ q # <<>> => Head(q) \in T /\ Tail(q) \in Seq(T)
<1>1. \A e \in T : Append(q, e) \in Seq(T)
  OBVIOUS
<1>2. \A e \in T, f \in T : q \o <<e, f>> \in Seq(T)
  BY ConcatProperties
<1>3. \A e \in T : q \o <<e>> \in Seq(T)
  BY ConcatProperties
<1>4. q # <<>> => Head(q) \in T /\ Tail(q) \in Seq(T)
  BY HeadTailProperties
<1> QED BY <1>1, <1>2, <1>3, <1>4

(* What may travel to the worker and to the presenter.                     *)
LEMMA JobTyped ==
  /\ \A r \in Request : [job |-> "Now", request |-> r] \in Job
  /\ \A r \in PanelRequest : [job |-> "Repaint", request |-> r] \in Job
  /\ \A s \in Surface : [job |-> "Forget", id |-> s] \in Job
  BY DEF Job

(* Each command the Loop and the worker build is one the presenter knows.  *)
LEMMA CommandTyped ==
  /\ \A p \in Panel, spec \in SurfaceSpec, f \in Frame, c \in {"Create", "Resize"} :
        [cmd |-> c, id |-> p, spec |-> spec, frame |-> f] \in Command
  /\ \A w \in Wall, spec \in SurfaceSpec, n \in Nat :
        [cmd |-> "PaintWallpaper", id |-> w, spec |-> spec, published |-> n] \in Command
  /\ \A p \in Panel, spec \in SurfaceSpec :
        [cmd |-> "Move", id |-> p, spec |-> spec] \in Command
  /\ \A s \in Surface : [cmd |-> "Delete", id |-> s] \in Command
  /\ \A p \in Panel, f \in Frame :
        [cmd |-> "UpdatePicture", id |-> p, frame |-> f] \in Command
  /\ [cmd |-> "Shutdown"] \in Command
  BY DEF Command

(* What is rendered for a desired Surface is a request of the worker.      *)
LEMMA RequestTyped ==
  ASSUME TypeOK, NEW s \in Surface, desired[s] # None
  PROVE  /\ desired[s] \in SurfaceSpec
         /\ Behind(s, desired[s]) \in Nat
         /\ Stamp(desired[s].content) \in Nat
         /\ RequestFor(s, desired[s]) \in Request
         /\ s \in Panel => RequestFor(s, desired[s]) \in PanelRequest
<1>1. desired[s] \in SurfaceSpec
  BY DEF TypeOK
<1>2. Behind(s, desired[s]) \in Nat
  BY <1>1 DEF TypeOK, Behind, SurfaceSpec
<1>3. Stamp(desired[s].content) \in Nat
  BY DEF TypeOK, Stamp
<1> DEFINE crop == IF Behind(s, desired[s]) = 0 THEN None
                   ELSE [output |-> desired[s].output, place |-> desired[s].place]
<1>4. crop \in [output : Output, place : Place] \cup {None}
  BY <1>1 DEF SurfaceSpec
<1>5. asked + 1 \in Nat \ {0}
  <2>1. asked \in Nat
    BY DEF TypeOK
  <2> QED BY <2>1
<1>6. RequestFor(s, desired[s]) \in Request
  <2> HIDE DEF crop
  <2>1. RequestFor(s, desired[s]) =
          [id |-> s, content |-> desired[s].content, size |-> desired[s].size,
           backdrop |-> Behind(s, desired[s]), crop |-> crop, seq |-> asked + 1]
    BY DEF RequestFor, crop
  <2> QED BY <1>1, <1>2, <1>4, <1>5, <2>1 DEF Request, SurfaceSpec
<1>7. s \in Panel => RequestFor(s, desired[s]) \in PanelRequest
  BY <1>6 DEF RequestFor, PanelRequest
<1> QED BY <1>1, <1>2, <1>3, <1>6, <1>7

(* The types hold at the start.                                            *)
LEMMA InitTyped == Init => TypeOK
  BY BoundsAssumption DEF Init, TypeOK

(* Every step of a reconcile pass keeps the types.                         *)
LEMMA TickTyped == TypeOK /\ Phased /\ Tick => TypeOK'
<1> SUFFICES ASSUME TypeOK, Phased, Tick PROVE TypeOK'
  OBVIOUS
<1>a. jobs \in Seq(Job) /\ commands \in Seq(Command)
  BY DEF TypeOK
<1>b. asked \in Nat
  BY DEF TypeOK
<1>1. ASSUME NEW layout \in Layouts, BeginPass(layout) PROVE TypeOK'
  <2>1. desired' \in [Surface -> SurfaceSpec \cup {None}]
    BY <1>1, LayoutsAssumption DEF BeginPass
  <2> QED BY <1>1, <2>1 DEF TypeOK, BeginPass, workerVars, presenterVars
<1>2. CASE StoreDrawn
  BY <1>2 DEF TypeOK, StoreDrawn, workerVars, presenterVars
<1>3. CASE NextPhase
  <2>1. commands' \in Seq(Command)
    <3>1. \/ commands' = commands
          \/ commands' = Append(commands, [cmd |-> "Shutdown"])
      BY <1>3 DEF NextPhase
    <3>2. [cmd |-> "Shutdown"] \in Command
      BY CommandTyped
    <3> QED BY <1>a, <3>1, <3>2, QueueTyped
  <2> QED BY <1>3, <2>1 DEF TypeOK, NextPhase, workerVars, presenterVars
<1>4. CASE Close
  BY <1>4 DEF TypeOK, Close, workerVars, presenterVars
<1>5. ASSUME NEW s \in Surface, Exit(s) PROVE TypeOK'
  <2>1. registry' \in [Output -> Nat]
    BY <1>5 DEF TypeOK, Exit
  <2>2. jobs' \in Seq(Job)
    BY <1>a, <1>5, QueueTyped, JobTyped DEF Exit
  <2>3. commands' \in Seq(Command)
    <3>1. [cmd |-> "Delete", id |-> s] \in Command
      BY CommandTyped
    <3>2. commands' = Append(commands, [cmd |-> "Delete", id |-> s])
      BY <1>5 DEF Exit
    <3> QED BY <1>a, <3>1, <3>2, QueueTyped
  <2>4. tracked' \in [Surface -> SurfaceState \cup {None}]
    BY <1>5 DEF TypeOK, Exit
  <2> QED BY <1>5, <2>1, <2>2, <2>3, <2>4 DEF TypeOK, Exit, workerVars, presenterVars
<1>6. ASSUME NEW s \in Surface, AskNow(s), desired[s] # None
      PROVE /\ jobs' \in Seq(Job) /\ asked' \in Nat /\ wait' \in Waiting
  <2>1. jobs' \in Seq(Job)
    BY <1>a, <1>6, RequestTyped, QueueTyped, JobTyped DEF AskNow
  <2>2. wait' \in Waiting
    BY <1>6, RequestTyped DEF AskNow, Waiting
  <2>3. asked' \in Nat
    BY <1>6, <1>b DEF AskNow
  <2> QED BY <2>1, <2>2, <2>3
<1>7. ASSUME NEW s \in Surface, Enter(s) PROVE TypeOK'
  BY <1>6, <1>7 DEF TypeOK, Enter, workerVars, presenterVars
<1>8. ASSUME NEW s \in Surface, Skip(s) PROVE TypeOK'
  BY <1>8 DEF TypeOK, Skip, workerVars, presenterVars
<1>9. ASSUME NEW w \in Wall, UpdateWall(w) PROVE TypeOK'
  BY <1>6, <1>9 DEF TypeOK, UpdateWall, Updating, workerVars, presenterVars
<1>10. ASSUME NEW p \in Panel, ResizePanel(p) PROVE TypeOK'
  BY <1>6, <1>10 DEF TypeOK, ResizePanel, Updating, workerVars, presenterVars
<1>11. ASSUME NEW s \in Surface, NEW b \in Nat, NEW st \in Nat,
              desired[s] \in SurfaceSpec, Record(s, b, st)
       PROVE tracked' \in [Surface -> SurfaceState \cup {None}]
  BY <1>11 DEF TypeOK, Record, SurfaceState
<1>12. ASSUME NEW p \in Panel, UpdatePanel(p) PROVE TypeOK'
  <2>1. desired[p] # None
    BY <1>12 DEF UpdatePanel, Updating
  <2>2. commands' \in Seq(Command)
    BY <1>a, <1>12, <2>1, RequestTyped, QueueTyped, CommandTyped DEF UpdatePanel
  <2>3. jobs' \in Seq(Job)
    BY <1>a, <1>12, <2>1, RequestTyped, QueueTyped, JobTyped DEF UpdatePanel
  <2>5. asked' \in Nat
    BY <1>12, <1>b DEF UpdatePanel
  <2>4. tracked' \in [Surface -> SurfaceState \cup {None}]
    BY <1>11, <1>12, <2>1, RequestTyped DEF UpdatePanel
  <2> QED BY <1>12, <2>2, <2>3, <2>4, <2>5 DEF TypeOK, UpdatePanel, workerVars, presenterVars
<1>13. CASE NowAnswered
  <2> DEFINE s == wait.id
             spec == desired[s]
  <2>1. s \in Surface /\ spec \in SurfaceSpec /\ reply \in Frame
        /\ wait.backdrop \in Nat /\ wait.pictures \in Nat
    BY <1>13 DEF NowAnswered, TypeOK, Phased, Waiting
  <2>2. generation + 1 \in Nat
    <3>1. generation \in Nat
      BY DEF TypeOK
    <3> QED BY <3>1
  <2>3. registry' \in [Output -> Nat] /\ generation' \in Nat
    BY <1>13, <2>1, <2>2 DEF NowAnswered, TypeOK, SurfaceSpec
  <2>4. commands' \in Seq(Command)
    <3>1. commands' = commands \o WaitingForPixels(s, reply)
      BY <1>13 DEF NowAnswered
    <3>2. CASE s \in Wall
      <4>1. WaitingForPixels(s, reply) =
              <<[cmd |-> "PaintWallpaper", id |-> s, spec |-> spec,
                 published |-> generation + 1]>>
        BY <3>2 DEF WaitingForPixels
      <4> HIDE DEF s, spec
      <4> QED BY <1>a, <2>1, <2>2, <3>1, <3>2, <4>1, QueueTyped, CommandTyped
    <3>3. CASE s \notin Wall /\ tracked[s] = None
      <4>1. WaitingForPixels(s, reply) =
              <<[cmd |-> "Create", id |-> s, spec |-> spec, frame |-> reply]>>
        BY <3>3 DEF WaitingForPixels
      <4> HIDE DEF s, spec
      <4> QED BY <1>a, <2>1, <3>1, <3>3, <4>1, QueueTyped, CommandTyped
    <3>4. CASE s \notin Wall /\ tracked[s] # None
      <4>1. WaitingForPixels(s, reply) =
              <<[cmd |-> "Resize", id |-> s, spec |-> spec, frame |-> reply],
                [cmd |-> "Move", id |-> s, spec |-> spec]>>
        BY <3>4 DEF WaitingForPixels
      <4> HIDE DEF s, spec
      <4> QED BY <1>a, <2>1, <3>1, <3>4, <4>1, QueueTyped, CommandTyped
    <3> QED BY <3>2, <3>3, <3>4
  <2>5. tracked' \in [Surface -> SurfaceState \cup {None}]
    BY <1>11, <1>13, <2>1 DEF NowAnswered
  <2> QED BY <1>13, <2>3, <2>4, <2>5 DEF TypeOK, NowAnswered, workerVars, presenterVars
<1> QED BY <1>1, <1>2, <1>3, <1>4, <1>5, <1>7, <1>8, <1>9, <1>10, <1>12, <1>13 DEF Tick

(* So does every step of the worker.                                       *)
LEMMA WorkerTyped == TypeOK /\ Worker => TypeOK'
<1> SUFFICES ASSUME TypeOK, Worker PROVE TypeOK'
  OBVIOUS
<1>a. jobs \in Seq(Job) /\ commands \in Seq(Command)
  BY DEF TypeOK
<1>b. ASSUME jobs # <<>>
      PROVE  /\ Tail(jobs) \in Seq(Job)
             /\ Head(jobs).job = "Now" => Head(jobs).request \in Request
             /\ Head(jobs).job = "Repaint" => Head(jobs).request \in PanelRequest
  <2>1. Head(jobs) \in Job /\ Tail(jobs) \in Seq(Job)
    BY <1>a, <1>b, QueueTyped
  <2> QED BY <2>1 DEF Job
<1>1. CASE AcceptRepaint
  <2>1. Head(jobs).request \in PanelRequest
    BY <1>1, <1>b DEF AcceptRepaint
  <2> QED BY <1>1, <1>b, <2>1 DEF TypeOK, AcceptRepaint, tickVars, presenterVars
<1>2. CASE AcceptNow
  <2>1. drawing' \in Drawing
    BY <1>2, <1>b DEF AcceptNow, Take, Drawing
  <2> QED BY <1>2, <1>b, <2>1 DEF TypeOK, AcceptNow, tickVars, presenterVars
<1>3. CASE AcceptForget
  BY <1>3, <1>b DEF TypeOK, AcceptForget, tickVars, presenterVars
<1>4. CASE DrawNext
  <2>1. PICK p \in Due : /\ pending' = [pending EXCEPT ![p] = None]
                         /\ Take(pending[p], FALSE)
    BY <1>4 DEF DrawNext
  <2>2. drawing' \in Drawing
    <3>1. pending[p] \in PanelRequest
      BY DEF TypeOK, Due
    <3> QED BY <2>1, <3>1 DEF Take, Drawing
  <2> QED BY <1>4, <2>1, <2>2 DEF TypeOK, DrawNext, tickVars, presenterVars
<1>5. CASE Rasterize
  <2>1. Stamp(drawing.request.content) \in Nat
    BY DEF TypeOK, Stamp
  <2>2. drawing' \in Drawing
    BY <1>5, <2>1 DEF TypeOK, Rasterize, Drawing
  <2> QED BY <1>5, <2>2 DEF TypeOK, Rasterize, tickVars, presenterVars
<1>6. CASE Deliver
  <2> DEFINE frame == [request |-> drawing.request, picture |-> drawing.picture]
             id == drawing.request.id
  <2>1. drawing \in Drawing /\ drawing.picture # None
    BY <1>6 DEF Deliver, TypeOK
  <2>2. frame \in Frame
    BY <2>1 DEF Drawing, Frame, PanelRequest
  <2>3. ~drawing.now => id \in Panel
    BY <2>1 DEF Drawing, PanelRequest
  <2>4. commands' \in Seq(Command)
    <3>1. CASE drawing.now
      BY <1>a, <1>6, <3>1 DEF Deliver
    <3>2. CASE ~drawing.now
      <4>1. commands' = Append(commands, [cmd |-> "UpdatePicture", id |-> id, frame |-> frame])
        BY <1>6, <3>2 DEF Deliver
      <4> HIDE DEF id, frame
      <4> QED BY <1>a, <2>2, <2>3, <3>2, <4>1, QueueTyped, CommandTyped
    <3> QED BY <3>1, <3>2
  <2>5. resting' \subseteq Panel /\ reply' \in Frame \cup {None}
    BY <1>6, <2>2 DEF Deliver, TypeOK
  <2> QED BY <1>6, <2>4, <2>5 DEF TypeOK, Deliver, tickVars, presenterVars
<1> QED BY <1>1, <1>2, <1>3, <1>4, <1>5, <1>6 DEF Worker
(* So does every command applied, whether its display call fails or not.   *)
LEMMA PresenterTyped == TypeOK /\ Presenter => TypeOK'
<1> SUFFICES ASSUME TypeOK, Presenter PROVE TypeOK'
  OBVIOUS
<1> DEFINE c == Head(commands)
<1>a. ASSUME NEW kind, Received(kind)
      PROVE  /\ c \in Command /\ c.cmd = kind /\ commands' \in Seq(Command)
             /\ UNCHANGED <<tickVars, jobs, reply, workerVars>>
  <2>1. commands \in Seq(Command) /\ commands # <<>>
    BY <1>a DEF TypeOK, Received
  <2> QED BY <1>a, <2>1, QueueTyped DEF Received
<1>b. ASSUME NEW kind, Received(kind), window' \in [Panel -> Window \cup {None}],
             desktop' \in [Output -> Nat], presenting' \in BOOLEAN
      PROVE  TypeOK'
  BY <1>a, <1>b DEF TypeOK, tickVars, workerVars
<1>1. ASSUME NEW outcome \in Outcome, ApplyCreate(outcome) PROVE TypeOK'
  <2>1. c.id \in Panel /\ c.spec \in SurfaceSpec /\ c.frame \in Frame
    BY <1>1, <1>a DEF ApplyCreate, Command
  <2>2. [size |-> c.frame.request.size, place |-> c.spec.place, frame |-> c.frame] \in Window
    BY <2>1 DEF Window, SurfaceSpec, Frame, Request
  <2>3. window' \in [Panel -> Window \cup {None}]
    BY <1>1, <2>1, <2>2 DEF TypeOK, ApplyCreate
  <2> QED BY <1>1, <1>b, <2>3 DEF TypeOK, ApplyCreate
<1>2. ASSUME NEW outcome \in Outcome, ApplyMove(outcome) PROVE TypeOK'
  <2>1. c.id \in Panel /\ c.spec \in SurfaceSpec
    BY <1>2, <1>a DEF ApplyMove, Command
  <2>2. window' \in [Panel -> Window \cup {None}]
    BY <1>2, <2>1 DEF TypeOK, ApplyMove, Window, SurfaceSpec
  <2> QED BY <1>2, <1>b, <2>2 DEF TypeOK, ApplyMove
<1>3. ASSUME NEW outcome \in Outcome, ApplyResize(outcome) PROVE TypeOK'
  <2>0. Received("Resize")
    BY <1>3 DEF ApplyResize
  <2>1. c.id \in Panel /\ c.frame \in Frame
    BY <2>0, <1>a DEF Command
  <2>2. window' \in [Panel -> Window \cup {None}]
    <3>1. \/ window' = window
          \/ /\ window[c.id] # None
             /\ \/ window' = [window EXCEPT ![c.id].size = c.frame.request.size]
                \/ window' = [window EXCEPT ![c.id].size = c.frame.request.size,
                                            ![c.id].frame = c.frame]
      BY <1>3 DEF ApplyResize
    <3>2. c.frame.request.size \in Size
      BY <2>1 DEF Frame, Request
    <3>3. CASE window' = window
      BY <3>3 DEF TypeOK
    <3>4. CASE window[c.id] # None
      <4> DEFINE sized == [window[c.id] EXCEPT !.size = c.frame.request.size]
                 painted == [sized EXCEPT !.frame = c.frame]
      <4>1. window \in [Panel -> Window \cup {None}] /\ window[c.id] \in Window
        BY <2>1, <3>4 DEF TypeOK
      <4>2. sized \in Window /\ painted \in Window
        BY <2>1, <3>2, <4>1 DEF Window
      <4>3. \/ window' = window
            \/ window' = [window EXCEPT ![c.id] = sized]
            \/ window' = [window EXCEPT ![c.id] = painted]
        BY <2>1, <3>1, <4>1 DEF Window
      <4> HIDE DEF sized, painted
      <4> QED BY <4>1, <4>2, <4>3
    <3> QED BY <3>1, <3>3, <3>4
  <2> QED BY <1>3, <1>b, <2>2 DEF TypeOK, ApplyResize
<1>4. CASE ApplyDelete
  <2>1. window' \in [Panel -> Window \cup {None}]
    BY <1>4 DEF TypeOK, ApplyDelete
  <2> QED BY <1>4, <1>b, <2>1 DEF TypeOK, ApplyDelete
<1>5. ASSUME NEW outcome \in Outcome, ApplyUpdatePicture(outcome) PROVE TypeOK'
  <2>1. c.id \in Panel /\ c.frame \in Frame
    BY <1>5, <1>a DEF ApplyUpdatePicture, Command
  <2>2. window' \in [Panel -> Window \cup {None}]
    BY <1>5, <2>1 DEF TypeOK, ApplyUpdatePicture, Fits, Window
  <2> QED BY <1>5, <1>b, <2>2 DEF TypeOK, ApplyUpdatePicture
<1>6. ASSUME NEW outcome \in Outcome, ApplyPaintWallpaper(outcome) PROVE TypeOK'
  <2>1. c.spec.output \in Output /\ c.published \in Nat
    BY <1>6, <1>a DEF ApplyPaintWallpaper, Command, SurfaceSpec
  <2>2. desktop' \in [Output -> Nat]
    BY <1>6, <2>1 DEF TypeOK, ApplyPaintWallpaper
  <2> QED BY <1>6, <1>b, <2>2 DEF TypeOK, ApplyPaintWallpaper
<1>7. CASE ApplyShutdown
  BY <1>7, <1>b DEF TypeOK, ApplyShutdown
<1> QED BY <1>1, <1>2, <1>3, <1>4, <1>5, <1>6, <1>7 DEF Presenter

-----------------------------------------------------------------------------
(* The phases of a pass.  Only the tick thread moves them.                 *)

(* No pass mixes its phases, or leaves one with a Surface still awaited.   *)
LEMMA TickPhased == TypeOK /\ Phased /\ Tick => Phased'
<1> SUFFICES ASSUME TypeOK, Phased, Tick PROVE Phased'
  OBVIOUS
<1>1. ASSUME NEW layout \in Layouts, BeginPass(layout) PROVE Phased'
  BY <1>1 DEF Phased, BeginPass
<1>2. CASE StoreDrawn
  BY <1>2 DEF Phased, StoreDrawn
<1>3. CASE NextPhase
  BY <1>3 DEF Phased, NextPhase
<1>4. CASE Close
  BY <1>4 DEF Phased, Close
<1>5. ASSUME NEW s \in todo, wait = None, AskNow(s), desired[s] # None,
             UNCHANGED <<phase, todo, desired>>
      PROVE  Phased'
  BY <1>5 DEF Phased, AskNow
<1>6. ASSUME NEW s \in Surface, Exit(s) \/ Enter(s) \/ Skip(s) PROVE Phased'
  <2>1. CASE Exit(s) \/ Skip(s)
    BY <2>1 DEF Phased, Exit, Skip
  <2>2. CASE Enter(s)
    BY <1>5, <2>2 DEF Enter
  <2> QED BY <1>6, <2>1, <2>2
<1>7. ASSUME NEW w \in Wall, UpdateWall(w) PROVE Phased'
  <2>1. CASE WallChanged(w)
    BY <1>5, <1>7, <2>1 DEF UpdateWall, Updating
  <2>2. CASE ~WallChanged(w)
    BY <1>7, <2>2 DEF Phased, UpdateWall
  <2> QED BY <2>1, <2>2
<1>9. ASSUME NEW p \in Panel, ResizePanel(p) \/ UpdatePanel(p) PROVE Phased'
  <2>1. CASE ResizePanel(p)
    BY <1>5, <2>1 DEF ResizePanel, Updating
  <2>2. CASE UpdatePanel(p)
    BY <2>2 DEF Phased, UpdatePanel
  <2> QED BY <1>9, <2>1, <2>2
<1>8. CASE NowAnswered
  BY <1>8 DEF Phased, NowAnswered
<1> QED BY <1>1, <1>2, <1>3, <1>4, <1>6, <1>7, <1>8, <1>9 DEF Tick

(* The registry changes while walls are reconciled, and panels are then    *)
(* reconciled against what it says.                                        *)
LEMMA TickSampled == IInv /\ Tick => Sampled'
<1> SUFFICES ASSUME TypeOK, Phased, Sampled, Tick PROVE Sampled'
  BY DEF IInv
<1>a. tracked \in [Surface -> SurfaceState \cup {None}]
  BY DEF TypeOK
<1>1. ASSUME NEW layout \in Layouts, BeginPass(layout) PROVE Sampled'
  BY <1>1 DEF Sampled, BeginPass
<1>2. CASE StoreDrawn
  BY <1>2 DEF Sampled, StoreDrawn
<1>3. CASE NextPhase
  BY <1>3 DEF Sampled, NextPhase
<1>4. CASE Close
  BY <1>4 DEF Sampled, Close
<1>5. ASSUME NEW s \in Surface, Exit(s) PROVE Sampled'
  BY <1>5, <1>a, SurfacesAssumption DEF Sampled, Phased, Exit
<1>6. ASSUME NEW s \in Surface, Enter(s) PROVE Sampled'
  BY <1>6, SurfacesAssumption DEF Sampled, Phased, Enter, AskNow, Behind
<1>7. ASSUME NEW s \in Surface, Skip(s) PROVE Sampled'
  BY <1>7 DEF Sampled, Skip
<1>8. ASSUME NEW w \in Wall, UpdateWall(w) PROVE Sampled'
  BY <1>8, SurfacesAssumption DEF Sampled, Phased, UpdateWall, Updating
<1>9. ASSUME NEW p \in Panel, ResizePanel(p) PROVE Sampled'
  BY <1>9, SurfacesAssumption DEF Sampled, Phased, ResizePanel, Updating, AskNow, Behind
<1>10. ASSUME NEW p \in Panel, UpdatePanel(p) PROVE Sampled'
  BY <1>10, <1>a, SurfacesAssumption DEF Sampled, Phased, UpdatePanel, Record, Behind
<1>11. CASE NowAnswered
  BY <1>11, <1>a, SurfacesAssumption DEF Sampled, Phased, NowAnswered, Record
<1> QED BY <1>1, <1>2, <1>3, <1>4, <1>5, <1>6, <1>7, <1>8, <1>9, <1>10, <1>11 DEF Tick

-----------------------------------------------------------------------------
(* The strengthened invariant is kept by every step of every thread.       *)
LEMMA Inductive == IInv /\ [Next]_vars => IInv'
<1> SUFFICES ASSUME IInv, [Next]_vars PROVE IInv'
  OBVIOUS
<1>a. ASSUME UNCHANGED tickVars PROVE Phased' /\ Sampled'
  BY <1>a DEF IInv, Phased, Sampled, tickVars
<1>1. CASE Tick
  BY <1>1, TickTyped, TickPhased, TickSampled DEF IInv
<1>2. CASE Worker
  <2>1. UNCHANGED tickVars
    BY <1>2 DEF Worker, AcceptRepaint, AcceptNow, AcceptForget, DrawNext, Rasterize, Deliver
  <2> QED BY <1>2, <1>a, <2>1, WorkerTyped DEF IInv
<1>3. ASSUME NEW p \in Panel, FloorElapses(p) PROVE IInv'
  <2>1. TypeOK'
    BY <1>3 DEF IInv, TypeOK, FloorElapses, tickVars, presenterVars
  <2> QED BY <1>3, <1>a, <2>1 DEF IInv, FloorElapses
<1>4. CASE Presenter
  <2>1. UNCHANGED tickVars
    BY <1>4 DEF Presenter, ApplyCreate, ApplyMove, ApplyResize, ApplyDelete,
                ApplyUpdatePicture, ApplyPaintWallpaper, ApplyShutdown, Received
  <2> QED BY <1>4, <1>a, <2>1, PresenterTyped DEF IInv
<1>5. CASE UNCHANGED vars
  <2>1. TypeOK'
    BY <1>5 DEF IInv, TypeOK, vars, tickVars, workerVars, presenterVars
  <2> QED BY <1>5, <1>a, <2>1 DEF IInv, vars
<1> QED BY <1>1, <1>2, <1>3, <1>4, <1>5 DEF Next, Stopped

(* Hence it always holds.                                                  *)
LEMMA Invariance == Spec => []IInv
<1>1. Init => IInv
  BY InitTyped DEF IInv, Init, Phased, Sampled
<1> QED BY <1>1, Inductive, PTL DEF Spec

(* Whatever panels, wallpapers and layouts there are, every variable keeps *)
(* its type: no step finds a queue or a slot holding what it cannot handle.*)
THEOREM TypesHold == Spec => []TypeOK
<1>1. IInv => TypeOK
  BY DEF IInv
<1> QED BY <1>1, Invariance, PTL

(* Because wallpapers reconcile before the panels that sample them, a pass *)
(* leaves every panel cropped, or about to be, from the wallpaper published*)
(* for its output (surface/mod.rs:300-311).                                *)
THEOREM SamplesCurrent == Spec => []SamplesCurrentWallpaper
<1>1. IInv => SamplesCurrentWallpaper
  BY DEF IInv, Phased, Sampled, SamplesCurrentWallpaper
<1> QED BY <1>1, Invariance, PTL

-----------------------------------------------------------------------------
(* Painting.                                                               *)
PaintFits(p) ==
  window'[p] # None /\ (window[p] = None \/ window[p].frame # window'[p].frame) =>
    window'[p].frame.request.size = window'[p].size

(* Nothing is painted into a window that is left alone.                    *)
LEMMA UntouchedFits ==
  ASSUME NEW p \in Panel, window'[p] = window[p]
  PROVE  PaintFits(p)
  BY DEF PaintFits

(* No single step paints a frame that does not fit.                        *)
LEMMA StepFits ==
  ASSUME TypeOK, [Next]_vars, NEW p \in Panel
  PROVE  PaintFits(p)
<1> DEFINE c == Head(commands)
<1>a. window \in [Panel -> Window \cup {None}]
  BY DEF TypeOK
<1>1. CASE UNCHANGED window
  BY <1>1, UntouchedFits
<1>2. ASSUME NEW outcome \in Outcome, ApplyCreate(outcome) PROVE PaintFits(p)
  BY <1>2, <1>a DEF ApplyCreate, PaintFits
<1>3. ASSUME NEW outcome \in Outcome, ApplyMove(outcome) PROVE PaintFits(p)
  BY <1>3, <1>a DEF ApplyMove, PaintFits, Window
<1>4. ASSUME NEW outcome \in Outcome, ApplyResize(outcome) PROVE PaintFits(p)
  <2>1. CASE p # c.id \/ window[c.id] = None \/ window' = window
    BY <1>4, <1>a, <2>1 DEF ApplyResize, PaintFits
  <2>2. CASE p = c.id /\ window[p] \in Window /\ window' # window
    <3>1. CASE outcome = "image fails"
      <4>1. window' = [window EXCEPT ![c.id].size = c.frame.request.size]
        BY <1>4, <2>2, <3>1 DEF ApplyResize
      <4>2. window'[p].frame = window[p].frame /\ window[p] # None
        BY <1>a, <2>2, <4>1, NoneAssumption DEF Window
      <4> QED BY <4>2 DEF PaintFits
    <3>2. CASE outcome # "image fails"
      <4>1. window' = [window EXCEPT ![c.id].size = c.frame.request.size,
                                     ![c.id].frame = c.frame]
        BY <1>4, <2>2, <3>2 DEF ApplyResize
      <4>2. window'[p] = [window[p] EXCEPT !.size = c.frame.request.size, !.frame = c.frame]
        BY <1>a, <2>2, <4>1
      <4>3. window'[p].frame = c.frame /\ window'[p].size = c.frame.request.size
        BY <2>2, <4>2 DEF Window
      <4> QED BY <4>3 DEF PaintFits
    <3> QED BY <3>1, <3>2
  <2> QED BY <1>a, <2>1, <2>2
<1>5. CASE ApplyDelete
  BY <1>5, <1>a DEF ApplyDelete, PaintFits
<1>6. ASSUME NEW outcome \in Outcome, ApplyUpdatePicture(outcome) PROVE PaintFits(p)
  <2>1. CASE p = c.id /\ Fits(c) /\ window[p] \in Window
    BY <1>6, <1>a, <2>1 DEF ApplyUpdatePicture, Fits, PaintFits, Window
  <2>2. CASE p # c.id \/ ~Fits(c)
    BY <1>6, <1>a, <2>2 DEF ApplyUpdatePicture, PaintFits
  <2> QED BY <1>a, <2>1, <2>2 DEF Fits
<1>7. CASE Tick \/ Worker \/ (\E q \in Panel : FloorElapses(q))
  <2>1. UNCHANGED window
    BY <1>7 DEF Tick, BeginPass, StoreDrawn, NextPhase, Close, Exit, Enter, Skip, UpdateWall,
         ResizePanel, UpdatePanel, NowAnswered, Worker, AcceptRepaint, AcceptNow,
         AcceptForget, DrawNext, Rasterize, Deliver, FloorElapses, presenterVars
  <2> QED BY <2>1, UntouchedFits
<1>8. ASSUME NEW outcome \in Outcome, ApplyPaintWallpaper(outcome) PROVE PaintFits(p)
  BY <1>8, UntouchedFits DEF ApplyPaintWallpaper
<1>9. CASE ApplyShutdown \/ UNCHANGED vars
  BY <1>9, UntouchedFits DEF ApplyShutdown, vars, presenterVars
<1> QED
  BY <1>2, <1>3, <1>4, <1>5, <1>6, <1>7, <1>8, <1>9 DEF Next, Presenter, Stopped

(* Whichever calls on the display fail, no step paints a frame of another  *)
(* size into a window (presentation/mod.rs:155-161).                       *)
THEOREM NothingGarbled == Spec => PaintsFit
<1>1. TypeOK /\ [Next]_vars => [\A p \in Panel : PaintFits(p)]_vars
  BY StepFits
<1>2. [][\A p \in Panel : PaintFits(p)]_vars => PaintsFit
  BY PTL DEF PaintsFit, PaintFits
<1> QED BY <1>1, <1>2, TypesHold, PTL DEF Spec

-----------------------------------------------------------------------------
(* The wallpaper is there before what was cropped from it.  Commands have  *)
(* two senders, so the invariant is about places in their queue: whatever  *)
(* was cropped from a generation, wherever it now is, comes behind the     *)
(* command that paints that generation, or a later one, on the output.     *)

(* The commands that paint a wallpaper, and those that carry a frame.      *)
Painting(i) == commands[i].cmd = "PaintWallpaper"
Framed == {"Create", "Resize", "UpdatePicture"}

(* When command i is applied, the output shows generation g, or one        *)
(* published later.                                                        *)
Shown(o, g, i) ==
  \/ g <= desktop[o]
  \/ \E j \in DOMAIN commands :
       j < i /\ Painting(j) /\ commands[j].spec.output = o /\ g <= commands[j].published
Backed(r, i) == r.crop # None => Shown(r.crop.output, r.backdrop, i)

(* The requests of a queue of jobs, and all that no command carries yet.   *)
Requested(q) == {q[i].request : i \in {k \in DOMAIN q : q[k].job # "Forget"}}
Undelivered ==
  Requested(jobs)
  \cup {pending[p] : p \in {q \in Panel : pending[q] # None}}
  \cup (IF drawing # None THEN {drawing.request} ELSE {})
  \cup (IF reply # None THEN {reply.request} ELSE {})

(* Wallpapers travel in the order of their generations.                    *)
InOrder ==
  /\ \A o \in Output : desktop[o] <= generation
  /\ \A i \in DOMAIN commands : Painting(i) =>
       /\ desktop[commands[i].spec.output] <= commands[i].published
       /\ commands[i].published <= generation
  /\ \A i, j \in DOMAIN commands : i < j /\ Painting(i) /\ Painting(j) =>
       commands[i].published <= commands[j].published

(* What is published is on its way, ahead of all that is cropped from it.  *)
AllBacked ==
  /\ \A o \in Output : Shown(o, registry[o], Len(commands) + 1)
  /\ \A r \in Undelivered : Backed(r, Len(commands) + 1)
  /\ \A i \in DOMAIN commands :
       commands[i].cmd \in Framed => Backed(commands[i].frame.request, i)
  /\ \A p \in Panel : window[p] # None => Backed(window[p].frame.request, 1)

WInv == InOrder /\ AllBacked

(* A backed request is of an output, and of a generation.                  *)
LEMMA CropTyped ==
  ASSUME NEW r \in Request, r.crop # None
  PROVE  r.crop.output \in Output /\ r.backdrop \in Nat
  BY DEF Request

(* The places in a queue that is added to, and in one that is taken from.  *)
LEMMA Places ==
  ASSUME NEW T, NEW q \in Seq(T)
  PROVE  /\ Len(q) \in Nat /\ DOMAIN q = 1..Len(q) /\ \A j \in 1..Len(q) : q[j] \in T
         /\ \A t \in Seq(T) :
              /\ Len(q \o t) = Len(q) + Len(t) /\ Len(t) \in Nat
              /\ DOMAIN (q \o t) = 1..(Len(q) + Len(t))
              /\ \A j \in 1..Len(q) : (q \o t)[j] = q[j]
              /\ \A j \in 1..Len(t) : (q \o t)[Len(q) + j] = t[j]
         /\ q # <<>> =>
              /\ Len(q) >= 1 /\ Head(q) = q[1]
              /\ Len(Tail(q)) = Len(q) - 1 /\ DOMAIN Tail(q) = 1..(Len(q) - 1)
              /\ \A j \in 1..(Len(q) - 1) : Tail(q)[j] = q[j + 1]
<1>1. Len(q) \in Nat /\ DOMAIN q = 1..Len(q) /\ \A j \in 1..Len(q) : q[j] \in T
  OBVIOUS
<1>2. ASSUME NEW t \in Seq(T)
      PROVE  /\ Len(q \o t) = Len(q) + Len(t) /\ Len(t) \in Nat
             /\ DOMAIN (q \o t) = 1..(Len(q) + Len(t))
             /\ \A j \in 1..Len(q) : (q \o t)[j] = q[j]
             /\ \A j \in 1..Len(t) : (q \o t)[Len(q) + j] = t[j]
  OBVIOUS
<1>3. q # <<>> => Len(q) >= 1 /\ Head(q) = q[1]
  OBVIOUS
<1>4. q # <<>> => /\ Len(Tail(q)) = Len(q) - 1 /\ DOMAIN Tail(q) = 1..(Len(q) - 1)
                  /\ \A j \in 1..(Len(q) - 1) : Tail(q)[j] = q[j + 1]
  OBVIOUS
<1> QED BY <1>1, <1>2, <1>3, <1>4

(* Sending a command takes nothing away.                                   *)
LEMMA SentShown ==
  ASSUME TypeOK, NEW t \in Seq(Command), commands' = commands \o t, desktop' = desktop,
         NEW o, NEW g, NEW i \in 1..(Len(commands) + 1), Shown(o, g, i)
  PROVE  /\ \A n \in Nat : i <= n => Shown(o, g, n)'
         /\ Shown(o, g, Len(commands) + 1)'
<1>1. /\ commands \in Seq(Command) /\ Len(commands) \in Nat /\ Len(t) \in Nat
      /\ Len(commands') = Len(commands) + Len(t)
      /\ DOMAIN commands = 1..Len(commands) /\ DOMAIN commands' = 1..Len(commands')
      /\ \A j \in 1..Len(commands) : commands'[j] = commands[j]
  <2>1. commands \in Seq(Command)
    BY DEF TypeOK
  <2> QED BY <2>1, Places
<1>2. CASE g <= desktop[o]
  BY <1>2 DEF Shown
<1>3. ASSUME NEW j \in DOMAIN commands, j < i, Painting(j), commands[j].spec.output = o,
             g <= commands[j].published
      PROVE  /\ \A n \in Nat : i <= n => Shown(o, g, n)'
             /\ Shown(o, g, Len(commands) + 1)'
  <2>1. /\ j \in DOMAIN commands' /\ j < Len(commands') + 1
        /\ commands'[j].cmd = "PaintWallpaper"
        /\ commands'[j].spec.output = o /\ g <= commands'[j].published
    BY <1>1, <1>3 DEF Painting
  <2>2. \A n \in Nat : i <= n => j < n
    BY <1>1, <1>3
  <2> QED BY <2>1, <2>2 DEF Shown, Painting
<1> QED BY <1>2, <1>3 DEF Shown

(* A wallpaper that is applied is what the desktop shows.                  *)
Paints ==
  desktop' = IF Painting(1)
               THEN [desktop EXCEPT ![commands[1].spec.output] = commands[1].published]
               ELSE desktop

(* What a queued command will find painted it finds one place nearer.      *)
LEMMA AppliedShown ==
  ASSUME TypeOK, InOrder, commands # <<>>, commands' = Tail(commands), Paints,
         NEW o \in Output, NEW g \in Nat, NEW i \in 2..(Len(commands) + 1), Shown(o, g, i)
  PROVE  Shown(o, g, i - 1)'
<1>1. /\ commands \in Seq(Command) /\ Len(commands) \in Nat \ {0} /\ DOMAIN commands = 1..Len(commands)
      /\ Len(commands') = Len(commands) - 1 /\ DOMAIN commands' = 1..(Len(commands) - 1)
      /\ \A j \in 1..(Len(commands) - 1) : commands'[j] = commands[j + 1]
  <2>1. commands \in Seq(Command)
    BY DEF TypeOK
  <2> QED BY <2>1, Places
<1>2. commands[1] \in Command
  BY <1>1
<1>3. Painting(1) => /\ commands[1].spec.output \in Output
                     /\ commands[1].published \in Nat
                     /\ desktop[commands[1].spec.output] <= commands[1].published
  BY <1>1, <1>2 DEF Painting, Command, SurfaceSpec, InOrder
<1>4. desktop \in [Output -> Nat]
  BY DEF TypeOK
<1>5. desktop[o] \in Nat /\ desktop'[o] \in Nat /\ desktop[o] <= desktop'[o]
  BY <1>3, <1>4 DEF Paints
<1>6. CASE g <= desktop[o]
  BY <1>5, <1>6 DEF Shown
<1>7. ASSUME NEW j \in DOMAIN commands, j < i, Painting(j), commands[j].spec.output = o,
             g <= commands[j].published
      PROVE  Shown(o, g, i - 1)'
  <2>1. CASE j = 1
    <3>1. desktop'[o] = commands[1].published
      BY <1>4, <1>7, <2>1 DEF Paints
    <3> QED BY <1>7, <2>1, <3>1 DEF Shown
  <2>2. CASE j # 1
    <3>1. j - 1 \in DOMAIN commands' /\ commands'[j - 1] = commands[j] /\ j - 1 < i - 1
      BY <1>1, <1>7, <2>2
    <3> QED BY <1>7, <3>1 DEF Shown, Painting
  <2> QED BY <2>1, <2>2
<1> QED BY <1>6, <1>7 DEF Shown

(* The requests of the queue to the worker, as it grows and shrinks.       *)
LEMMA JobsRequested ==
  ASSUME NEW q \in Seq(Job)
  PROVE  /\ \A e \in Job : Requested(Append(q, e)) \subseteq
              Requested(q) \cup (IF e.job = "Forget" THEN {} ELSE {e.request})
         /\ q # <<>> => Requested(Tail(q)) \subseteq Requested(q)
         /\ q # <<>> /\ Head(q).job # "Forget" => Head(q).request \in Requested(q)
<1>1. ASSUME NEW e \in Job
      PROVE  Requested(Append(q, e)) \subseteq
               Requested(q) \cup (IF e.job = "Forget" THEN {} ELSE {e.request})
  <2>1. /\ DOMAIN Append(q, e) = 1..(Len(q) + 1) /\ DOMAIN q = 1..Len(q) /\ Len(q) \in Nat
        /\ Append(q, e)[Len(q) + 1] = e
        /\ \A i \in 1..Len(q) : Append(q, e)[i] = q[i]
    BY AppendProperties
  <2>2. ASSUME NEW i \in 1..(Len(q) + 1), Append(q, e)[i].job # "Forget"
        PROVE  Append(q, e)[i].request \in
                 Requested(q) \cup (IF e.job = "Forget" THEN {} ELSE {e.request})
    <3>1. CASE i = Len(q) + 1
      BY <2>1, <2>2, <3>1
    <3>2. CASE i # Len(q) + 1
      <4>1. i \in DOMAIN q /\ Append(q, e)[i] = q[i]
        BY <2>1, <3>2
      <4> QED BY <2>2, <4>1 DEF Requested
    <3> QED BY <3>1, <3>2
  <2> QED BY <2>1, <2>2 DEF Requested
<1>2. ASSUME q # <<>>
      PROVE  /\ Requested(Tail(q)) \subseteq Requested(q)
             /\ Head(q).job # "Forget" => Head(q).request \in Requested(q)
  <2>1. /\ Len(q) \in Nat /\ DOMAIN q = 1..Len(q) /\ Len(q) >= 1 /\ Head(q) = q[1]
        /\ DOMAIN Tail(q) = 1..(Len(q) - 1)
        /\ \A i \in 1..(Len(q) - 1) : Tail(q)[i] = q[i + 1]
    BY <1>2, Places
  <2>2. ASSUME NEW i \in DOMAIN Tail(q), Tail(q)[i].job # "Forget"
        PROVE  Tail(q)[i].request \in Requested(q)
    <3>1. i + 1 \in DOMAIN q /\ Tail(q)[i] = q[i + 1]
      BY <2>1
    <3> QED BY <2>2, <3>1 DEF Requested
  <2>3. 1 \in DOMAIN q
    BY <2>1
  <2>4. Requested(Tail(q)) \subseteq Requested(q)
    BY <2>2 DEF Requested
  <2> QED BY <2>1, <2>3, <2>4 DEF Requested
<1> QED BY <1>1, <1>2

(* What is asked for is cropped from what is published.                    *)
LEMMA AskedBacked ==
  ASSUME TypeOK, WInv, NEW s \in Surface, desired[s] # None
  PROVE  Backed(RequestFor(s, desired[s]), Len(commands) + 1)
<1> DEFINE r == RequestFor(s, desired[s])
<1>1. desired[s] \in SurfaceSpec
  BY RequestTyped
<1>2. CASE Behind(s, desired[s]) = 0
  BY <1>2 DEF RequestFor, Backed
<1>3. CASE Behind(s, desired[s]) # 0
  <2>1. /\ r.crop = [output |-> desired[s].output, place |-> desired[s].place]
        /\ r.backdrop = registry[desired[s].output] /\ desired[s].output \in Output
    BY <1>1, <1>3 DEF RequestFor, Behind, SurfaceSpec
  <2>2. Shown(desired[s].output, registry[desired[s].output], Len(commands) + 1)
    BY <2>1 DEF WInv, AllBacked
  <2>3. r.crop.output = desired[s].output
    BY <2>1
  <2> HIDE DEF r
  <2>4. Backed(r, Len(commands) + 1)
    BY <2>1, <2>2, <2>3 DEF Backed
  <2> QED BY <2>4 DEF r
<1> QED BY <1>2, <1>3

(* A step that publishes nothing and sends only frames it was asked for.   *)
LEMMA SendStands ==
  ASSUME TypeOK, WInv, NEW t \in Seq(Command), commands' = commands \o t,
         UNCHANGED <<desktop, window, generation>>,
         \A o \in Output : registry'[o] \in {0, registry[o]},
         \A k \in DOMAIN t : /\ t[k].cmd # "PaintWallpaper"
                             /\ t[k].cmd \in Framed => t[k].frame.request \in Undelivered,
         \A r \in Undelivered' : Backed(r, Len(commands) + 1)
  PROVE  WInv'
<1>1. /\ Len(commands) \in Nat /\ Len(t) \in Nat /\ Len(commands') = Len(commands) + Len(t)
      /\ DOMAIN commands = 1..Len(commands) /\ DOMAIN t = 1..Len(t)
      /\ DOMAIN commands' = 1..(Len(commands) + Len(t))
      /\ \A j \in 1..Len(commands) : commands'[j] = commands[j]
      /\ \A j \in 1..Len(t) : commands'[Len(commands) + j] = t[j]
  <2>1. commands \in Seq(Command)
    BY DEF TypeOK
  <2> QED BY <2>1, Places
<1>2. ASSUME NEW j \in DOMAIN commands', j \notin DOMAIN commands
      PROVE  /\ commands'[j].cmd # "PaintWallpaper"
             /\ commands'[j].cmd \in Framed => commands'[j].frame.request \in Undelivered
             /\ j > Len(commands)
  <2>1. j - Len(commands) \in DOMAIN t /\ commands'[j] = t[j - Len(commands)] /\ j > Len(commands)
    BY <1>1, <1>2
  <2> QED BY <2>1
<1>3. ASSUME NEW o, NEW g, NEW i \in 1..(Len(commands) + 1), Shown(o, g, i)
      PROVE  /\ \A n \in Nat : i <= n => Shown(o, g, n)'
             /\ Shown(o, g, Len(commands) + 1)'
  BY <1>3, SentShown
<1>4. InOrder'
  <2>1. \A j \in DOMAIN commands' : Painting(j)' =>
          j \in DOMAIN commands /\ Painting(j) /\ commands'[j] = commands[j]
    BY <1>1, <1>2 DEF Painting
  <2> QED BY <2>1 DEF WInv, InOrder
<1>5. ASSUME NEW r, NEW i \in 1..(Len(commands) + 1), Backed(r, i)
      PROVE  /\ \A n \in Nat : i <= n => Backed(r, n)'
             /\ Backed(r, Len(commands) + 1)'
  BY <1>3, <1>5 DEF Backed
<1>6. \A o \in Output : Shown(o, registry[o], Len(commands) + 1)'
  <2> SUFFICES ASSUME NEW o \in Output PROVE Shown(o, registry[o], Len(commands) + 1)'
    OBVIOUS
  <2>1. CASE registry'[o] = 0
    <3>1. desktop'[o] \in Nat
      BY DEF TypeOK
    <3> QED BY <2>1, <3>1 DEF Shown
  <2>2. CASE registry'[o] = registry[o]
    <3>1. Shown(o, registry[o], Len(commands) + 1) /\ Len(commands) + 1 \in 1..(Len(commands) + 1)
      BY <1>1 DEF WInv, AllBacked
    <3>2. ASSUME NEW g, g = registry[o] PROVE Shown(o, g, Len(commands) + 1)'
      BY <1>3, <3>1, <3>2
    <3> QED BY <2>2, <3>2 DEF Shown
  <2> QED BY <2>1, <2>2
<1>7. \A r \in Undelivered' : Backed(r, Len(commands) + 1)'
  BY <1>1, <1>5
<1>8. \A i \in DOMAIN commands' :
        commands'[i].cmd \in Framed => Backed(commands[i].frame.request, i)'
  <2> SUFFICES ASSUME NEW i \in DOMAIN commands', commands'[i].cmd \in Framed,
                      NEW r, r = commands'[i].frame.request
               PROVE  Backed(r, i)'
    OBVIOUS
  <2>1. CASE i \in DOMAIN commands
    <3>1. commands'[i] = commands[i] /\ i \in 1..(Len(commands) + 1) /\ i \in Nat
      BY <1>1, <2>1
    <3>2. Backed(r, i)
      BY <2>1, <3>1 DEF WInv, AllBacked
    <3> QED BY <1>5, <3>1, <3>2
  <2>2. CASE i \notin DOMAIN commands
    <3>1. r \in Undelivered /\ i \in Nat /\ Len(commands) + 1 <= i
      BY <1>1, <1>2, <2>2
    <3>2. Backed(r, Len(commands) + 1) /\ Len(commands) + 1 \in 1..(Len(commands) + 1)
      BY <1>1, <3>1 DEF WInv, AllBacked
    <3> QED BY <1>5, <3>1, <3>2
  <2> QED BY <2>1, <2>2
<1>9. \A p \in Panel : window'[p] # None => Backed(window[p].frame.request, 1)'
  BY <1>1, <1>5 DEF WInv, AllBacked
<1> QED BY <1>4, <1>6, <1>7, <1>8, <1>9 DEF WInv, AllBacked

(* What is undelivered, sent and shown are requests.                       *)
LEMMA RequestsTyped ==
  ASSUME TypeOK
  PROVE  /\ Undelivered \subseteq Request
         /\ \A i \in DOMAIN commands :
              commands[i].cmd \in Framed => commands[i].frame.request \in Request
         /\ \A p \in Panel : window[p] # None => window[p].frame.request \in Request
<1>1. jobs \in Seq(Job) /\ commands \in Seq(Command)
  BY DEF TypeOK
<1>2. Requested(jobs) \subseteq Request
  <2>1. ASSUME NEW i \in DOMAIN jobs, jobs[i].job # "Forget" PROVE jobs[i].request \in Request
    <3>1. jobs[i] \in Job
      BY <1>1
    <3> QED BY <2>1, <3>1 DEF Job, PanelRequest
  <2> QED BY <2>1 DEF Requested
<1>3. {pending[p] : p \in {q \in Panel : pending[q] # None}} \subseteq Request
  BY DEF TypeOK, PanelRequest
<1>4. drawing # None => drawing.request \in Request
  BY DEF TypeOK, Drawing, PanelRequest
<1>5. reply # None => reply.request \in Request
  BY DEF TypeOK, Frame
<1>6. \A i \in DOMAIN commands :
        commands[i].cmd \in Framed => commands[i].frame.request \in Request
  <2> SUFFICES ASSUME NEW i \in DOMAIN commands, commands[i].cmd \in Framed
               PROVE  commands[i].frame.request \in Request
    OBVIOUS
  <2>1. commands[i] \in Command
    BY <1>1
  <2> QED BY <2>1 DEF Command, Framed, Frame
<1>7. \A p \in Panel : window[p] # None => window[p].frame.request \in Request
  BY DEF TypeOK, Window, Frame
<1> QED BY <1>2, <1>3, <1>4, <1>5, <1>6, <1>7 DEF Undelivered

(* A command applied: what its windows show afterwards was shown before or *)
(* came with it.                                                           *)
LEMMA AppliedStands ==
  ASSUME TypeOK, WInv, commands # <<>>, commands' = Tail(commands), Paints,
         UNCHANGED <<tickVars, jobs, reply, workerVars>>,
         \A p \in Panel : window'[p] # None =>
           \/ window[p] # None /\ window'[p].frame = window[p].frame
           \/ commands[1].cmd \in Framed /\ window'[p].frame = commands[1].frame
  PROVE  WInv'
<1>1. /\ Len(commands) \in Nat /\ Len(commands) >= 1 /\ DOMAIN commands = 1..Len(commands)
      /\ Len(commands') = Len(commands) - 1 /\ DOMAIN commands' = 1..(Len(commands) - 1)
      /\ \A j \in 1..(Len(commands) - 1) : commands'[j] = commands[j + 1]
  <2>1. commands \in Seq(Command)
    BY DEF TypeOK
  <2> QED BY <2>1, Places
<1>2. commands[1] \in Command
  <2>1. commands \in Seq(Command)
    BY DEF TypeOK
  <2> QED BY <1>1, <2>1
<1>3. InOrder
  BY DEF WInv
<1>4. ASSUME NEW o \in Output, NEW g \in Nat, NEW i \in 2..(Len(commands) + 1), Shown(o, g, i)
      PROVE  Shown(o, g, i - 1)'
  BY <1>1, <1>3, <1>4, AppliedShown
<1>5. ASSUME NEW r \in Request, NEW i \in 2..(Len(commands) + 1), Backed(r, i)
      PROVE  Backed(r, i - 1)'
  BY <1>4, <1>5, CropTyped DEF Backed
<1>6. ASSUME NEW r \in Request, Backed(r, 1) PROVE Backed(r, 1)'
  <2>1. \A j \in DOMAIN commands : j < 1 => j < 2
    BY <1>1
  <2>2. Backed(r, 2)
    BY <1>6, <2>1 DEF Backed, Shown
  <2>3. Backed(r, 2 - 1)' /\ 2 - 1 = 1
    BY <1>1, <1>5, <2>2
  <2> QED BY <2>3
<1>7. desktop \in [Output -> Nat] /\ desktop' \in [Output -> Nat]
      /\ (Painting(1) => /\ commands[1].spec.output \in Output /\ commands[1].published \in Nat)
  BY <1>2 DEF TypeOK, Paints, Painting, Command, SurfaceSpec
<1>8. InOrder'
  <2>1. Painting(1) => /\ commands[1].published <= generation
                       /\ \A i \in DOMAIN commands : 1 < i /\ Painting(i) =>
                            commands[1].published <= commands[i].published
    BY <1>1, <1>3 DEF InOrder
  <2>2. generation' = generation
    BY DEF tickVars
  <2>3. \A o \in Output : desktop'[o] <= generation'
    <3> SUFFICES ASSUME NEW o \in Output PROVE desktop'[o] <= generation
      BY <2>2
    <3>1. desktop[o] <= generation
      BY <1>3 DEF InOrder
    <3>2. \/ desktop'[o] = desktop[o]
          \/ Painting(1) /\ desktop'[o] = commands[1].published
      <4>1. CASE Painting(1)
        BY <1>7, <4>1 DEF Paints, Painting
      <4>2. CASE ~Painting(1)
        BY <4>2 DEF Paints, Painting
      <4> QED BY <4>1, <4>2
    <3> QED BY <2>1, <3>1, <3>2
  <2>4. \A i \in DOMAIN commands' : i + 1 \in DOMAIN commands /\ 1 < i + 1 /\ commands'[i] = commands[i + 1]
    BY <1>1
  <2>5. ASSUME NEW i \in DOMAIN commands', Painting(i)'
        PROVE  /\ desktop'[commands'[i].spec.output] <= commands'[i].published
               /\ commands'[i].published <= generation'
    <3>1. Painting(i + 1) /\ i + 1 \in DOMAIN commands /\ 1 < i + 1 /\ commands'[i] = commands[i + 1]
      BY <2>4, <2>5 DEF Painting
    <3>2. commands[i + 1].published <= generation
          /\ desktop[commands[i + 1].spec.output] <= commands[i + 1].published
      BY <1>3, <3>1 DEF InOrder
    <3>3. commands[i + 1].spec.output \in Output
      <4>1. commands \in Seq(Command)
        BY DEF TypeOK
      <4>2. commands[i + 1] \in Command
        BY <3>1, <4>1
      <4> QED BY <3>1, <4>2 DEF Painting, Command, SurfaceSpec
    <3>4. desktop'[commands[i + 1].spec.output] <= commands[i + 1].published
      BY <1>7, <2>1, <3>1, <3>2, <3>3 DEF Paints
    <3> QED BY <2>2, <3>1, <3>2, <3>4
  <2>6. \A i, j \in DOMAIN commands' : i < j /\ Painting(i)' /\ Painting(j)' =>
          commands'[i].published <= commands'[j].published
    BY <1>1, <1>3, <2>4 DEF InOrder, Painting
  <2> QED BY <2>3, <2>5, <2>6 DEF InOrder
<1>9. \A o \in Output : Shown(o, registry[o], Len(commands) + 1)'
  <2> SUFFICES ASSUME NEW o \in Output PROVE Shown(o, registry[o], Len(commands) + 1)'
    OBVIOUS
  <2>1. registry' = registry /\ registry[o] \in Nat /\ Len(commands') + 1 = Len(commands)
    <3>1. registry' = registry
      BY DEF tickVars
    <3>2. registry[o] \in Nat
      BY DEF TypeOK
    <3> QED BY <1>1, <3>1, <3>2
  <2>2. Shown(o, registry[o], Len(commands) + 1)
    BY DEF WInv, AllBacked
  <2>3. ASSUME NEW g, g = registry[o], NEW n, n = Len(commands) PROVE Shown(o, g, n)'
    <3>1. Shown(o, g, (n + 1) - 1)'
      BY <1>1, <1>4, <2>1, <2>2, <2>3
    <3>2. (n + 1) - 1 = n
      BY <1>1, <2>3
    <3> QED BY <3>1, <3>2
  <2>4. \A g, n : g = registry[o] /\ n = Len(commands) => Shown(o, g, n)'
    BY <2>3
  <2> QED BY <2>1, <2>4 DEF Shown, Painting
<1>10. \A r \in Undelivered' : Backed(r, Len(commands) + 1)'
  <2> SUFFICES ASSUME NEW r \in Undelivered' PROVE Backed(r, Len(commands) + 1)'
    OBVIOUS
  <2>1. Undelivered' = Undelivered
    BY DEF Undelivered, workerVars
  <2>2. r \in Request /\ Backed(r, Len(commands) + 1)
    BY <2>1, RequestsTyped DEF WInv, AllBacked
  <2>3. ASSUME NEW n, n = Len(commands) PROVE Backed(r, n)'
    <3>1. Backed(r, (n + 1) - 1)'
      BY <1>1, <1>5, <2>2, <2>3
    <3>2. (n + 1) - 1 = n
      BY <1>1, <2>3
    <3> QED BY <3>1, <3>2
  <2>4. Len(commands') + 1 = Len(commands)
    BY <1>1
  <2>5. \A n : n = Len(commands) => Backed(r, n)'
    BY <2>3
  <2> HIDE DEF Undelivered
  <2> QED BY <2>4, <2>5 DEF Backed, Shown
<1>11. \A i \in DOMAIN commands' :
         commands'[i].cmd \in Framed => Backed(commands[i].frame.request, i)'
  <2> SUFFICES ASSUME NEW i \in DOMAIN commands', commands'[i].cmd \in Framed,
                      NEW r, r = commands'[i].frame.request
               PROVE  Backed(r, i)'
    OBVIOUS
  <2>1. i + 1 \in DOMAIN commands /\ commands'[i] = commands[i + 1] /\ i + 1 \in 2..(Len(commands) + 1)
        /\ (i + 1) - 1 = i
    BY <1>1
  <2>2. r \in Request /\ Backed(r, i + 1)
    BY <2>1, RequestsTyped DEF WInv, AllBacked
  <2> QED BY <1>5, <2>1, <2>2
<1>12. \A p \in Panel : window'[p] # None => Backed(window[p].frame.request, 1)'
  <2> SUFFICES ASSUME NEW p \in Panel, window'[p] # None, NEW r, r = window'[p].frame.request
               PROVE  Backed(r, 1)'
    OBVIOUS
  <2>1. r \in Request /\ Backed(r, 1)
    BY <1>1, RequestsTyped DEF WInv, AllBacked
  <2> QED BY <1>1, <1>6, <2>1
<1> QED BY <1>8, <1>9, <1>10, <1>11, <1>12 DEF WInv, AllBacked

(* A job for surface s goes to the worker.                                 *)
Asks(s) ==
  /\ desired[s] # None
  /\ \/ jobs' = Append(jobs, [job |-> "Now", request |-> RequestFor(s, desired[s])])
     \/ s \in Panel /\ jobs' = Append(jobs, [job |-> "Repaint", request |-> RequestFor(s, desired[s])])

(* The tick thread asks for frames, and what it asks for is backed.        *)
LEMMA TickAsksBacked ==
  ASSUME TypeOK, WInv, UNCHANGED <<pending, drawing>>, reply' \in {reply, None},
         \/ jobs' = jobs
         \/ \E s \in Surface : Asks(s) \/ jobs' = Append(jobs, [job |-> "Forget", id |-> s])
  PROVE  \A r \in Undelivered' : Backed(r, Len(commands) + 1)
<1> SUFFICES ASSUME NEW r \in Undelivered' PROVE Backed(r, Len(commands) + 1)
  OBVIOUS
<1>1. CASE r \in Undelivered
  BY <1>1 DEF WInv, AllBacked
<1>2. CASE r \notin Undelivered
  <2>1. r \in Requested(jobs') /\ r \notin Requested(jobs)
    BY <1>2 DEF Undelivered
  <2>2. PICK s \in Surface : Asks(s) \/ jobs' = Append(jobs, [job |-> "Forget", id |-> s])
    BY <2>1
  <2>3. jobs \in Seq(Job)
    BY DEF TypeOK
  <2>4. ASSUME NEW e \in Job, jobs' = Append(jobs, e) PROVE e.job # "Forget" /\ r = e.request
    BY <2>1, <2>3, <2>4, JobsRequested
  <2>5. Asks(s)
    <3>1. [job |-> "Forget", id |-> s] \in Job
      BY JobTyped
    <3> QED BY <2>2, <2>4, <3>1
  <2>6. r = RequestFor(s, desired[s])
    <3> DEFINE q == RequestFor(s, desired[s])
    <3>1. q \in Request /\ (s \in Panel => q \in PanelRequest)
      BY <2>5, RequestTyped DEF Asks
    <3>2. \/ jobs' = Append(jobs, [job |-> "Now", request |-> q])
          \/ s \in Panel /\ jobs' = Append(jobs, [job |-> "Repaint", request |-> q])
      BY <2>5 DEF Asks
    <3> HIDE DEF q
    <3>3. r = q
      BY <2>4, <3>1, <3>2, JobTyped
    <3> QED BY <3>3 DEF q
  <2> QED BY <2>5, <2>6, AskedBacked DEF Asks
<1> QED BY <1>1, <1>2

(* A wallpaper is published and sent in one step.                          *)
LEMMA PublishStands ==
  ASSUME TypeOK, Phased, WInv, NowAnswered, wait.id \in Wall
  PROVE  WInv'
<1> DEFINE spec == desired[wait.id]
           paint == [cmd |-> "PaintWallpaper", id |-> wait.id, spec |-> spec,
                     published |-> generation + 1]
<1>1. /\ commands' = commands \o <<paint>> /\ generation' = generation + 1
      /\ registry' = [registry EXCEPT ![spec.output] = generation + 1]
      /\ UNCHANGED <<desktop, window, pending, drawing, jobs>> /\ reply' = None
  BY DEF NowAnswered, WaitingForPixels, workerVars, presenterVars
<1>2. generation \in Nat /\ registry \in [Output -> Nat] /\ desktop \in [Output -> Nat]
      /\ wait.id \in Surface /\ spec \in SurfaceSpec /\ commands \in Seq(Command)
  BY DEF TypeOK, Phased, NowAnswered, Waiting
<1>3. paint.cmd = "PaintWallpaper" /\ paint.published = generation + 1
      /\ paint.spec.output = spec.output /\ spec.output \in Output
  BY <1>2 DEF SurfaceSpec
<1>4. <<paint>> \in Seq(Command)
  <2>1. paint \in Command
    <3>1. generation + 1 \in Nat
      BY <1>2
    <3> QED BY <1>2, <3>1, CommandTyped
  <2> HIDE DEF paint
  <2> QED BY <2>1
<1> HIDE DEF spec, paint
<1>5. /\ Len(commands) \in Nat /\ Len(commands') = Len(commands) + 1
      /\ DOMAIN commands = 1..Len(commands) /\ DOMAIN commands' = 1..(Len(commands) + 1)
      /\ \A j \in 1..Len(commands) : commands'[j] = commands[j]
      /\ commands'[Len(commands) + 1] = paint
  <2>1. Len(<<paint>>) = 1 /\ <<paint>>[1] = paint
    OBVIOUS
  <2> QED BY <1>1, <1>2, <1>4, <2>1, Places
<1>6. ASSUME NEW o, NEW g, NEW i \in 1..(Len(commands) + 1), Shown(o, g, i)
      PROVE  /\ \A n \in Nat : i <= n => Shown(o, g, n)'
             /\ Shown(o, g, Len(commands) + 1)'
  BY <1>1, <1>4, <1>6, SentShown
<1>7. ASSUME NEW r, NEW i \in 1..(Len(commands) + 1), Backed(r, i)
      PROVE  /\ \A n \in Nat : i <= n => Backed(r, n)'
             /\ Backed(r, Len(commands) + 1)'
  BY <1>6, <1>7 DEF Backed
<1>8. InOrder'
  <2>1. \A o \in Output : desktop'[o] <= generation'
    BY <1>1, <1>2 DEF WInv, InOrder
  <2>2. ASSUME NEW i \in DOMAIN commands', Painting(i)'
        PROVE  /\ desktop'[commands'[i].spec.output] <= commands'[i].published
               /\ commands'[i].published <= generation'
    <3>1. CASE i = Len(commands) + 1
      <4>1. desktop[spec.output] <= generation
        BY <1>3 DEF WInv, InOrder
      <4> QED BY <1>1, <1>2, <1>3, <1>5, <3>1, <4>1
    <3>2. CASE i # Len(commands) + 1
      <4>1. i \in DOMAIN commands /\ commands'[i] = commands[i]
        BY <1>5, <3>2
      <4>2. Painting(i)
        BY <2>2, <4>1 DEF Painting
      <4>3. /\ desktop[commands[i].spec.output] <= commands[i].published
            /\ commands[i].published <= generation
        BY <4>1, <4>2 DEF WInv, InOrder
      <4>4. commands[i].published \in Nat
        <5>1. commands[i] \in Command
          BY <1>2, <4>1
        <5> QED BY <4>2, <5>1 DEF Painting, Command
      <4> QED BY <1>1, <1>2, <4>1, <4>3, <4>4
    <3> QED BY <3>1, <3>2
  <2>3. ASSUME NEW i \in DOMAIN commands', NEW j \in DOMAIN commands', i < j,
               Painting(i)', Painting(j)'
        PROVE  commands'[i].published <= commands'[j].published
    <3>1. i \in DOMAIN commands /\ commands'[i] = commands[i]
      BY <1>5, <2>3
    <3>2. Painting(i)
      BY <2>3, <3>1 DEF Painting
    <3>3. CASE j = Len(commands) + 1
      <4>1. commands[i].published <= generation /\ commands[i].published \in Nat
        <5>1. commands[i] \in Command
          BY <1>2, <3>1
        <5> QED BY <3>1, <3>2, <5>1 DEF Painting, Command, WInv, InOrder
      <4> QED BY <1>2, <1>3, <1>5, <3>1, <3>3, <4>1
    <3>4. CASE j # Len(commands) + 1
      <4>1. j \in DOMAIN commands /\ commands'[j] = commands[j]
        BY <1>5, <3>4
      <4>2. Painting(j)
        BY <2>3, <4>1 DEF Painting
      <4> QED BY <2>3, <3>1, <3>2, <4>1, <4>2 DEF WInv, InOrder
    <3> QED BY <3>3, <3>4
  <2> QED BY <2>1, <2>2, <2>3 DEF InOrder
<1>9. \A o \in Output : Shown(o, registry[o], Len(commands) + 1)'
  <2> SUFFICES ASSUME NEW o \in Output PROVE Shown(o, registry[o], Len(commands) + 1)'
    OBVIOUS
  <2>1. CASE o = spec.output
    <3>1. /\ Len(commands) + 1 \in DOMAIN commands' /\ Len(commands) + 1 < Len(commands') + 1
          /\ commands'[Len(commands) + 1].cmd = "PaintWallpaper"
          /\ commands'[Len(commands) + 1].spec.output = o
          /\ registry'[o] <= commands'[Len(commands) + 1].published
      BY <1>1, <1>2, <1>3, <1>5, <2>1
    <3> QED BY <3>1 DEF Shown, Painting
  <2>2. CASE o # spec.output
    <3>1. registry'[o] = registry[o]
      BY <1>1, <1>2, <2>2
    <3>2. Shown(o, registry[o], Len(commands) + 1) /\ Len(commands) + 1 \in 1..(Len(commands) + 1)
      BY <1>5 DEF WInv, AllBacked
    <3>3. ASSUME NEW g, g = registry[o] PROVE Shown(o, g, Len(commands) + 1)'
      BY <1>6, <3>2, <3>3
    <3> QED BY <3>1, <3>3 DEF Shown
  <2> QED BY <2>1, <2>2
<1>10. \A r \in Undelivered' : Backed(r, Len(commands) + 1)'
  <2>1. \A r \in Undelivered' : Backed(r, Len(commands) + 1)
    BY <1>1 DEF Undelivered, WInv, AllBacked
  <2> QED BY <1>5, <1>7, <2>1
<1>11. \A i \in DOMAIN commands' :
         commands'[i].cmd \in Framed => Backed(commands[i].frame.request, i)'
  <2> SUFFICES ASSUME NEW i \in DOMAIN commands', commands'[i].cmd \in Framed,
                      NEW r, r = commands'[i].frame.request
               PROVE  Backed(r, i)'
    OBVIOUS
  <2>1. i \in DOMAIN commands /\ commands'[i] = commands[i] /\ i \in Nat /\ i \in 1..(Len(commands) + 1)
    BY <1>3, <1>5 DEF Framed
  <2>2. Backed(r, i)
    BY <2>1 DEF WInv, AllBacked
  <2> QED BY <1>7, <2>1, <2>2
<1>12. \A p \in Panel : window'[p] # None => Backed(window[p].frame.request, 1)'
  BY <1>1, <1>5, <1>7 DEF WInv, AllBacked
<1> QED BY <1>8, <1>9, <1>10, <1>11, <1>12 DEF WInv, AllBacked

(* The commands that neither paint a wallpaper nor carry a frame.          *)
Plain == {e \in Command : e.cmd \notin Framed \cup {"PaintWallpaper"}}

(* Sending one of those keeps everything backed.                           *)
LEMMA PlainStands ==
  ASSUME TypeOK, WInv, commands' = commands \/ \E e \in Plain : commands' = Append(commands, e),
         UNCHANGED <<desktop, window, generation>>,
         \A o \in Output : registry'[o] \in {0, registry[o]},
         \A r \in Undelivered' : Backed(r, Len(commands) + 1)
  PROVE  WInv'
<1>1. commands \in Seq(Command)
  BY DEF TypeOK
<1>2. CASE commands' = commands
  <2>1. <<>> \in Seq(Command) /\ commands' = commands \o <<>> /\ DOMAIN <<>> = {}
    BY <1>1, <1>2
  <2> QED BY <2>1, SendStands
<1>3. ASSUME NEW e \in Plain, commands' = Append(commands, e) PROVE WInv'
  <2>1. <<e>> \in Seq(Command) /\ commands' = commands \o <<e>> /\ DOMAIN <<e>> = {1} /\ <<e>>[1] = e
    BY <1>1, <1>3 DEF Plain
  <2>2. e.cmd # "PaintWallpaper" /\ e.cmd \notin Framed
    BY DEF Plain
  <2>3. \A k \in DOMAIN <<e>> :
          /\ <<e>>[k].cmd # "PaintWallpaper"
          /\ <<e>>[k].cmd \in Framed => <<e>>[k].frame.request \in Undelivered
    BY <2>1, <2>2
  <2> QED BY <2>1, <2>3, SendStands
<1> QED BY <1>2, <1>3

(* A step of the tick thread asks for frames of what is published, sends   *)
(* what the worker drew for it, or publishes the wallpaper it sends.       *)
LEMMA TickBacked == TypeOK /\ Phased /\ WInv /\ Tick => WInv'
<1> SUFFICES ASSUME TypeOK, Phased, WInv, Tick PROVE WInv'
  OBVIOUS
<1>a. ASSUME TypeOK, WInv, commands' = commands \/ \E e \in Plain : commands' = Append(commands, e),
             UNCHANGED <<desktop, window, generation, pending, drawing, reply>>,
             \A o \in Output : registry'[o] \in {0, registry[o]},
             \/ jobs' = jobs
             \/ \E s \in Surface : Asks(s) \/ jobs' = Append(jobs, [job |-> "Forget", id |-> s])
      PROVE  WInv'
  BY <1>a, TickAsksBacked, PlainStands
<1>b. /\ [cmd |-> "Shutdown"] \in Plain
      /\ \A s \in Surface : [cmd |-> "Delete", id |-> s] \in Plain
      /\ \A p \in Panel, spec \in SurfaceSpec : [cmd |-> "Move", id |-> p, spec |-> spec] \in Plain
  BY CommandTyped DEF Plain, Framed
<1>1. CASE (\E layout \in Layouts : BeginPass(layout)) \/ StoreDrawn \/ Close
            \/ \E s \in Surface : Skip(s)
  <2>1. UNCHANGED <<commands, desktop, window, generation, pending, drawing, reply, registry, jobs>>
    BY <1>1 DEF BeginPass, StoreDrawn, Close, Skip, workerVars, presenterVars
  <2> QED BY <1>a, <2>1
<1>2. CASE NextPhase
  <2>1. /\ UNCHANGED <<desktop, window, generation, pending, drawing, reply, registry, jobs>>
        /\ commands' = commands \/ commands' = Append(commands, [cmd |-> "Shutdown"])
    BY <1>2 DEF NextPhase, workerVars, presenterVars
  <2> QED BY <1>a, <1>b, <2>1
<1>3. ASSUME NEW s \in Surface, Exit(s) PROVE WInv'
  <2>1. /\ UNCHANGED <<desktop, window, generation, pending, drawing, reply>>
        /\ commands' = Append(commands, [cmd |-> "Delete", id |-> s])
        /\ jobs' = Append(jobs, [job |-> "Forget", id |-> s])
    BY <1>3 DEF Exit, workerVars, presenterVars
  <2>2. registry \in [Output -> Nat]
    BY DEF TypeOK
  <2>3. \A o \in Output : registry'[o] \in {0, registry[o]}
    BY <1>3, <2>2 DEF Exit
  <2> QED BY <1>a, <1>b, <2>1, <2>3
<1>4. ASSUME NEW s \in Surface, Enter(s) PROVE WInv'
  <2>1. UNCHANGED <<commands, desktop, window, generation, pending, drawing, reply, registry>>
    BY <1>4 DEF Enter, workerVars, presenterVars
  <2>2. Asks(s)
    BY <1>4 DEF Enter, AskNow, Asks
  <2> QED BY <1>a, <2>1, <2>2
<1>5. ASSUME NEW w \in Wall, UpdateWall(w) PROVE WInv'
  <2>1. UNCHANGED <<commands, desktop, window, generation, pending, drawing, reply, registry>>
    BY <1>5 DEF UpdateWall, workerVars, presenterVars
  <2>2. jobs' = jobs \/ Asks(w)
    BY <1>5 DEF UpdateWall, Updating, AskNow, Asks
  <2> QED BY <1>a, <2>1, <2>2
<1>6. ASSUME NEW p \in Panel, ResizePanel(p) PROVE WInv'
  <2>1. UNCHANGED <<commands, desktop, window, generation, pending, drawing, reply, registry>>
    BY <1>6 DEF ResizePanel, workerVars, presenterVars
  <2>2. Asks(p)
    BY <1>6 DEF ResizePanel, Updating, AskNow, Asks
  <2> QED BY <1>a, <2>1, <2>2
<1>7. ASSUME NEW p \in Panel, UpdatePanel(p) PROVE WInv'
  <2>1. UNCHANGED <<desktop, window, generation, pending, drawing, reply, registry>>
    BY <1>7 DEF UpdatePanel, workerVars, presenterVars
  <2>2. jobs' = jobs \/ Asks(p)
    BY <1>7 DEF UpdatePanel, Updating, Asks
  <2>3. desktop' = desktop /\ desired[p] \in SurfaceSpec
    BY <1>7, RequestTyped DEF UpdatePanel, Updating, presenterVars
  <2>4. commands' = commands \/ commands' = Append(commands, [cmd |-> "Move", id |-> p, spec |-> desired[p]])
    BY <1>7 DEF UpdatePanel
  <2> QED BY <1>a, <1>b, <2>1, <2>2, <2>3, <2>4
<1>8. CASE NowAnswered /\ wait.id \in Wall
  BY <1>8, PublishStands
<1>9. CASE NowAnswered /\ wait.id \notin Wall
  <2> DEFINE t == WaitingForPixels(wait.id, reply)
             spec == desired[wait.id]
  <2>1. /\ commands' = commands \o t /\ reply' = None /\ reply # None
        /\ UNCHANGED <<desktop, window, generation, pending, drawing, jobs, registry>>
    BY <1>9 DEF NowAnswered, workerVars, presenterVars
  <2>2. wait.id \in Panel /\ spec \in SurfaceSpec /\ reply \in Frame
    BY <1>9 DEF NowAnswered, TypeOK, Phased, Waiting
  <2>3. reply.request \in Undelivered
    BY <2>1 DEF Undelivered
  <2>4. /\ t \in Seq(Command)
        /\ \A k \in DOMAIN t : t[k].cmd # "PaintWallpaper"
                               /\ (t[k].cmd \in Framed => t[k].frame.request \in Undelivered)
    <3> DEFINE first(c) == [cmd |-> c, id |-> wait.id, spec |-> spec, frame |-> reply]
               move == [cmd |-> "Move", id |-> wait.id, spec |-> spec]
    <3>1. \A c \in {"Create", "Resize"} :
            /\ first(c) \in Command /\ first(c).cmd # "PaintWallpaper"
            /\ first(c).frame.request \in Undelivered
      BY <2>2, <2>3, CommandTyped
    <3>2. move \in Command /\ move.cmd \notin Framed /\ move.cmd # "PaintWallpaper"
      BY <2>2, CommandTyped DEF Framed
    <3>3. t = <<first("Create")>> \/ t = <<first("Resize"), move>>
      BY <1>9 DEF WaitingForPixels
    <3> HIDE DEF first, move, t
    <3>a. ASSUME NEW e \in Command, t = <<e>>, e.cmd # "PaintWallpaper",
                 e.frame.request \in Undelivered
          PROVE  /\ t \in Seq(Command)
                 /\ \A k \in DOMAIN t : t[k].cmd # "PaintWallpaper"
                                        /\ (t[k].cmd \in Framed => t[k].frame.request \in Undelivered)
      BY <3>a
    <3>b. ASSUME NEW e \in Command, NEW f \in Command, t = <<e, f>>, e.cmd # "PaintWallpaper",
                 e.frame.request \in Undelivered, f.cmd \notin Framed, f.cmd # "PaintWallpaper"
          PROVE  /\ t \in Seq(Command)
                 /\ \A k \in DOMAIN t : t[k].cmd # "PaintWallpaper"
                                        /\ (t[k].cmd \in Framed => t[k].frame.request \in Undelivered)
      BY <3>b
    <3>4. CASE t = <<first("Create")>>
      BY <3>1, <3>4, <3>a
    <3>5. CASE t = <<first("Resize"), move>>
      BY <3>1, <3>2, <3>5, <3>b
    <3> QED BY <3>3, <3>4, <3>5
  <2>5. Undelivered' \subseteq Undelivered
    BY <2>1 DEF Undelivered
  <2>6. \A r \in Undelivered' : Backed(r, Len(commands) + 1)
    BY <2>5 DEF WInv, AllBacked
  <2> HIDE DEF t
  <2> QED BY <2>1, <2>4, <2>6, SendStands
<1> QED BY <1>1, <1>2, <1>3, <1>4, <1>5, <1>6, <1>7, <1>8, <1>9 DEF Tick

(* The worker asks for nothing and sends what it was asked for.            *)
LEMMA WorkerBacked == TypeOK /\ WInv /\ Worker => WInv'
<1> SUFFICES ASSUME TypeOK, WInv, Worker PROVE WInv'
  OBVIOUS
<1>a. UNCHANGED <<desktop, window, generation, registry>>
  BY DEF Worker, AcceptRepaint, AcceptNow, AcceptForget, DrawNext, Rasterize, Deliver,
         tickVars, presenterVars
<1>b. jobs \in Seq(Job) /\ commands \in Seq(Command)
  BY DEF TypeOK
<1>c. ASSUME Undelivered' \subseteq Undelivered PROVE \A r \in Undelivered' : Backed(r, Len(commands) + 1)
  BY <1>c DEF WInv, AllBacked
<1>d. ASSUME commands' = commands, Undelivered' \subseteq Undelivered PROVE WInv'
  BY <1>a, <1>c, <1>d, PlainStands
<1>1. ASSUME AcceptRepaint \/ AcceptNow, NEW r, r = Head(jobs).request
      PROVE  r \in Undelivered /\ Requested(jobs') \subseteq Undelivered
  BY <1>1, <1>b, JobsRequested DEF AcceptRepaint, AcceptNow, Undelivered
<1>2. CASE AcceptRepaint
  <2> DEFINE r == Head(jobs).request
  <2>1. /\ pending' = [pending EXCEPT ![r.id] = r] /\ UNCHANGED <<drawing, reply, commands>>
    BY <1>2 DEF AcceptRepaint
  <2>2. r \in Undelivered /\ Requested(jobs') \subseteq Undelivered
    BY <1>1, <1>2
  <2> HIDE DEF r
  <2>3. \A p \in Panel : pending'[p] # None => pending'[p] \in Undelivered
    BY <2>1, <2>2 DEF TypeOK, Undelivered
  <2>4. Undelivered' \subseteq Undelivered
    BY <2>1, <2>2, <2>3 DEF Undelivered
  <2> QED BY <1>d, <2>1, <2>4
<1>3. CASE AcceptNow
  <2> DEFINE r == Head(jobs).request
  <2>1. /\ pending' = [p \in Panel |-> IF p = r.id THEN None ELSE pending[p]]
        /\ drawing'.request = r /\ UNCHANGED <<reply, commands>>
    BY <1>3 DEF AcceptNow, Take
  <2>2. r \in Undelivered /\ Requested(jobs') \subseteq Undelivered
    BY <1>1, <1>3
  <2> HIDE DEF r
  <2>3. \A p \in Panel : pending'[p] # None => pending'[p] \in Undelivered
    BY <2>1 DEF Undelivered
  <2>4. Undelivered' \subseteq Undelivered
    BY <2>1, <2>2, <2>3 DEF Undelivered
  <2> QED BY <1>d, <2>1, <2>4
<1>4. CASE AcceptForget
  <2>1. UNCHANGED <<drawing, reply, commands>> /\ Requested(jobs') \subseteq Requested(jobs)
    BY <1>4, <1>b, JobsRequested DEF AcceptForget
  <2>2. \A p \in Panel : pending'[p] # None => pending'[p] \in Undelivered
    BY <1>4 DEF AcceptForget, Undelivered
  <2>3. Undelivered' \subseteq Undelivered
    BY <2>1, <2>2 DEF Undelivered
  <2> QED BY <1>d, <2>1, <2>3
<1>5. CASE DrawNext
  <2>1. PICK p \in Due : pending' = [pending EXCEPT ![p] = None] /\ Take(pending[p], FALSE)
    BY <1>5 DEF DrawNext
  <2>2. UNCHANGED <<jobs, reply, commands>>
    BY <1>5 DEF DrawNext
  <2>3. drawing'.request \in Undelivered
    BY <2>1 DEF Due, Undelivered, Take
  <2>4. \A q \in Panel : pending'[q] # None => pending'[q] \in Undelivered
    BY <2>1 DEF TypeOK, Undelivered
  <2>5. Undelivered' \subseteq Undelivered
    BY <2>2, <2>3, <2>4 DEF Undelivered
  <2> QED BY <1>d, <2>2, <2>5
<1>6. CASE Rasterize
  <2>1. drawing'.request = drawing.request /\ drawing # None
        /\ UNCHANGED <<jobs, pending, reply, commands>>
    <3>1. drawing \in Drawing /\ drawing' = [drawing EXCEPT !.picture = Stamp(drawing.request.content)]
      BY <1>6 DEF Rasterize, TypeOK
    <3>2. drawing'.request = drawing.request
      BY <3>1 DEF Drawing
    <3> QED BY <1>6, <3>2 DEF Rasterize
  <2>2. Undelivered' \subseteq Undelivered
    BY <2>1 DEF Undelivered
  <2> QED BY <1>d, <2>1, <2>2
<1>7. CASE Deliver
  <2> DEFINE frame == [request |-> drawing.request, picture |-> drawing.picture]
             send == [cmd |-> "UpdatePicture", id |-> drawing.request.id, frame |-> frame]
  <2>1. drawing \in Drawing /\ drawing.picture # None /\ UNCHANGED <<jobs, pending>> /\ drawing' = None
    BY <1>7 DEF Deliver, TypeOK
  <2>2. drawing.request \in Undelivered
    BY <1>7 DEF Deliver, Undelivered
  <2>3. CASE drawing.now
    <3>1. reply' = frame /\ commands' = commands
      BY <1>7, <2>3 DEF Deliver
    <3>2. reply'.request \in Undelivered
      BY <2>2, <3>1
    <3>3. Undelivered' \subseteq Undelivered
      BY <2>1, <3>2 DEF Undelivered
    <3> QED BY <1>d, <3>1, <3>3
  <2>4. CASE ~drawing.now
    <3>1. commands' = Append(commands, send) /\ reply' = reply
      BY <1>7, <2>4 DEF Deliver
    <3>2. send \in Command /\ send.cmd = "UpdatePicture" /\ send.frame.request \in Undelivered
      <4>1. frame \in Frame /\ drawing.request.id \in Panel
        BY <2>1, <2>4 DEF Drawing, Frame, PanelRequest
      <4> QED BY <2>2, <4>1, CommandTyped
    <3>3. Undelivered' \subseteq Undelivered
      BY <2>1, <3>1 DEF Undelivered
    <3> HIDE DEF send
    <3>4. /\ <<send>> \in Seq(Command) /\ commands' = commands \o <<send>>
          /\ \A k \in DOMAIN <<send>> :
               /\ <<send>>[k].cmd # "PaintWallpaper"
               /\ <<send>>[k].cmd \in Framed => <<send>>[k].frame.request \in Undelivered
      BY <1>b, <3>1, <3>2
    <3> QED BY <1>a, <1>c, <3>3, <3>4, SendStands
  <2> QED BY <2>3, <2>4
<1> QED BY <1>2, <1>3, <1>4, <1>5, <1>6, <1>7 DEF Worker

(* The presenter shows what comes with a command, and a wallpaper's        *)
(* generation, as long as the display takes it.                            *)
LEMMA PresenterBacked ==
  ASSUME Unreliable \cap Wall = {}
  PROVE  TypeOK /\ WInv /\ Presenter => WInv'
<1> SUFFICES ASSUME TypeOK, WInv, Presenter PROVE WInv'
  OBVIOUS
<1> DEFINE c == Head(commands)
<1>1. /\ commands # <<>> /\ commands' = Tail(commands)
      /\ UNCHANGED <<tickVars, jobs, reply, workerVars>>
  BY DEF Presenter, ApplyCreate, ApplyMove, ApplyResize, ApplyDelete, ApplyUpdatePicture,
         ApplyPaintWallpaper, ApplyShutdown, Received
<1>2. commands[1] = c /\ c \in Command
  <2>1. commands \in Seq(Command)
    BY DEF TypeOK
  <2> QED BY <1>1, <2>1, Places, QueueTyped
<1>3. window \in [Panel -> Window \cup {None}]
  BY DEF TypeOK
<1>4. Paints
  <2>1. ASSUME NEW outcome \in Outcome, ApplyPaintWallpaper(outcome) PROVE Paints
    <3>1. c.cmd = "PaintWallpaper"
      BY <2>1 DEF ApplyPaintWallpaper, Received
    <3>2. c.id \in Wall
      BY <1>2, <3>1 DEF Command
    <3>3. outcome = "ok"
      BY <3>1, <3>2 DEF Outcome, MayFail
    <3> QED BY <1>2, <2>1, <3>1, <3>3 DEF ApplyPaintWallpaper, Paints, Painting
  <2>2. CASE c.cmd # "PaintWallpaper"
    <3>1. desktop' = desktop
      BY <2>2 DEF Presenter, ApplyCreate, ApplyMove, ApplyResize, ApplyDelete, ApplyUpdatePicture,
                  ApplyPaintWallpaper, ApplyShutdown, Received
    <3> QED BY <1>2, <2>2, <3>1 DEF Paints, Painting
  <2>3. CASE c.cmd = "PaintWallpaper"
    <3>1. \E outcome \in Outcome : ApplyPaintWallpaper(outcome)
      BY <2>3 DEF Presenter, ApplyCreate, ApplyMove, ApplyResize, ApplyDelete, ApplyUpdatePicture,
                  ApplyPaintWallpaper, ApplyShutdown, Received
    <3> QED BY <2>1, <3>1
  <2> QED BY <2>2, <2>3
<1>5. \A p \in Panel : window'[p] # None =>
        \/ window[p] # None /\ window'[p].frame = window[p].frame
        \/ commands[1].cmd \in Framed /\ window'[p].frame = commands[1].frame
  <2> SUFFICES ASSUME NEW p \in Panel, window'[p] # None
               PROVE  \/ window[p] # None /\ window'[p].frame = window[p].frame
                      \/ c.cmd \in Framed /\ window'[p].frame = c.frame
    BY <1>2
  <2>1. ASSUME NEW outcome \in Outcome, ApplyCreate(outcome)
        PROVE  \/ window[p] # None /\ window'[p].frame = window[p].frame
               \/ c.cmd \in Framed /\ window'[p].frame = c.frame
    BY <1>3, <2>1 DEF ApplyCreate, Received, Framed
  <2>2. ASSUME NEW outcome \in Outcome, ApplyMove(outcome)
        PROVE  window[p] # None /\ window'[p].frame = window[p].frame
    BY <1>3, <2>2 DEF ApplyMove, Received, Window
  <2>3. ASSUME NEW outcome \in Outcome, ApplyResize(outcome)
        PROVE  \/ window[p] # None /\ window'[p].frame = window[p].frame
               \/ c.cmd \in Framed /\ window'[p].frame = c.frame
    <3>1. \/ window' = window
          \/ window[c.id] # None /\ window' = [window EXCEPT ![c.id].size = c.frame.request.size]
          \/ /\ window[c.id] # None
             /\ window' = [window EXCEPT ![c.id].size = c.frame.request.size, ![c.id].frame = c.frame]
      BY <2>3 DEF ApplyResize
    <3>2. c.cmd \in Framed
      BY <2>3 DEF ApplyResize, Received, Framed
    <3>3. CASE p # c.id
      BY <1>3, <3>1, <3>3
    <3>4. CASE p = c.id
      BY <1>3, <3>1, <3>2, <3>4 DEF Window
    <3> QED BY <3>3, <3>4
  <2>4. ASSUME NEW outcome \in Outcome, ApplyUpdatePicture(outcome)
        PROVE  \/ window[p] # None /\ window'[p].frame = window[p].frame
               \/ c.cmd \in Framed /\ window'[p].frame = c.frame
    BY <1>3, <2>4 DEF ApplyUpdatePicture, Received, Fits, Framed, Window
  <2>5. ASSUME ApplyDelete PROVE window[p] # None /\ window'[p].frame = window[p].frame
    BY <1>3, <2>5 DEF ApplyDelete
  <2>6. CASE UNCHANGED window
    BY <2>6
  <2> QED BY <2>1, <2>2, <2>3, <2>4, <2>5, <2>6 DEF Presenter, ApplyPaintWallpaper, ApplyShutdown
<1> QED BY <1>1, <1>4, <1>5, AppliedStands

(* As long as the display takes the wallpapers themselves, no panel ever   *)
(* shows a slice of one that the desktop does not show yet, however frames *)
(* of the tick thread and of the worker overtake each other                *)
(* (surface/mod.rs: reconcile_all, presentation/mod.rs).                   *)
THEOREM WallpapersComeFirst ==
  ASSUME Unreliable \cap Wall = {}
  PROVE  Spec => []WallpaperBeforePanels
<1>1. Init => WInv
  BY DEF Init, WInv, InOrder, AllBacked, Undelivered, Requested, Shown
<1>2. IInv /\ WInv /\ [Next]_vars => WInv'
  <2> SUFFICES ASSUME TypeOK, Phased, WInv, [Next]_vars PROVE WInv'
    BY DEF IInv
  <2>1. CASE Tick
    BY <2>1, TickBacked
  <2>2. CASE Worker
    BY <2>2, WorkerBacked
  <2>3. CASE Presenter
    BY <2>3, PresenterBacked
  <2>4. ASSUME UNCHANGED <<commands, desktop, window, generation, registry, jobs, pending, drawing, reply>>
        PROVE  WInv'
    <3>1. Undelivered' = Undelivered
      BY <2>4 DEF Undelivered
    <3>2. \A r \in Undelivered' : Backed(r, Len(commands) + 1)
      BY <3>1 DEF WInv, AllBacked
    <3> QED BY <2>4, <3>2, PlainStands
  <2>5. ASSUME NEW p \in Panel, FloorElapses(p) PROVE WInv'
    BY <2>4, <2>5 DEF FloorElapses, tickVars, presenterVars
  <2>6. CASE UNCHANGED vars
    BY <2>4, <2>6 DEF vars, tickVars, workerVars, presenterVars
  <2> QED BY <2>1, <2>2, <2>3, <2>5, <2>6 DEF Next, Stopped
<1>3. TypeOK /\ WInv => WallpaperBeforePanels
  <2> SUFFICES ASSUME TypeOK, WInv, NEW p \in Panel, window[p] # None,
                      window[p].frame.request.crop # None
               PROVE  window[p].frame.request.backdrop <= desktop[window[p].frame.request.crop.output]
    BY DEF WallpaperBeforePanels
  <2>1. Backed(window[p].frame.request, 1)
    BY DEF WInv, AllBacked
  <2>2. \A j \in DOMAIN commands : ~(j < 1)
    <3>1. commands \in Seq(Command)
      BY DEF TypeOK
    <3> QED BY <3>1
  <2> QED BY <2>1, <2>2 DEF Backed, Shown
<1>4. IInv => TypeOK
  BY DEF IInv
<1> QED BY <1>1, <1>2, <1>3, <1>4, Invariance, PTL DEF Spec

-----------------------------------------------------------------------------
(* The tick thread waits for one frame, and until it has it, nothing else  *)
(* is asked of the worker.                                                 *)

(* A request for what is awaited.                                          *)
Awaited(r) == wait # None /\ r.id = wait.id /\ r.size = desired[wait.id].size

(* The worker is drawing what the tick thread waits for.                   *)
Drawn == drawing # None /\ drawing.now

Blocked ==
  /\ \A i \in DOMAIN jobs : jobs[i].job = "Now" =>
       i = Len(jobs) /\ Awaited(jobs[i].request) /\ ~Drawn /\ reply = None
  /\ Drawn => /\ Awaited(drawing.request) /\ reply = None /\ jobs = <<>>
              /\ \A p \in Panel : p = wait.id => pending[p] = None
  /\ reply # None => /\ Awaited(reply.request) /\ jobs = <<>> /\ ~Drawn
                     /\ \A p \in Panel : p = wait.id => pending[p] = None
                     /\ drawing # None => drawing.request.id # wait.id

(* Slots hold requests of their own panel.                                 *)
Keyed == \A p \in Panel : pending[p] # None => pending[p].id = p

(* The repaints of panel p in a queue of jobs, and all still to be sent.   *)
RepaintsIn(q, p) ==
  {q[i].request : i \in {k \in DOMAIN q : q[k].job = "Repaint" /\ q[k].request.id = p}}
Repaints(p) ==
  RepaintsIn(jobs, p)
  \cup {r \in {pending[p]} : r # None}
  \cup (IF drawing # None /\ ~drawing.now /\ drawing.request.id = p THEN {drawing.request} ELSE {})

(* The commands that decide the size of p's window.                        *)
Sizes(p, i) == commands[i].cmd \in {"Create", "Resize", "Delete"} /\ commands[i].id = p

(* When command i is applied, the window of p has size z, if there is one. *)
WillMeasure(p, z, i) ==
  \/ /\ \A j \in DOMAIN commands : j < i => ~Sizes(p, j)
     /\ window[p] # None => window[p].size = z
  \/ \E j \in DOMAIN commands :
       /\ j < i /\ Sizes(p, j)
       /\ commands[j].cmd # "Delete" => commands[j].frame.request.size = z
       /\ \A k \in DOMAIN commands : j < k /\ k < i => ~Sizes(p, k)

Measured(p) ==
  /\ \A i \in DOMAIN commands : commands[i].cmd = "UpdatePicture" /\ commands[i].id = p =>
       WillMeasure(p, commands[i].frame.request.size, i)
  /\ \A r \in Repaints(p) : WillMeasure(p, r.size, Len(commands) + 1)
  /\ tracked[p] # None => WillMeasure(p, tracked[p].spec.size, Len(commands) + 1)

SInv == Blocked /\ Keyed /\ \A p \in Panel \ Unreliable : Measured(p)

(* Sending what does not size p changes nothing of what p's window will    *)
(* measure; a Create, Resize or Delete decides it anew.                    *)
LEMMA SentMeasures ==
  ASSUME TypeOK, NEW t \in Seq(Command), commands' = commands \o t, window' = window, NEW p, NEW z
  PROVE  /\ \A i \in 1..(Len(commands) + 1) : WillMeasure(p, z, i) => WillMeasure(p, z, i)'
         /\ (\A k \in DOMAIN t : ~(t[k].cmd \in {"Create", "Resize", "Delete"} /\ t[k].id = p))
              => /\ \A n \in (Len(commands) + 1)..(Len(commands) + Len(t) + 1) :
                      WillMeasure(p, z, Len(commands) + 1) => WillMeasure(p, z, n)'
                 /\ WillMeasure(p, z, Len(commands) + 1) => WillMeasure(p, z, Len(commands) + 1)'
         /\ /\ t # <<>> /\ t[1].cmd \in {"Create", "Resize", "Delete"} /\ t[1].id = p
            /\ t[1].cmd # "Delete" => t[1].frame.request.size = z
            /\ \A k \in DOMAIN t : k > 1 => t[k].cmd \notin {"Create", "Resize", "Delete"}
            => WillMeasure(p, z, Len(commands) + 1)'
<1>1. /\ Len(commands) \in Nat /\ Len(t) \in Nat /\ Len(commands') = Len(commands) + Len(t)
      /\ DOMAIN commands = 1..Len(commands) /\ DOMAIN t = 1..Len(t)
      /\ DOMAIN commands' = 1..(Len(commands) + Len(t))
      /\ \A j \in 1..Len(commands) : commands'[j] = commands[j]
      /\ \A j \in 1..Len(t) : commands'[Len(commands) + j] = t[j]
      /\ t # <<>> => Len(t) >= 1
  <2>1. commands \in Seq(Command)
    BY DEF TypeOK
  <2> QED BY <2>1, Places
<1>2. \A j \in DOMAIN commands : j \in DOMAIN commands' /\ Sizes(p, j)' = Sizes(p, j)
  BY <1>1 DEF Sizes
<1>3. ASSUME NEW i \in 1..(Len(commands) + 1), WillMeasure(p, z, i) PROVE WillMeasure(p, z, i)'
  <2>1. \A j \in DOMAIN commands' : j < i => j \in DOMAIN commands
    BY <1>1
  <2>2. CASE (\A j \in DOMAIN commands : j < i => ~Sizes(p, j)) /\ (window[p] # None => window[p].size = z)
    BY <1>2, <2>1, <2>2 DEF WillMeasure
  <2>3. ASSUME NEW j \in DOMAIN commands, j < i, Sizes(p, j),
               commands[j].cmd # "Delete" => commands[j].frame.request.size = z,
               \A k \in DOMAIN commands : j < k /\ k < i => ~Sizes(p, k)
        PROVE  WillMeasure(p, z, i)'
    <3>1. j \in DOMAIN commands' /\ Sizes(p, j)' /\ commands'[j] = commands[j]
      BY <1>1, <1>2, <2>3
    <3>2. \A k \in DOMAIN commands' : j < k /\ k < i => ~Sizes(p, k)'
      BY <1>2, <2>1, <2>3
    <3> QED BY <2>3, <3>1, <3>2 DEF WillMeasure
  <2> QED BY <1>3, <2>2, <2>3 DEF WillMeasure
<1>4. ASSUME \A k \in DOMAIN t : ~(t[k].cmd \in {"Create", "Resize", "Delete"} /\ t[k].id = p),
             WillMeasure(p, z, Len(commands) + 1),
             NEW n \in (Len(commands) + 1)..(Len(commands) + Len(t) + 1)
      PROVE  WillMeasure(p, z, n)'
  <2>1. ASSUME NEW j \in DOMAIN commands', Sizes(p, j)'
        PROVE  j \in DOMAIN commands /\ Sizes(p, j) /\ j < Len(commands) + 1
    <3>1. CASE j \in DOMAIN commands
      BY <1>1, <1>2, <2>1, <3>1
    <3>2. CASE j \notin DOMAIN commands
      <4>1. j - Len(commands) \in DOMAIN t /\ commands'[j] = t[j - Len(commands)]
        BY <1>1, <3>2
      <4> QED BY <1>4, <2>1, <4>1 DEF Sizes
    <3> QED BY <3>1, <3>2
  <2>2. CASE /\ \A j \in DOMAIN commands : j < Len(commands) + 1 => ~Sizes(p, j)
             /\ window[p] # None => window[p].size = z
    BY <2>1, <2>2 DEF WillMeasure
  <2>3. ASSUME NEW j \in DOMAIN commands, j < Len(commands) + 1, Sizes(p, j),
               commands[j].cmd # "Delete" => commands[j].frame.request.size = z,
               \A k \in DOMAIN commands : j < k /\ k < Len(commands) + 1 => ~Sizes(p, k)
        PROVE  WillMeasure(p, z, n)'
    <3>1. j \in DOMAIN commands' /\ Sizes(p, j)' /\ commands'[j] = commands[j] /\ j < n
      BY <1>1, <1>2, <2>3
    <3>2. \A k \in DOMAIN commands' : j < k /\ k < n => ~Sizes(p, k)'
      BY <2>1, <2>3
    <3> QED BY <2>3, <3>1, <3>2 DEF WillMeasure
  <2> QED BY <1>4, <2>2, <2>3 DEF WillMeasure
<1>5. ASSUME \A n \in (Len(commands) + 1)..(Len(commands) + Len(t) + 1) : WillMeasure(p, z, n)'
      PROVE  WillMeasure(p, z, Len(commands) + 1)'
  <2>1. \A n : n = Len(commands') + 1 => WillMeasure(p, z, n)'
    BY <1>1, <1>5
  <2> QED BY <2>1 DEF WillMeasure
<1>6. ASSUME t # <<>>, t[1].cmd \in {"Create", "Resize", "Delete"}, t[1].id = p,
             t[1].cmd # "Delete" => t[1].frame.request.size = z,
             \A k \in DOMAIN t : k > 1 => t[k].cmd \notin {"Create", "Resize", "Delete"}
      PROVE  WillMeasure(p, z, Len(commands) + 1)'
  <2>0. PICK j : j = Len(commands) + 1
    OBVIOUS
  <2>1. j \in DOMAIN commands' /\ j < Len(commands') + 1 /\ commands'[j] = t[1]
    BY <1>1, <1>6, <2>0
  <2>2. ASSUME NEW k \in DOMAIN commands', j < k PROVE ~Sizes(p, k)'
    <3>1. k - Len(commands) \in DOMAIN t /\ k - Len(commands) > 1 /\ commands'[k] = t[k - Len(commands)]
      BY <1>1, <2>0, <2>2
    <3> QED BY <1>6, <3>1 DEF Sizes
  <2>3. Sizes(p, j)'
    BY <1>6, <2>1 DEF Sizes
  <2>4. commands'[j].cmd # "Delete" => commands'[j].frame.request.size = z
    BY <1>6, <2>1
  <2> QED BY <2>1, <2>2, <2>3, <2>4 DEF WillMeasure
<1> QED BY <1>3, <1>4, <1>5, <1>6

(* Applying a command does to the size of p's window what it says.         *)
Heeds(p) ==
  LET c == commands[1]
  IN window'[p] # None =>
       IF Sizes(p, 1)
         THEN c.cmd # "Delete" /\ window'[p].size = c.frame.request.size
         ELSE window[p] # None /\ window'[p].size = window[p].size

(* What a queued command will find measured it finds one place nearer.     *)
LEMMA AppliedMeasures ==
  ASSUME TypeOK, commands # <<>>, commands' = Tail(commands), NEW p \in Panel, Heeds(p),
         NEW z, NEW i \in 2..(Len(commands) + 1), WillMeasure(p, z, i)
  PROVE  WillMeasure(p, z, i - 1)'
<1>1. /\ Len(commands) \in Nat /\ Len(commands) >= 1 /\ DOMAIN commands = 1..Len(commands)
      /\ Len(commands') = Len(commands) - 1 /\ DOMAIN commands' = 1..(Len(commands) - 1)
      /\ \A j \in 1..(Len(commands) - 1) : commands'[j] = commands[j + 1]
  <2>1. commands \in Seq(Command)
    BY DEF TypeOK
  <2> QED BY <2>1, Places
<1>2. \A j \in DOMAIN commands' : j + 1 \in DOMAIN commands /\ Sizes(p, j)' = Sizes(p, j + 1)
  BY <1>1 DEF Sizes
<1>3. CASE (\A j \in DOMAIN commands : j < i => ~Sizes(p, j)) /\ (window[p] # None => window[p].size = z)
  <2>1. ~Sizes(p, 1)
    BY <1>1, <1>3
  <2>2. window'[p] # None => window'[p].size = z
    BY <1>3, <2>1 DEF Heeds
  <2>3. \A j \in DOMAIN commands' : j < i - 1 => ~Sizes(p, j)'
    BY <1>1, <1>2, <1>3
  <2> QED BY <2>2, <2>3 DEF WillMeasure
<1>4. ASSUME NEW j \in DOMAIN commands, j < i, Sizes(p, j),
             commands[j].cmd # "Delete" => commands[j].frame.request.size = z,
             \A k \in DOMAIN commands : j < k /\ k < i => ~Sizes(p, k)
      PROVE  WillMeasure(p, z, i - 1)'
  <2>1. CASE j = 1
    <3>1. window'[p] # None => window'[p].size = z
      BY <1>4, <2>1 DEF Heeds
    <3>2. \A k \in DOMAIN commands' : k < i - 1 => ~Sizes(p, k)'
      BY <1>1, <1>2, <1>4, <2>1
    <3> QED BY <3>1, <3>2 DEF WillMeasure
  <2>2. CASE j # 1
    <3>1. j - 1 \in DOMAIN commands' /\ commands'[j - 1] = commands[j] /\ j - 1 < i - 1 /\ (j - 1) + 1 = j
      BY <1>1, <1>4, <2>2
    <3>2. Sizes(p, j - 1)'
      BY <1>2, <1>4, <3>1
    <3>3. \A k \in DOMAIN commands' : j - 1 < k /\ k < i - 1 => ~Sizes(p, k)'
      BY <1>1, <1>2, <1>4
    <3> QED BY <1>4, <3>1, <3>2, <3>3 DEF WillMeasure
  <2> QED BY <2>1, <2>2
<1> QED BY <1>3, <1>4 DEF WillMeasure

(* A step that sends p nothing that sizes its window, and asks for repaints*)
(* of the size it will have.                                               *)
LEMMA SendMeasured ==
  ASSUME TypeOK, NEW p \in Panel, Measured(p),
         NEW t \in Seq(Command), commands' = commands \o t, window' = window,
         \A k \in DOMAIN t :
           /\ ~(t[k].cmd \in {"Create", "Resize", "Delete"} /\ t[k].id = p)
           /\ t[k].cmd = "UpdatePicture" /\ t[k].id = p =>
                WillMeasure(p, t[k].frame.request.size, Len(commands) + 1),
         \A r \in Repaints(p)' : WillMeasure(p, r.size, Len(commands) + 1),
         tracked'[p] # None => WillMeasure(p, tracked'[p].spec.size, Len(commands) + 1)
  PROVE  Measured(p)'
<1>1. /\ Len(commands) \in Nat /\ Len(t) \in Nat /\ Len(commands') = Len(commands) + Len(t)
      /\ DOMAIN commands = 1..Len(commands) /\ DOMAIN t = 1..Len(t)
      /\ DOMAIN commands' = 1..(Len(commands) + Len(t))
      /\ \A j \in 1..Len(commands) : commands'[j] = commands[j]
      /\ \A j \in 1..Len(t) : commands'[Len(commands) + j] = t[j]
  <2>1. commands \in Seq(Command)
    BY DEF TypeOK
  <2> QED BY <2>1, Places
<1>2. ASSUME NEW z, WillMeasure(p, z, Len(commands) + 1)
      PROVE  /\ \A n \in (Len(commands) + 1)..(Len(commands) + Len(t) + 1) : WillMeasure(p, z, n)'
             /\ WillMeasure(p, z, Len(commands) + 1)'
  BY <1>2, SentMeasures
<1>3. ASSUME NEW i \in DOMAIN commands', commands'[i].cmd = "UpdatePicture", commands'[i].id = p
      PROVE  WillMeasure(p, commands[i].frame.request.size, i)'
  <2>0. PICK z : z = commands'[i].frame.request.size
    OBVIOUS
  <2>1. CASE i \in DOMAIN commands
    <3>1. commands'[i] = commands[i] /\ i \in 1..(Len(commands) + 1)
      BY <1>1, <2>1
    <3>2. WillMeasure(p, z, i)
      BY <1>3, <2>0, <2>1, <3>1 DEF Measured
    <3>3. WillMeasure(p, z, i)'
      BY <3>1, <3>2, SentMeasures
    <3> QED BY <2>0, <3>3
  <2>2. CASE i \notin DOMAIN commands
    <3>1. /\ i - Len(commands) \in DOMAIN t /\ commands'[i] = t[i - Len(commands)]
          /\ i \in (Len(commands) + 1)..(Len(commands) + Len(t) + 1)
      BY <1>1, <2>2
    <3>2. WillMeasure(p, z, Len(commands) + 1)
      BY <1>3, <2>0, <3>1
    <3> QED BY <1>2, <2>0, <3>1, <3>2
  <2> QED BY <2>1, <2>2
<1>4. \A r \in Repaints(p)' : WillMeasure(p, r.size, Len(commands) + 1)'
  BY <1>2
<1>5. ASSUME tracked'[p] # None PROVE WillMeasure(p, tracked[p].spec.size, Len(commands) + 1)'
  <2>0. PICK z : z = tracked'[p].spec.size
    OBVIOUS
  <2>1. WillMeasure(p, z, Len(commands) + 1)'
    BY <1>2, <1>5, <2>0
  <2> QED BY <2>0, <2>1
<1> QED BY <1>3, <1>4, <1>5 DEF Measured

(* A step that sends what sizes p's window, with nothing of another size   *)
(* left to be sent.                                                        *)
LEMMA SetMeasured ==
  ASSUME TypeOK, NEW p \in Panel, Measured(p),
         NEW t \in Seq(Command), commands' = commands \o t, window' = window,
         t # <<>>, t[1].cmd \in {"Create", "Resize", "Delete"}, t[1].id = p,
         \A k \in DOMAIN t : /\ t[k].cmd # "UpdatePicture"
                             /\ k > 1 => t[k].cmd \notin {"Create", "Resize", "Delete"},
         t[1].cmd # "Delete" =>
           /\ Repaints(p)' = {}
           /\ tracked'[p] # None => tracked'[p].spec.size = t[1].frame.request.size
  PROVE  Measured(p)'
<1>1. /\ Len(commands) \in Nat /\ Len(t) \in Nat /\ Len(commands') = Len(commands) + Len(t)
      /\ DOMAIN commands = 1..Len(commands) /\ DOMAIN t = 1..Len(t)
      /\ DOMAIN commands' = 1..(Len(commands) + Len(t))
      /\ \A j \in 1..Len(commands) : commands'[j] = commands[j]
      /\ \A j \in 1..Len(t) : commands'[Len(commands) + j] = t[j]
  <2>1. commands \in Seq(Command)
    BY DEF TypeOK
  <2> QED BY <2>1, Places
<1>2. ASSUME NEW z, t[1].cmd # "Delete" => t[1].frame.request.size = z
      PROVE  WillMeasure(p, z, Len(commands) + 1)'
  BY <1>2, SentMeasures
<1>3. ASSUME NEW i \in DOMAIN commands', commands'[i].cmd = "UpdatePicture", commands'[i].id = p
      PROVE  WillMeasure(p, commands[i].frame.request.size, i)'
  <2>0. PICK z : z = commands'[i].frame.request.size
    OBVIOUS
  <2>1. i \in DOMAIN commands
    <3>1. i \notin DOMAIN commands => i - Len(commands) \in DOMAIN t /\ commands'[i] = t[i - Len(commands)]
      BY <1>1
    <3> QED BY <1>3, <3>1
  <2>2. commands'[i] = commands[i] /\ i \in 1..(Len(commands) + 1)
    BY <1>1, <2>1
  <2>3. WillMeasure(p, z, i)
    BY <1>3, <2>0, <2>1, <2>2 DEF Measured
  <2>4. WillMeasure(p, z, i)'
    BY <2>2, <2>3, SentMeasures
  <2> QED BY <2>0, <2>4
<1>4. \A r \in Repaints(p)' : WillMeasure(p, r.size, Len(commands) + 1)'
  BY <1>2
<1>5. ASSUME tracked'[p] # None PROVE WillMeasure(p, tracked[p].spec.size, Len(commands) + 1)'
  <2>0. PICK z : z = tracked'[p].spec.size
    OBVIOUS
  <2>1. WillMeasure(p, z, Len(commands) + 1)'
    BY <1>2, <1>5, <2>0
  <2> QED BY <2>0, <2>1
<1> QED BY <1>3, <1>4, <1>5 DEF Measured

(* A command applied.                                                      *)
LEMMA AppliedMeasured ==
  ASSUME TypeOK, commands # <<>>, commands' = Tail(commands), NEW p \in Panel, Heeds(p), Measured(p),
         UNCHANGED <<tickVars, jobs, reply, workerVars>>
  PROVE  Measured(p)'
<1>1. /\ Len(commands) \in Nat /\ Len(commands) >= 1 /\ DOMAIN commands = 1..Len(commands)
      /\ Len(commands') = Len(commands) - 1 /\ DOMAIN commands' = 1..(Len(commands) - 1)
      /\ \A j \in 1..(Len(commands) - 1) : commands'[j] = commands[j + 1]
  <2>1. commands \in Seq(Command)
    BY DEF TypeOK
  <2> QED BY <2>1, Places
<1>2. ASSUME NEW z, NEW i \in 2..(Len(commands) + 1), WillMeasure(p, z, i)
      PROVE  WillMeasure(p, z, i - 1)'
  BY <1>2, AppliedMeasures
<1>3. ASSUME NEW z, WillMeasure(p, z, Len(commands) + 1) PROVE WillMeasure(p, z, Len(commands) + 1)'
  <2>0. PICK n : n = Len(commands) + 1
    OBVIOUS
  <2>1. WillMeasure(p, z, n - 1)' /\ n - 1 = Len(commands') + 1
    BY <1>1, <1>2, <1>3, <2>0
  <2> QED BY <2>1 DEF WillMeasure
<1>4. ASSUME NEW i \in DOMAIN commands', commands'[i].cmd = "UpdatePicture", commands'[i].id = p
      PROVE  WillMeasure(p, commands[i].frame.request.size, i)'
  <2>0. PICK z : z = commands'[i].frame.request.size
    OBVIOUS
  <2>1. /\ i + 1 \in DOMAIN commands /\ commands'[i] = commands[i + 1] /\ (i + 1) - 1 = i
        /\ i + 1 \in 2..(Len(commands) + 1)
    BY <1>1
  <2>2. WillMeasure(p, z, i + 1)
    BY <1>4, <2>0, <2>1 DEF Measured
  <2>3. WillMeasure(p, z, (i + 1) - 1)'
    BY <1>2, <2>1, <2>2
  <2> QED BY <2>0, <2>1, <2>3
<1>5. Repaints(p)' = Repaints(p) /\ tracked' = tracked
  BY DEF Repaints, workerVars, tickVars
<1>6. \A r \in Repaints(p)' : WillMeasure(p, r.size, Len(commands) + 1)'
  BY <1>3, <1>5 DEF Measured
<1>7. ASSUME tracked'[p] # None PROVE WillMeasure(p, tracked[p].spec.size, Len(commands) + 1)'
  <2>0. PICK z : z = tracked'[p].spec.size
    OBVIOUS
  <2>1. WillMeasure(p, z, Len(commands) + 1)'
    BY <1>3, <1>5, <1>7, <2>0 DEF Measured
  <2> QED BY <2>0, <2>1
<1> QED BY <1>4, <1>6, <1>7 DEF Measured

(* The repaints in the queue to the worker, as it grows and shrinks.       *)
LEMMA JobRepaints ==
  ASSUME NEW q \in Seq(Job), NEW p
  PROVE  /\ \A e \in Job : /\ RepaintsIn(Append(q, e), p) \subseteq RepaintsIn(q, p) \cup {e.request}
                           /\ ~(e.job = "Repaint" /\ e.request.id = p) =>
                                RepaintsIn(Append(q, e), p) = RepaintsIn(q, p)
         /\ q # <<>> => RepaintsIn(Tail(q), p) \subseteq RepaintsIn(q, p)
         /\ q # <<>> /\ Head(q).job = "Repaint" /\ Head(q).request.id = p =>
              Head(q).request \in RepaintsIn(q, p)
<1>1. ASSUME NEW e \in Job
      PROVE  /\ RepaintsIn(Append(q, e), p) \subseteq RepaintsIn(q, p) \cup {e.request}
             /\ ~(e.job = "Repaint" /\ e.request.id = p) =>
                  RepaintsIn(Append(q, e), p) = RepaintsIn(q, p)
  <2>1. /\ DOMAIN Append(q, e) = 1..(Len(q) + 1) /\ DOMAIN q = 1..Len(q) /\ Len(q) \in Nat
        /\ Append(q, e)[Len(q) + 1] = e
        /\ \A i \in 1..Len(q) : Append(q, e)[i] = q[i]
    BY AppendProperties
  <2>2. \A i \in DOMAIN Append(q, e) :
          i = Len(q) + 1 \/ (i \in DOMAIN q /\ Append(q, e)[i] = q[i])
    BY <2>1
  <2>3. RepaintsIn(Append(q, e), p) \subseteq RepaintsIn(q, p) \cup {e.request}
    BY <2>1, <2>2 DEF RepaintsIn
  <2>4. RepaintsIn(q, p) \subseteq RepaintsIn(Append(q, e), p)
    <3>1. \A i \in DOMAIN q : i \in DOMAIN Append(q, e) /\ Append(q, e)[i] = q[i]
      BY <2>1
    <3> QED BY <3>1 DEF RepaintsIn
  <2>5. ~(e.job = "Repaint" /\ e.request.id = p) => RepaintsIn(Append(q, e), p) \subseteq RepaintsIn(q, p)
    BY <2>1, <2>2 DEF RepaintsIn
  <2> QED BY <2>3, <2>4, <2>5
<1>2. ASSUME q # <<>>
      PROVE  /\ RepaintsIn(Tail(q), p) \subseteq RepaintsIn(q, p)
             /\ Head(q).job = "Repaint" /\ Head(q).request.id = p => Head(q).request \in RepaintsIn(q, p)
  <2>1. /\ Len(q) \in Nat /\ DOMAIN q = 1..Len(q) /\ Len(q) >= 1 /\ Head(q) = q[1]
        /\ DOMAIN Tail(q) = 1..(Len(q) - 1)
        /\ \A i \in 1..(Len(q) - 1) : Tail(q)[i] = q[i + 1]
    BY <1>2, Places
  <2>2. \A i \in DOMAIN Tail(q) : i + 1 \in DOMAIN q /\ Tail(q)[i] = q[i + 1]
    BY <2>1
  <2>3. 1 \in DOMAIN q
    BY <2>1
  <2> QED BY <2>1, <2>2, <2>3 DEF RepaintsIn
<1> QED BY <1>1, <1>2

(* Where nothing is waited for, no answer is on its way.                   *)
LEMMA NobodyWaits ==
  ASSUME Blocked, wait = None
  PROVE  reply = None /\ ~Drawn /\ \A i \in DOMAIN jobs : jobs[i].job # "Now"
  BY DEF Blocked, Awaited

(* Every step keeps the tick thread and the worker in turns.               *)
LEMMA TickBlocked == TypeOK /\ Phased /\ Blocked /\ Tick => Blocked'
<1> SUFFICES ASSUME TypeOK, Phased, Blocked, Tick PROVE Blocked'
  OBVIOUS
<1>a. UNCHANGED <<pending, drawing>>
  BY DEF Tick, BeginPass, StoreDrawn, NextPhase, Close, Exit, Enter, Skip, UpdateWall, ResizePanel,
         UpdatePanel, NowAnswered, workerVars
<1>c. jobs \in Seq(Job)
  BY DEF TypeOK
<1>d. ASSUME wait = None, wait' = None, reply' = reply,
             jobs' = jobs \/ \E e \in Job : e.job # "Now" /\ jobs' = Append(jobs, e)
      PROVE  Blocked'
  <2>1. reply' = None /\ ~Drawn' /\ \A i \in DOMAIN jobs : jobs[i].job # "Now"
    BY <1>a, <1>d, NobodyWaits DEF Drawn
  <2>2. \A i \in DOMAIN jobs' : jobs'[i].job # "Now"
    <3>1. CASE jobs' = jobs
      BY <2>1, <3>1
    <3>2. ASSUME NEW e \in Job, e.job # "Now", jobs' = Append(jobs, e)
          PROVE  \A i \in DOMAIN jobs' : jobs'[i].job # "Now"
      BY <1>c, <2>1, <3>2
    <3> QED BY <1>d, <3>1, <3>2
  <2> QED BY <2>1, <2>2 DEF Blocked
<1>e. ASSUME NEW s \in Surface, wait = None, AskNow(s), desired[s] # None, UNCHANGED <<desired, reply>>
      PROVE  Blocked'
  <2>0. PICK q, e : q = RequestFor(s, desired[s]) /\ e = [job |-> "Now", request |-> q]
    OBVIOUS
  <2>1. reply' = None /\ ~Drawn' /\ \A i \in DOMAIN jobs : jobs[i].job # "Now"
    BY <1>a, <1>e, NobodyWaits DEF Drawn
  <2>2. wait' # None /\ wait'.id = s /\ q.id = s /\ q.size = desired[s].size /\ jobs' = Append(jobs, e)
    <3>1. wait' \in Waiting /\ wait'.id = s
      BY <1>e, RequestTyped DEF AskNow, Waiting
    <3>2. wait' # None
      BY <3>1, NoneAssumption
    <3> QED BY <1>e, <2>0, <3>1, <3>2 DEF AskNow, RequestFor
  <2>3. e \in Job /\ e.request = q
    BY <1>e, <2>0, RequestTyped, JobTyped
  <2>4. Awaited(e.request)'
    BY <1>e, <2>2, <2>3 DEF Awaited
  <2>5. \A i \in DOMAIN jobs' : jobs'[i].job = "Now" => i = Len(jobs') /\ jobs'[i] = e
    BY <1>c, <2>1, <2>2, <2>3
  <2>6. \A i \in DOMAIN jobs' : jobs'[i].job = "Now" => Awaited(jobs[i].request)'
    BY <2>4, <2>5 DEF Awaited
  <2> QED BY <2>1, <2>5, <2>6 DEF Blocked
<1>f. phase = "idle" => wait = None
  BY DEF Phased
<1>1. CASE (\E layout \in Layouts : BeginPass(layout)) \/ Close
  BY <1>1, <1>d, <1>f DEF BeginPass, Close
<1>2. CASE StoreDrawn
  BY <1>2, <1>d, <1>f DEF StoreDrawn
<1>3. CASE NextPhase
  BY <1>3, <1>d DEF NextPhase
<1>4. ASSUME NEW s \in Surface, Exit(s) PROVE Blocked'
  <2>1. [job |-> "Forget", id |-> s] \in Job /\ [job |-> "Forget", id |-> s].job # "Now"
    BY JobTyped
  <2> QED BY <1>4, <1>d, <2>1 DEF Exit
<1>5. ASSUME NEW s \in Surface, Enter(s) PROVE Blocked'
  BY <1>5, <1>e DEF Enter
<1>6. ASSUME NEW s \in Surface, Skip(s) PROVE Blocked'
  BY <1>6, <1>d DEF Skip
<1>7. ASSUME NEW w \in Wall, UpdateWall(w) PROVE Blocked'
  <2>1. CASE WallChanged(w)
    BY <1>7, <2>1, <1>e DEF UpdateWall, Updating
  <2>2. CASE ~WallChanged(w)
    BY <1>7, <2>2, <1>d DEF UpdateWall
  <2> QED BY <2>1, <2>2
<1>8. ASSUME NEW p \in Panel, ResizePanel(p) PROVE Blocked'
  BY <1>8, <1>e DEF ResizePanel, Updating
<1>9. ASSUME NEW p \in Panel, UpdatePanel(p) PROVE Blocked'
  <2> DEFINE e == [job |-> "Repaint", request |-> RequestFor(p, desired[p])]
  <2>1. e \in Job /\ e.job # "Now"
    BY <1>9, RequestTyped, JobTyped DEF UpdatePanel, Updating
  <2>2. wait = None /\ wait' = None /\ reply' = reply /\ (jobs' = jobs \/ jobs' = Append(jobs, e))
    BY <1>9 DEF UpdatePanel
  <2> HIDE DEF e
  <2> QED BY <1>d, <2>1, <2>2
<1>10. CASE NowAnswered
  <2>1. reply' = None /\ jobs' = jobs /\ reply # None
    BY <1>10 DEF NowAnswered
  <2>2. jobs' = <<>> /\ ~Drawn' /\ reply' = None
    BY <1>a, <2>1 DEF Blocked, Drawn
  <2> QED BY <2>1, <2>2 DEF Blocked
<1> QED BY <1>1, <1>2, <1>3, <1>4, <1>5, <1>6, <1>7, <1>8, <1>9, <1>10 DEF Tick

(* The worker takes what is asked in turn, and drops what was pending for  *)
(* the surface that is waited for.                                         *)
LEMMA WorkerBlocked == TypeOK /\ Blocked /\ Keyed /\ Worker => Blocked' /\ Keyed'
<1> SUFFICES ASSUME TypeOK, Blocked, Keyed, Worker PROVE Blocked' /\ Keyed'
  OBVIOUS
<1>a. UNCHANGED <<wait, desired>>
  BY DEF Worker, AcceptRepaint, AcceptNow, AcceptForget, DrawNext, Rasterize, Deliver, tickVars
<1>b. \A r : Awaited(r) => Awaited(r)'
  BY <1>a DEF Awaited
<1>c. pending \in [Panel -> PanelRequest \cup {None}]
  BY DEF TypeOK
<1>d. ASSUME jobs # <<>>
      PROVE  /\ jobs \in Seq(Job) /\ Head(jobs) = jobs[1] /\ Head(jobs) \in Job /\ 1 \in DOMAIN jobs
             /\ Len(jobs) \in Nat /\ Len(Tail(jobs)) = Len(jobs) - 1
             /\ \A i \in DOMAIN Tail(jobs) : i + 1 \in DOMAIN jobs /\ Tail(jobs)[i] = jobs[i + 1]
  <2>1. jobs \in Seq(Job)
    BY DEF TypeOK
  <2>2. /\ Len(jobs) \in Nat /\ DOMAIN jobs = 1..Len(jobs) /\ Len(jobs) >= 1 /\ Head(jobs) = jobs[1]
        /\ Len(Tail(jobs)) = Len(jobs) - 1 /\ DOMAIN Tail(jobs) = 1..(Len(jobs) - 1)
        /\ \A i \in 1..(Len(jobs) - 1) : Tail(jobs)[i] = jobs[i + 1]
    BY <1>d, <2>1, Places
  <2>3. \A i \in DOMAIN Tail(jobs) : i + 1 \in DOMAIN jobs /\ Tail(jobs)[i] = jobs[i + 1]
    BY <2>2
  <2> QED BY <2>1, <2>2, <2>3, QueueTyped, <1>d
<1>e. ASSUME jobs # <<>>, jobs' = Tail(jobs), UNCHANGED <<reply, drawing>>
      PROVE  \A i \in DOMAIN jobs' : jobs'[i].job = "Now" =>
               i = Len(jobs') /\ Awaited(jobs[i].request)' /\ ~Drawn' /\ reply' = None
  <2> SUFFICES ASSUME NEW i \in DOMAIN jobs', jobs'[i].job = "Now", NEW r, r = jobs'[i].request
               PROVE  i = Len(jobs') /\ Awaited(r)' /\ ~Drawn' /\ reply' = None
    OBVIOUS
  <2>1. /\ i + 1 \in DOMAIN jobs /\ jobs'[i] = jobs[i + 1] /\ Len(jobs') = Len(jobs) - 1
        /\ Len(jobs) \in Nat /\ i \in Nat
    <3>1. jobs' \in Seq(Job)
      BY <1>d, <1>e, QueueTyped
    <3> QED BY <1>d, <1>e, <3>1
  <2>2. i + 1 = Len(jobs) /\ Awaited(r) /\ ~Drawn /\ reply = None
    BY <2>1 DEF Blocked
  <2>3. i = Len(jobs')
    BY <2>1, <2>2
  <2> QED BY <1>b, <1>e, <2>2, <2>3 DEF Drawn
<1>1. CASE AcceptRepaint
  <2> DEFINE r == Head(jobs).request
  <2>1. /\ drawing = None /\ jobs # <<>> /\ jobs' = Tail(jobs) /\ UNCHANGED <<reply, drawing>>
        /\ pending' = [pending EXCEPT ![r.id] = r]
    BY <1>1 DEF AcceptRepaint
  <2>2. reply = None /\ ~Drawn
    BY <2>1 DEF Blocked, Drawn
  <2>3. Blocked'
    BY <1>e, <2>1, <2>2 DEF Blocked, Drawn
  <2> HIDE DEF r
  <2>4. Keyed'
    BY <1>c, <2>1 DEF Keyed
  <2> QED BY <2>3, <2>4
<1>2. CASE AcceptNow
  <2>0. PICK r : r = Head(jobs).request
    OBVIOUS
  <2>1. /\ drawing = None /\ jobs # <<>> /\ jobs' = Tail(jobs) /\ reply' = reply
        /\ pending' = [p \in Panel |-> IF p = r.id THEN None ELSE pending[p]]
        /\ drawing' = [request |-> r, now |-> TRUE, picture |-> None] /\ Head(jobs).job = "Now"
    BY <1>2, <2>0 DEF AcceptNow, Take
  <2>2. Len(jobs) = 1 /\ Awaited(r) /\ reply = None
    BY <1>d, <2>0, <2>1 DEF Blocked
  <2>3. jobs' = <<>>
    BY <1>d, <2>1, <2>2
  <2>4. \A p \in Panel : p = wait'.id => pending'[p] = None
    BY <1>a, <2>1, <2>2 DEF Awaited
  <2>5. drawing'.request = r /\ Awaited(r)'
    BY <1>b, <2>1, <2>2
  <2>6. Blocked'
    BY <2>1, <2>2, <2>3, <2>4, <2>5 DEF Blocked, Awaited
  <2>7. Keyed'
    BY <2>1 DEF Keyed
  <2> QED BY <2>6, <2>7
<1>3. CASE AcceptForget
  <2> DEFINE s == Head(jobs).id
  <2>1. /\ drawing = None /\ jobs # <<>> /\ jobs' = Tail(jobs) /\ UNCHANGED <<reply, drawing>>
        /\ pending' = [p \in Panel |-> IF p = s THEN None ELSE pending[p]]
    BY <1>3 DEF AcceptForget
  <2>2. reply = None /\ ~Drawn
    BY <2>1 DEF Blocked, Drawn
  <2>3. Blocked'
    BY <1>e, <2>1, <2>2 DEF Blocked, Drawn
  <2>4. Keyed'
    BY <2>1 DEF Keyed
  <2> QED BY <2>3, <2>4
<1>4. CASE DrawNext
  <2>1. PICK q \in Due : pending' = [pending EXCEPT ![q] = None] /\ Take(pending[q], FALSE)
    BY <1>4 DEF DrawNext
  <2>2. drawing'.request = pending[q] /\ ~drawing'.now /\ q \in Panel /\ pending[q].id = q
    BY <2>1 DEF Take, Due, Keyed
  <2>3. jobs = <<>> /\ UNCHANGED <<jobs, reply>>
    BY <1>4 DEF DrawNext
  <2>4. reply # None => q # wait.id
    BY <2>1 DEF Blocked, Due
  <2>5. \A p \in Panel : pending[p] = None => pending'[p] = None
    BY <1>c, <2>1
  <2>6. \A p \in Panel : pending'[p] # None => pending'[p] = pending[p]
    BY <1>c, <2>1
  <2>7. reply # None => Awaited(reply.request)'
    BY <1>a, <2>3 DEF Blocked, Awaited
  <2>8. Blocked'
    <3>1. ~Drawn' /\ jobs' = <<>>
      BY <2>2, <2>3 DEF Drawn
    <3>2. reply' # None => /\ reply # None /\ wait' = wait
                           /\ \A p \in Panel : p = wait.id => pending[p] = None
      BY <1>a, <2>3 DEF Blocked
    <3>3. reply' # None => Awaited(reply.request)'
      BY <1>a, <2>3, <2>7 DEF Awaited
    <3>4. reply' # None => drawing'.request.id # wait'.id
      BY <2>2, <2>4, <3>2
    <3>5. \A p \in Panel : reply' # None /\ p = wait'.id => pending'[p] = None
      BY <2>5, <3>2
    <3> QED BY <3>1, <3>3, <3>4, <3>5 DEF Blocked
  <2>9. Keyed'
    BY <2>6 DEF Keyed
  <2> QED BY <2>8, <2>9
<1>5. CASE Rasterize
  <2>1. drawing \in Drawing /\ drawing' = [drawing EXCEPT !.picture = Stamp(drawing.request.content)]
        /\ drawing # None /\ UNCHANGED <<jobs, pending, reply>>
    BY <1>5 DEF Rasterize, TypeOK
  <2>2. drawing'.request = drawing.request /\ drawing'.now = drawing.now
    BY <2>1 DEF Drawing
  <2>3. drawing' # None
    <3>1. drawing' \in Drawing
      <4>1. Stamp(drawing.request.content) \in Nat
        BY DEF TypeOK, Stamp
      <4> QED BY <2>1, <4>1 DEF Drawing
    <3> QED BY <3>1, NoneAssumption
  <2>4. Blocked'
    BY <1>a, <2>1, <2>2, <2>3 DEF Blocked, Drawn, Awaited
  <2>5. Keyed'
    BY <2>1 DEF Keyed
  <2> QED BY <2>4, <2>5
<1>6. CASE Deliver
  <2> DEFINE frame == [request |-> drawing.request, picture |-> drawing.picture]
  <2>1. drawing # None /\ drawing' = None /\ UNCHANGED <<jobs, pending>>
        /\ (IF drawing.now THEN reply' = frame ELSE reply' = reply)
    BY <1>6 DEF Deliver
  <2>2. frame.request = drawing.request
    OBVIOUS
  <2> HIDE DEF frame
  <2>3. ASSUME drawing.now PROVE Blocked'
    <3>1. /\ Awaited(drawing.request) /\ reply = None /\ jobs' = <<>> /\ ~Drawn' /\ drawing' = None
          /\ \A p \in Panel : p = wait'.id => pending'[p] = None
      BY <1>a, <2>1, <2>3 DEF Blocked, Drawn
    <3>2. reply'.request = drawing.request
      BY <2>1, <2>2, <2>3
    <3>3. Awaited(reply.request)'
      BY <1>a, <3>1, <3>2 DEF Awaited
    <3> QED BY <3>1, <3>3 DEF Blocked
  <2>4. ASSUME ~drawing.now PROVE Blocked'
    <3>1. reply' = reply /\ ~Drawn' /\ drawing' = None /\ jobs' = jobs /\ pending' = pending
      BY <2>1, <2>4 DEF Drawn
    <3>2. \A i \in DOMAIN jobs' : jobs'[i].job = "Now" =>
            i = Len(jobs') /\ Awaited(jobs[i].request)' /\ reply' = None
      BY <1>a, <3>1 DEF Blocked, Awaited
    <3>3. reply' # None => /\ Awaited(reply.request)' /\ jobs' = <<>>
                           /\ \A p \in Panel : p = wait'.id => pending'[p] = None
      BY <1>a, <3>1 DEF Blocked, Awaited
    <3> QED BY <3>1, <3>2, <3>3 DEF Blocked
  <2>5. Keyed'
    BY <2>1 DEF Keyed
  <2> QED BY <2>3, <2>4, <2>5
<1> QED BY <1>1, <1>2, <1>3, <1>4, <1>5, <1>6 DEF Worker

(* A command that sizes the window of panel p.                             *)
SizesP(e, p) == e.cmd \in {"Create", "Resize", "Delete"} /\ e.id = p

(* The tick thread asks for repaints of the size it recorded of panel p,   *)
(* and sends what changes that size only with nothing left to repaint.     *)
LEMMA TickMeasured ==
  ASSUME TypeOK, Phased, Blocked, Keyed, Tick, NEW p \in Panel, Measured(p)
  PROVE  Measured(p)'
<1>a. UNCHANGED <<pending, drawing, window>>
  BY DEF Tick, BeginPass, StoreDrawn, NextPhase, Close, Exit, Enter, Skip, UpdateWall, ResizePanel,
         UpdatePanel, NowAnswered, workerVars, presenterVars
<1>b. jobs \in Seq(Job) /\ commands \in Seq(Command)
  BY DEF TypeOK
<1>c. ASSUME RepaintsIn(jobs', p) \subseteq RepaintsIn(jobs, p) PROVE Repaints(p)' \subseteq Repaints(p)
  BY <1>a, <1>c DEF Repaints
<1>d. ASSUME NEW t \in Seq(Command), commands' = commands \o t,
             \A k \in DOMAIN t : ~SizesP(t[k], p) /\ t[k].cmd # "UpdatePicture",
             RepaintsIn(jobs', p) \subseteq RepaintsIn(jobs, p),
             tracked'[p] = tracked[p] \/ tracked'[p] = None
      PROVE  Measured(p)'
  <2>1. \A r \in Repaints(p)' : WillMeasure(p, r.size, Len(commands) + 1)
    BY <1>c, <1>d DEF Measured
  <2>2. tracked'[p] # None => WillMeasure(p, tracked'[p].spec.size, Len(commands) + 1)
    BY <1>d DEF Measured
  <2> QED BY <1>a, <1>d, <2>1, <2>2, SendMeasured DEF SizesP
<1>e. ASSUME commands' = commands \/ \E e \in Command : /\ ~SizesP(e, p) /\ e.cmd # "UpdatePicture"
                                                        /\ commands' = Append(commands, e),
             jobs' = jobs \/ \E e \in Job : ~(e.job = "Repaint" /\ e.request.id = p) /\ jobs' = Append(jobs, e),
             tracked'[p] = tracked[p] \/ tracked'[p] = None
      PROVE  Measured(p)'
  <2>1. RepaintsIn(jobs', p) \subseteq RepaintsIn(jobs, p)
    <3>1. ASSUME NEW j \in Job, ~(j.job = "Repaint" /\ j.request.id = p), jobs' = Append(jobs, j)
          PROVE  RepaintsIn(jobs', p) \subseteq RepaintsIn(jobs, p)
      <4>1. RepaintsIn(Append(jobs, j), p) = RepaintsIn(jobs, p)
        BY <1>b, <3>1, JobRepaints
      <4> QED BY <3>1, <4>1
    <3>2. jobs' = jobs => RepaintsIn(jobs', p) \subseteq RepaintsIn(jobs, p)
      OBVIOUS
    <3> QED BY <1>e, <3>1, <3>2
  <2>2. CASE commands' = commands
    <3>1. <<>> \in Seq(Command) /\ commands' = commands \o <<>> /\ DOMAIN <<>> = {}
      BY <1>b, <2>2
    <3> QED BY <1>d, <1>e, <2>1, <3>1
  <2>3. ASSUME NEW e \in Command, ~SizesP(e, p), e.cmd # "UpdatePicture", commands' = Append(commands, e)
        PROVE  Measured(p)'
    <3>1. <<e>> \in Seq(Command) /\ commands' = commands \o <<e>> /\ DOMAIN <<e>> = {1} /\ <<e>>[1] = e
      BY <1>b, <2>3
    <3>2. \A k \in DOMAIN <<e>> : ~SizesP(<<e>>[k], p) /\ <<e>>[k].cmd # "UpdatePicture"
      BY <2>3, <3>1
    <3> HIDE DEF SizesP
    <3> QED BY <1>d, <1>e, <2>1, <3>1, <3>2
  <2> QED BY <1>e, <2>2, <2>3
<1>f. ASSUME NEW s \in Surface, AskNow(s), desired[s] # None, UNCHANGED <<commands, tracked>>
      PROVE  Measured(p)'
  <2>0. PICK e : e = [job |-> "Now", request |-> RequestFor(s, desired[s])]
    OBVIOUS
  <2>1. e \in Job /\ e.job # "Repaint" /\ jobs' = Append(jobs, e)
    BY <1>f, <2>0, RequestTyped, JobTyped DEF AskNow
  <2> QED BY <1>e, <1>f, <2>1
<1>1. CASE (\E layout \in Layouts : BeginPass(layout)) \/ StoreDrawn \/ Close \/ \E s \in Surface : Skip(s)
  <2>1. UNCHANGED <<commands, jobs, tracked>>
    BY <1>1 DEF BeginPass, StoreDrawn, Close, Skip
  <2> QED BY <1>e, <2>1
<1>2. CASE NextPhase
  <2>1. UNCHANGED <<jobs, tracked>> /\ (commands' = commands \/ commands' = Append(commands, [cmd |-> "Shutdown"]))
    BY <1>2 DEF NextPhase
  <2>2. [cmd |-> "Shutdown"] \in Command /\ ~SizesP([cmd |-> "Shutdown"], p)
    BY CommandTyped DEF SizesP
  <2> QED BY <1>e, <2>1, <2>2
<1>3. ASSUME NEW s \in Surface, Exit(s) PROVE Measured(p)'
  <2>0. PICK e, f : e = [cmd |-> "Delete", id |-> s] /\ f = [job |-> "Forget", id |-> s]
    OBVIOUS
  <2>1. /\ e \in Command /\ e.cmd = "Delete" /\ e.id = s /\ f \in Job /\ f.job # "Repaint"
        /\ commands' = Append(commands, e) /\ jobs' = Append(jobs, f)
    BY <1>3, <2>0, CommandTyped, JobTyped DEF Exit
  <2>2. tracked \in [Surface -> SurfaceState \cup {None}] /\ tracked' = [tracked EXCEPT ![s] = None]
    BY <1>3 DEF TypeOK, Exit
  <2>3. CASE s # p
    <3>1. tracked'[p] = tracked[p]
      BY <2>2, <2>3
    <3>2. ~SizesP(e, p)
      BY <2>1, <2>3 DEF SizesP
    <3> QED BY <1>e, <2>1, <3>1, <3>2
  <2>4. CASE s = p
    <3>1. /\ <<e>> \in Seq(Command) /\ commands' = commands \o <<e>> /\ <<e>> # <<>>
          /\ DOMAIN <<e>> = {1} /\ <<e>>[1] = e
      BY <1>b, <2>1
    <3>2. \A k \in DOMAIN <<e>> :
            /\ <<e>>[k].cmd # "UpdatePicture"
            /\ k > 1 => <<e>>[k].cmd \notin {"Create", "Resize", "Delete"}
      BY <2>1, <3>1
    <3> QED BY <1>a, <2>1, <2>4, <3>1, <3>2, SetMeasured
  <2> QED BY <2>3, <2>4
<1>4. ASSUME NEW s \in Surface, Enter(s) PROVE Measured(p)'
  BY <1>4, <1>f DEF Enter
<1>5. ASSUME NEW w \in Wall, UpdateWall(w) PROVE Measured(p)'
  <2>1. CASE WallChanged(w)
    BY <1>5, <2>1, <1>f DEF UpdateWall, Updating
  <2>2. CASE ~WallChanged(w)
    BY <1>5, <2>2, <1>e DEF UpdateWall
  <2> QED BY <2>1, <2>2
<1>6. ASSUME NEW q \in Panel, ResizePanel(q) PROVE Measured(p)'
  BY <1>6, <1>f DEF ResizePanel, Updating
<1>7. ASSUME NEW q \in Panel, UpdatePanel(q) PROVE Measured(p)'
  <2>0. PICK e, m, r : /\ r = RequestFor(q, desired[q])
                       /\ e = [job |-> "Repaint", request |-> r]
                       /\ m = [cmd |-> "Move", id |-> q, spec |-> desired[q]]
    OBVIOUS
  <2>1. /\ desired[q] # None /\ desired[q] \in SurfaceSpec /\ tracked[q] # None /\ desired[q].size = tracked[q].spec.size
        /\ commands' = commands \/ commands' = Append(commands, m)
        /\ jobs' = jobs \/ jobs' = Append(jobs, e)
    BY <1>7, <2>0, RequestTyped DEF UpdatePanel, Updating, Resized
  <2>2. e \in Job /\ e.request = r /\ r.id = q /\ r.size = desired[q].size
        /\ m \in Command /\ ~SizesP(m, p) /\ m.cmd # "UpdatePicture"
    <3>1. e \in Job /\ m \in Command
      BY <2>0, <2>1, RequestTyped, JobTyped, CommandTyped
    <3>2. m.cmd = "Move"
      BY <2>0
    <3>3. r.id = q /\ r.size = desired[q].size
      BY <2>0 DEF RequestFor
    <3> QED BY <2>0, <3>1, <3>2, <3>3 DEF SizesP
  <2>3. tracked \in [Surface -> SurfaceState \cup {None}]
        /\ \E b, st : tracked' = [tracked EXCEPT ![q] = [spec |-> desired[q], backdrop |-> b, pictures |-> st]]
    BY <1>7 DEF TypeOK, UpdatePanel, Record
  <2>4. CASE q # p
    <3>1. tracked'[p] = tracked[p]
      BY <2>3, <2>4
    <3> QED BY <1>e, <2>1, <2>2, <2>4, <3>1
  <2>5. CASE q = p
    <3>1. tracked'[p] # None => tracked'[p].spec.size = tracked[p].spec.size
      BY <2>1, <2>3, <2>5
    <3>2. WillMeasure(p, tracked[p].spec.size, Len(commands) + 1)
      BY <2>1, <2>5 DEF Measured
    <3>3. RepaintsIn(jobs', p) \subseteq RepaintsIn(jobs, p) \cup {r}
      BY <1>b, <2>1, <2>2, JobRepaints
    <3>4. Repaints(p)' \subseteq Repaints(p) \cup {r}
      BY <1>a, <3>3 DEF Repaints
    <3>5. \A g \in Repaints(p)' : WillMeasure(p, g.size, Len(commands) + 1)
      BY <2>1, <2>2, <2>5, <3>2, <3>4 DEF Measured
    <3>6. tracked'[p] # None => WillMeasure(p, tracked'[p].spec.size, Len(commands) + 1)
      BY <3>1, <3>2
    <3>7. PICK t \in Seq(Command) : /\ commands' = commands \o t
                                    /\ \A k \in DOMAIN t : t[k] = m
      <4>1. CASE commands' = commands
        <5>1. <<>> \in Seq(Command) /\ commands' = commands \o <<>> /\ DOMAIN <<>> = {}
          BY <1>b, <4>1
        <5> QED BY <5>1
      <4>2. CASE commands' = Append(commands, m)
        <5>1. <<m>> \in Seq(Command) /\ commands' = commands \o <<m>> /\ \A k \in DOMAIN <<m>> : <<m>>[k] = m
          BY <1>b, <2>2, <4>2
        <5> QED BY <5>1
      <4> QED BY <2>1, <4>1, <4>2
    <3> QED BY <1>a, <2>2, <3>5, <3>6, <3>7, SendMeasured DEF SizesP
  <2> QED BY <2>4, <2>5
<1>8. CASE NowAnswered
  <2>0. PICK s, t, spec : s = wait.id /\ t = WaitingForPixels(wait.id, reply) /\ spec = desired[s]
    OBVIOUS
  <2>1. /\ commands' = commands \o t /\ jobs' = jobs /\ wait # None /\ reply # None
        /\ \E b, st : tracked' = [tracked EXCEPT ![s] = [spec |-> spec, backdrop |-> b, pictures |-> st]]
    BY <1>8, <2>0 DEF NowAnswered, Record
  <2>2. s \in Surface /\ spec \in SurfaceSpec /\ reply \in Frame /\ generation + 1 \in Nat
    <3>1. generation \in Nat
      BY DEF TypeOK
    <3>2. s \in Surface /\ spec \in SurfaceSpec /\ reply \in Frame
      BY <2>0, <2>1 DEF TypeOK, Phased, Waiting
    <3> QED BY <3>1, <3>2
  <2>3. tracked \in [Surface -> SurfaceState \cup {None}]
    BY DEF TypeOK
  <2>4. jobs = <<>> /\ reply.request.id = s /\ reply.request.size = spec.size
    BY <2>0, <2>1 DEF Blocked, Awaited
  <2>5. PICK first, move : /\ first.id = s /\ move.id = s /\ move.cmd = "Move"
                           /\ first \in Command /\ first.cmd # "UpdatePicture"
                           /\ s \in Panel => /\ move \in Command
                                             /\ first.cmd \in {"Create", "Resize"}
                                             /\ first.frame.request.size = spec.size
                           /\ t = <<first>> \/ (s \in Panel /\ t = <<first, move>>)
    <3>1. CASE s \in Wall
      <4>1. PICK e : e = [cmd |-> "PaintWallpaper", id |-> s, spec |-> spec, published |-> generation + 1]
        OBVIOUS
      <4>2. e \in Command /\ e.id = s /\ e.cmd = "PaintWallpaper"
        BY <2>2, <3>1, <4>1, CommandTyped
      <4>3. t = <<e>>
        BY <2>0, <3>1, <4>1 DEF WaitingForPixels
      <4>4. s \notin Panel
        BY <3>1, SurfacesAssumption
      <4>5. PICK m : m = [cmd |-> "Move", id |-> s]
        OBVIOUS
      <4>6. m.cmd = "Move" /\ m.id = s
        BY <4>5
      <4> QED BY <4>2, <4>3, <4>4, <4>6
    <3>2. CASE s \notin Wall
      <4>1. PICK c, e, m : /\ c = (IF tracked[s] = None THEN "Create" ELSE "Resize")
                           /\ e = [cmd |-> c, id |-> s, spec |-> spec, frame |-> reply]
                           /\ m = [cmd |-> "Move", id |-> s, spec |-> spec]
        OBVIOUS
      <4>2. s \in Panel
        BY <2>2, <3>2
      <4>3. c \in {"Create", "Resize"} /\ e \in Command /\ e.cmd = c /\ e.id = s /\ e.frame = reply
        BY <2>2, <4>1, <4>2, CommandTyped
      <4>4. m \in Command /\ m.cmd = "Move" /\ m.id = s
        BY <2>2, <4>1, <4>2, CommandTyped
      <4>5. t = <<e>> \/ t = <<e, m>>
        BY <2>0, <3>2, <4>1 DEF WaitingForPixels
      <4> QED BY <2>4, <4>2, <4>3, <4>4, <4>5
    <3> QED BY <3>1, <3>2
  <2>6. t \in Seq(Command) /\ t # <<>> /\ t[1] = first /\ \A k \in DOMAIN t : k = 1 \/ (k > 1 /\ t[k] = move)
    <3>1. CASE t = <<first>>
      BY <2>5, <3>1
    <3>2. CASE s \in Panel /\ t = <<first, move>>
      BY <2>5, <3>2
    <3> QED BY <2>5, <3>1, <3>2
  <2>7. CASE s # p
    <3>1. tracked'[p] = tracked[p]
      BY <2>1, <2>3, <2>7
    <3>2. \A k \in DOMAIN t : ~SizesP(t[k], p) /\ t[k].cmd # "UpdatePicture"
      BY <2>5, <2>6, <2>7 DEF SizesP
    <3> QED BY <1>d, <2>1, <2>6, <3>1, <3>2
  <2>8. CASE s = p
    <3>1. RepaintsIn(jobs', p) = {}
      BY <2>1, <2>4 DEF RepaintsIn
    <3>2. pending[p] = None /\ (drawing # None => drawing.request.id # p)
      BY <2>0, <2>1, <2>8 DEF Blocked
    <3>3. Repaints(p)' = {}
      BY <1>a, <3>1, <3>2 DEF Repaints
    <3>4. tracked'[p] # None => tracked'[p].spec.size = spec.size
      BY <2>1, <2>3, <2>8
    <3>5. \A k \in DOMAIN t : /\ t[k].cmd # "UpdatePicture"
                              /\ k > 1 => t[k].cmd \notin {"Create", "Resize", "Delete"}
      BY <2>5, <2>6
    <3>6. t[1].cmd \in {"Create", "Resize"} /\ t[1].id = p /\ t[1].frame.request.size = spec.size
      BY <2>5, <2>6, <2>8
    <3> QED BY <1>a, <2>1, <2>6, <3>3, <3>4, <3>5, <3>6, SetMeasured
  <2> QED BY <2>7, <2>8
<1> QED BY <1>1, <1>2, <1>3, <1>4, <1>5, <1>6, <1>7, <1>8 DEF Tick

(* The worker sends a repaint of p it was asked for, and asks for nothing. *)
LEMMA WorkerMeasured ==
  ASSUME TypeOK, Keyed, Worker, NEW p \in Panel, Measured(p)
  PROVE  Measured(p)'
<1>a. UNCHANGED <<window, tracked>>
  BY DEF Worker, AcceptRepaint, AcceptNow, AcceptForget, DrawNext, Rasterize, Deliver,
         tickVars, presenterVars
<1>b. /\ jobs \in Seq(Job) /\ commands \in Seq(Command)
      /\ pending \in [Panel -> PanelRequest \cup {None}] /\ pending[p] # None => pending[p].id = p
  BY DEF TypeOK, Keyed
<1>c. ASSUME Repaints(p)' \subseteq Repaints(p), NEW t \in Seq(Command), commands' = commands \o t,
             \A k \in DOMAIN t : t[k].cmd = "UpdatePicture"
                                 /\ (t[k].id = p => t[k].frame.request \in Repaints(p))
      PROVE  Measured(p)'
  <2>1. \A r \in Repaints(p) : WillMeasure(p, r.size, Len(commands) + 1)
    BY DEF Measured
  <2>2. \A r \in Repaints(p)' : WillMeasure(p, r.size, Len(commands) + 1)
    BY <1>c, <2>1
  <2>3. tracked'[p] # None => WillMeasure(p, tracked'[p].spec.size, Len(commands) + 1)
    BY <1>a DEF Measured
  <2>4. \A k \in DOMAIN t :
          /\ ~(t[k].cmd \in {"Create", "Resize", "Delete"} /\ t[k].id = p)
          /\ t[k].cmd = "UpdatePicture" /\ t[k].id = p =>
               WillMeasure(p, t[k].frame.request.size, Len(commands) + 1)
    BY <1>c, <2>1
  <2> QED BY <1>a, <1>c, <2>2, <2>3, <2>4, SendMeasured
<1>d. ASSUME Repaints(p)' \subseteq Repaints(p), commands' = commands PROVE Measured(p)'
  <2>1. <<>> \in Seq(Command) /\ commands' = commands \o <<>> /\ DOMAIN <<>> = {}
    BY <1>b, <1>d
  <2> QED BY <1>c, <1>d, <2>1
<1>e. ASSUME jobs # <<>>, jobs' = Tail(jobs) PROVE RepaintsIn(jobs', p) \subseteq RepaintsIn(jobs, p)
  BY <1>b, <1>e, JobRepaints
<1>1. CASE AcceptRepaint
  <2>0. PICK r : r = Head(jobs).request
    OBVIOUS
  <2>1. /\ jobs # <<>> /\ jobs' = Tail(jobs) /\ UNCHANGED <<drawing, commands>>
        /\ Head(jobs).job = "Repaint" /\ pending' = [pending EXCEPT ![r.id] = r]
    BY <1>1, <2>0 DEF AcceptRepaint
  <2>2. r.id = p => r \in RepaintsIn(jobs, p)
    BY <1>b, <2>0, <2>1, JobRepaints
  <2>3. pending'[p] # None => pending'[p] \in Repaints(p)
    <3>1. CASE r.id = p
      BY <1>b, <2>1, <2>2, <3>1 DEF Repaints
    <3>2. CASE r.id # p
      BY <1>b, <2>1, <3>2 DEF Repaints
    <3> QED BY <3>1, <3>2
  <2>4. Repaints(p)' \subseteq Repaints(p)
    BY <1>e, <2>1, <2>3 DEF Repaints
  <2> QED BY <1>d, <2>1, <2>4
<1>2. CASE AcceptNow
  <2>0. PICK r : r = Head(jobs).request
    OBVIOUS
  <2>1. /\ jobs # <<>> /\ jobs' = Tail(jobs) /\ commands' = commands /\ drawing'.now
        /\ pending' = [q \in Panel |-> IF q = r.id THEN None ELSE pending[q]]
    BY <1>2, <2>0 DEF AcceptNow, Take
  <2>2. pending'[p] # None => pending'[p] = pending[p]
    BY <2>1
  <2>3. Repaints(p)' \subseteq Repaints(p)
    BY <1>e, <2>1, <2>2 DEF Repaints
  <2> QED BY <1>d, <2>1, <2>3
<1>3. CASE AcceptForget
  <2>0. PICK s : s = Head(jobs).id
    OBVIOUS
  <2>1. /\ jobs # <<>> /\ jobs' = Tail(jobs) /\ UNCHANGED <<drawing, commands>>
        /\ pending' = [q \in Panel |-> IF q = s THEN None ELSE pending[q]]
    BY <1>3, <2>0 DEF AcceptForget
  <2>2. pending'[p] # None => pending'[p] = pending[p]
    BY <2>1
  <2>3. Repaints(p)' \subseteq Repaints(p)
    BY <1>e, <2>1, <2>2 DEF Repaints
  <2> QED BY <1>d, <2>1, <2>3
<1>4. CASE DrawNext
  <2>1. PICK q \in Due : pending' = [pending EXCEPT ![q] = None] /\ Take(pending[q], FALSE)
    BY <1>4 DEF DrawNext
  <2>2. q \in Panel /\ pending[q] # None /\ pending[q].id = q /\ drawing'.request = pending[q]
    BY <2>1 DEF Take, Due, Keyed
  <2>3. UNCHANGED <<jobs, commands>>
    BY <1>4 DEF DrawNext
  <2>4. pending'[p] # None => pending'[p] = pending[p]
    BY <1>b, <2>1
  <2>5. drawing'.request.id = p => drawing'.request \in Repaints(p)
    BY <2>2 DEF Repaints
  <2>6. Repaints(p)' \subseteq Repaints(p)
    BY <2>3, <2>4, <2>5 DEF Repaints
  <2> QED BY <1>d, <2>3, <2>6
<1>5. CASE Rasterize
  <2>1. drawing \in Drawing /\ drawing' = [drawing EXCEPT !.picture = Stamp(drawing.request.content)]
        /\ drawing # None /\ UNCHANGED <<jobs, pending, commands>>
    BY <1>5 DEF Rasterize, TypeOK
  <2>2. drawing'.request = drawing.request /\ drawing'.now = drawing.now
    BY <2>1 DEF Drawing
  <2>3. Repaints(p)' \subseteq Repaints(p)
    BY <2>1, <2>2 DEF Repaints
  <2> QED BY <1>d, <2>1, <2>3
<1>6. CASE Deliver
  <2>0. PICK e, frame : /\ frame = [request |-> drawing.request, picture |-> drawing.picture]
                        /\ e = [cmd |-> "UpdatePicture", id |-> drawing.request.id, frame |-> frame]
    OBVIOUS
  <2>1. /\ drawing \in Drawing /\ drawing.picture # None /\ drawing' = None /\ UNCHANGED <<jobs, pending>>
        /\ drawing # None
        /\ drawing.now => commands' = commands
        /\ ~drawing.now => commands' = Append(commands, e)
    BY <1>6, <2>0 DEF Deliver, TypeOK
  <2>2. Repaints(p)' \subseteq Repaints(p)
    BY <2>1 DEF Repaints
  <2>3. CASE drawing.now
    BY <1>d, <2>1, <2>2, <2>3
  <2>4. CASE ~drawing.now
    <3>1. frame \in Frame /\ drawing.request.id \in Panel
      BY <2>0, <2>1, <2>4 DEF Drawing, Frame, PanelRequest
    <3>2. e \in Command /\ e.cmd = "UpdatePicture" /\ e.id = drawing.request.id /\ e.frame.request = drawing.request
      BY <2>0, <3>1, CommandTyped
    <3>3. e.id = p => e.frame.request \in Repaints(p)
      BY <2>1, <2>4, <3>2 DEF Repaints
    <3>4. PICK t : t = <<e>>
      OBVIOUS
    <3>5. t \in Seq(Command) /\ commands' = commands \o t /\ \A k \in DOMAIN t : t[k] = e
      <4>1. commands' = Append(commands, e) /\ e \in Command /\ commands \in Seq(Command)
        BY <1>b, <2>1, <2>4, <3>2
      <4> QED BY <3>4, <4>1
    <3>6. \A k \in DOMAIN t : t[k].cmd = "UpdatePicture"
                              /\ (t[k].id = p => t[k].frame.request \in Repaints(p))
      BY <3>2, <3>3, <3>5
    <3> QED BY <1>c, <2>2, <3>5, <3>6
  <2> QED BY <2>3, <2>4
<1> QED BY <1>1, <1>2, <1>3, <1>4, <1>5, <1>6 DEF Worker

(* The presenter gives the window of p the size each command says, as long *)
(* as its calls do not fail.                                               *)
LEMMA PresenterMeasured ==
  ASSUME TypeOK, Presenter, NEW p \in Panel, p \notin Unreliable, Measured(p)
  PROVE  Measured(p)'
<1>0. PICK c : c = Head(commands)
  OBVIOUS
<1>1. /\ commands # <<>> /\ commands' = Tail(commands)
      /\ UNCHANGED <<tickVars, jobs, reply, workerVars>>
  BY DEF Presenter, ApplyCreate, ApplyMove, ApplyResize, ApplyDelete, ApplyUpdatePicture,
         ApplyPaintWallpaper, ApplyShutdown, Received
<1>2. commands[1] = c /\ c \in Command
  <2>1. commands \in Seq(Command)
    BY DEF TypeOK
  <2> QED BY <1>0, <1>1, <2>1, Places, QueueTyped
<1>3. window \in [Panel -> Window \cup {None}] /\ \A q \in Panel : window[q] # None => window[q] \in Window
  BY DEF TypeOK
<1>4. ASSUME c.cmd # "Shutdown", c.id = p, NEW outcome \in Outcome PROVE outcome = "ok"
  BY <1>0, <1>4 DEF Outcome, MayFail
<1>5. ASSUME ~Sizes(p, 1), window'[p] # None => window[p] # None /\ window'[p].size = window[p].size
      PROVE  Heeds(p)
  BY <1>5 DEF Heeds
<1>6. ASSUME Sizes(p, 1), c.cmd # "Delete", window'[p] # None => window'[p].size = c.frame.request.size
      PROVE  Heeds(p)
  BY <1>2, <1>6 DEF Heeds
<1>7. ASSUME NEW outcome \in Outcome, ApplyCreate(outcome) PROVE Heeds(p)
  <2>1. /\ c.cmd = "Create" /\ c.id \in Panel
        /\ window' = IF outcome # "ok" THEN window
                     ELSE [window EXCEPT ![c.id] =
                       [size |-> c.frame.request.size, place |-> c.spec.place, frame |-> c.frame]]
    BY <1>0, <1>2, <1>7 DEF ApplyCreate, Received, Command
  <2>2. CASE c.id = p
    <3>1. Sizes(p, 1) /\ outcome = "ok"
      BY <1>2, <1>4, <2>1, <2>2 DEF Sizes
    <3>2. window'[p].size = c.frame.request.size
      BY <1>3, <2>1, <2>2, <3>1
    <3> QED BY <1>6, <2>1, <3>1, <3>2
  <2>3. CASE c.id # p
    <3>1. ~Sizes(p, 1) /\ window'[p] = window[p]
      BY <1>2, <1>3, <2>1, <2>3 DEF Sizes
    <3> QED BY <1>5, <3>1
  <2> QED BY <2>2, <2>3
<1>8. ASSUME NEW outcome \in Outcome, ApplyMove(outcome) PROVE Heeds(p)
  <2>1. c.cmd = "Move"
    BY <1>0, <1>8 DEF ApplyMove, Received
  <2>2. window'[p] # None => window[p] # None /\ window'[p].size = window[p].size
    BY <1>3, <1>8 DEF ApplyMove, Window
  <2>3. ~Sizes(p, 1)
    BY <1>2, <2>1 DEF Sizes
  <2> QED BY <1>5, <2>2, <2>3
<1>9. ASSUME NEW outcome \in Outcome, ApplyResize(outcome) PROVE Heeds(p)
  <2>1. /\ c.cmd = "Resize"
        /\ \/ (outcome = "geometry fails" \/ window[c.id] = None) /\ window' = window
           \/ window[c.id] # None /\ window' = [window EXCEPT ![c.id].size = c.frame.request.size]
           \/ /\ window[c.id] # None
              /\ window' = [window EXCEPT ![c.id].size = c.frame.request.size, ![c.id].frame = c.frame]
    BY <1>0, <1>9 DEF ApplyResize, Received
  <2>2. CASE c.id = p
    <3>1. Sizes(p, 1) /\ outcome = "ok"
      BY <1>2, <1>4, <2>1, <2>2 DEF Sizes
    <3>2. window'[p] # None => window'[p].size = c.frame.request.size
      BY <1>3, <2>1, <2>2, <3>1 DEF Window
    <3> QED BY <1>6, <2>1, <3>1, <3>2
  <2>3. CASE c.id # p
    <3>1. ~Sizes(p, 1) /\ window'[p] = window[p]
      BY <1>2, <1>3, <2>1, <2>3 DEF Sizes
    <3> QED BY <1>5, <3>1
  <2> QED BY <2>2, <2>3
<1>10. ASSUME ApplyDelete PROVE Heeds(p)
  <2>1. c.cmd = "Delete" /\ window' = [q \in Panel |-> IF q = c.id THEN None ELSE window[q]]
    BY <1>0, <1>10 DEF ApplyDelete, Received
  <2>2. CASE c.id = p
    BY <2>1, <2>2 DEF Heeds
  <2>3. CASE c.id # p
    <3>1. ~Sizes(p, 1) /\ window'[p] = window[p]
      BY <1>2, <2>1, <2>3 DEF Sizes
    <3> QED BY <1>5, <3>1
  <2> QED BY <2>2, <2>3
<1>11. ASSUME NEW outcome \in Outcome, ApplyUpdatePicture(outcome) PROVE Heeds(p)
  <2>1. /\ c.cmd = "UpdatePicture"
        /\ \/ window' = window
           \/ window[c.id] # None /\ window' = [window EXCEPT ![c.id].frame = c.frame]
    BY <1>0, <1>11 DEF ApplyUpdatePicture, Received, Fits
  <2>2. window'[p] # None => window[p] # None /\ window'[p].size = window[p].size
    BY <1>3, <2>1 DEF Window
  <2>3. ~Sizes(p, 1)
    BY <1>2, <2>1 DEF Sizes
  <2> QED BY <1>5, <2>2, <2>3
<1>12. ASSUME (\E outcome \in Outcome : ApplyPaintWallpaper(outcome)) \/ ApplyShutdown PROVE Heeds(p)
  <2>1. c.cmd \in {"PaintWallpaper", "Shutdown"} /\ window' = window
    BY <1>0, <1>12 DEF ApplyPaintWallpaper, ApplyShutdown, Received
  <2>2. ~Sizes(p, 1)
    BY <1>2, <2>1 DEF Sizes
  <2> QED BY <1>5, <2>1, <2>2
<1>13. Heeds(p)
  BY <1>7, <1>8, <1>9, <1>10, <1>11, <1>12 DEF Presenter
<1> QED BY <1>1, <1>13, AppliedMeasured

(* A repaint at the head finds a window of its size, if any.               *)
LEMMA SizesFit == TypeOK /\ SInv => StaleSizeOnlyWhenGone
<1> SUFFICES ASSUME TypeOK, SInv, commands # <<>>, Head(commands).cmd = "UpdatePicture",
                    window[Head(commands).id] # None, Head(commands).id \notin Unreliable
             PROVE  Fits(Head(commands))
  BY DEF StaleSizeOnlyWhenGone
<1>0. PICK c, z : c = Head(commands) /\ z = c.frame.request.size
  OBVIOUS
<1>1. /\ commands \in Seq(Command) /\ 1 \in DOMAIN commands /\ commands[1] = c /\ c \in Command
      /\ \A j \in DOMAIN commands : ~(j < 1)
  <2>1. commands \in Seq(Command)
    BY DEF TypeOK
  <2>2. Len(commands) >= 1 /\ DOMAIN commands = 1..Len(commands) /\ Head(commands) = commands[1] /\ Len(commands) \in Nat
    BY <2>1, Places
  <2> QED BY <1>0, <2>1, <2>2, QueueTyped
<1>2. c.cmd = "UpdatePicture" /\ c.id \in Panel \ Unreliable
  BY <1>0, <1>1 DEF Command
<1>3. Measured(c.id)
  BY <1>2 DEF SInv
<1>4. WillMeasure(c.id, z, 1)
  BY <1>0, <1>1, <1>2, <1>3 DEF Measured
<1>5. window[c.id].size = z
  BY <1>0, <1>1, <1>4 DEF WillMeasure
<1> QED BY <1>0, <1>5 DEF Fits

(* SInv is inductive, along with IInv.                                     *)
LEMMA SizesHold == Spec => [](IInv /\ SInv)
<1>1. Init => SInv
  <2> SUFFICES ASSUME Init PROVE SInv
    OBVIOUS
  <2>1. Blocked /\ Keyed
    BY DEF Init, Blocked, Keyed, Drawn
  <2>2. ASSUME NEW p \in Panel PROVE Measured(p)
    <3>1. commands = <<>> /\ jobs = <<>> /\ drawing = None /\ pending[p] = None /\ tracked[p] = None
      BY DEF Init
    <3>2. Repaints(p) = {}
      BY <3>1 DEF Repaints, RepaintsIn
    <3> QED BY <3>1, <3>2 DEF Measured
  <2> QED BY <2>1, <2>2 DEF SInv
<1>2. IInv /\ SInv /\ [Next]_vars => SInv'
  <2> SUFFICES ASSUME TypeOK, Phased, Blocked, Keyed, \A p \in Panel \ Unreliable : Measured(p),
                      [Next]_vars
               PROVE  Blocked' /\ Keyed' /\ \A p \in Panel \ Unreliable : Measured(p)'
    BY DEF IInv, SInv
  <2>1. CASE Tick
    <3>1. pending' = pending
      BY <2>1 DEF Tick, BeginPass, StoreDrawn, NextPhase, Close, Exit, Enter, Skip, UpdateWall,
                  ResizePanel, UpdatePanel, NowAnswered, workerVars
    <3>2. Keyed'
      BY <3>1 DEF Keyed
    <3> QED BY <2>1, <3>2, TickBlocked, TickMeasured
  <2>2. CASE Worker
    BY <2>2, WorkerBlocked, WorkerMeasured
  <2>3. ASSUME UNCHANGED <<wait, desired, jobs, drawing, reply, pending>> PROVE Blocked' /\ Keyed'
    BY <2>3 DEF Blocked, Keyed, Drawn, Awaited
  <2>4. CASE Presenter
    <3>1. UNCHANGED <<wait, desired, jobs, drawing, reply, pending>>
      BY <2>4 DEF Presenter, ApplyCreate, ApplyMove, ApplyResize, ApplyDelete, ApplyUpdatePicture,
                  ApplyPaintWallpaper, ApplyShutdown, Received, tickVars, workerVars
    <3> QED BY <2>3, <2>4, <3>1, PresenterMeasured
  <2>5. ASSUME UNCHANGED <<wait, desired, jobs, drawing, reply, pending, commands, window, tracked>>
        PROVE  \A p \in Panel \ Unreliable : Measured(p)'
    <3>1. \A p, z, i : WillMeasure(p, z, i) => WillMeasure(p, z, i)'
      BY <2>5 DEF WillMeasure, Sizes
    <3>2. \A p : Repaints(p)' = Repaints(p)
      BY <2>5 DEF Repaints
    <3> QED BY <2>5, <3>1, <3>2 DEF Measured
  <2>6. ASSUME NEW p \in Panel, FloorElapses(p)
        PROVE  UNCHANGED <<wait, desired, jobs, drawing, reply, pending, commands, window, tracked>>
    BY <2>6 DEF FloorElapses, tickVars, presenterVars
  <2>7. CASE UNCHANGED vars
    BY <2>3, <2>5, <2>7 DEF vars, tickVars, workerVars, presenterVars
  <2> QED BY <2>1, <2>2, <2>3, <2>4, <2>5, <2>6, <2>7 DEF Next, Stopped
<1> QED BY <1>1, <1>2, Invariance, PTL DEF Spec

(* A repaint meets the size it was drawn for on every window there is,     *)
(* whatever panels, sizes and layouts there are, and whichever other       *)
(* surfaces fail: the window check only catches repaints of deleted panels *)
(* (presentation/mod.rs:227-240, worker.rs:184-189).                       *)
THEOREM SizesAgree == Spec => []StaleSizeOnlyWhenGone
<1>1. IInv => TypeOK
  BY DEF IInv
<1> QED BY <1>1, SizesFit, SizesHold, PTL

-----------------------------------------------------------------------------
(* What is carried for a panel is carried in the order it was asked for.   *)

(* The requests for panel p in a queue of jobs, and the frames for it in   *)
(* one of commands.                                                        *)
JobsOf(q, p) ==
  {q[i].request : i \in {k \in DOMAIN q : q[k].job # "Forget" /\ q[k].request.id = p}}
FramesOf(q, p) ==
  {q[i].frame : i \in {k \in DOMAIN q : q[k].cmd \in Framed /\ q[k].id = p}}

Of(frames) == {f.request : f \in frames}

(* Those being drawn, those drawn for the tick thread, in the slot, shown. *)
Being(p) == IF drawing # None /\ drawing.request.id = p THEN {drawing.request} ELSE {}
Answer(p) == IF reply # None /\ reply.request.id = p THEN {reply.request} ELSE {}
Slot(p) == {r \in {pending[p]} : r # None}
Painted(p) == IF window[p] # None THEN {window[p].frame} ELSE {}

Before(A, B) == \A q \in A, r \in B : q.seq < r.seq

SortedJobs(q, p) ==
  \A i, j \in DOMAIN q :
    i < j /\ q[i].job # "Forget" /\ q[i].request.id = p
          /\ q[j].job # "Forget" /\ q[j].request.id = p => q[i].request.seq < q[j].request.seq
SortedFrames(q, p) ==
  \A i, j \in DOMAIN q :
    i < j /\ q[i].cmd \in Framed /\ q[i].id = p /\ q[j].cmd \in Framed /\ q[j].id = p =>
      q[i].frame.request.seq < q[j].frame.request.seq

(* The older a request for p is, the nearer it is to the screen.           *)
Aged(p) ==
  /\ Before(Of(Painted(p)), Of(FramesOf(commands, p)))
  /\ Before(Of(Painted(p)) \cup Of(FramesOf(commands, p)),
            Being(p) \cup Answer(p) \cup Slot(p) \cup JobsOf(jobs, p))
  /\ Before(Being(p), Slot(p) \cup JobsOf(jobs, p))
  /\ Before(Slot(p), JobsOf(jobs, p))
  /\ SortedJobs(jobs, p) /\ SortedFrames(commands, p)

(* A number names one request.                                             *)
Numbered(p) ==
  /\ \A q \in Carried(p) : q.seq <= asked
  /\ \A q, r \in Carried(p) : q.seq = r.seq => q = r

(* What the tick thread waits for is the newest request, of the spec it    *)
(* will record, and drawn with the Picture it will record.                 *)
Answers(r) == r.content = desired[wait.id].content /\ r.backdrop = wait.backdrop /\ r.seq = asked

Answering ==
  /\ \A i \in DOMAIN jobs : jobs[i].job = "Now" => Answers(jobs[i].request)
  /\ Drawn => /\ Answers(drawing.request)
              /\ drawing.picture # None => drawing.picture = wait.pictures
  /\ reply # None => Answers(reply.request) /\ reply.picture = wait.pictures
  /\ wait # None => wait.pictures = Stamp(desired[wait.id].content)

(* Nothing that is tracked is about to be forgotten.                       *)
Forgotten == \A i \in DOMAIN jobs : jobs[i].job = "Forget" => tracked[jobs[i].id] = None

(* Once all commands are applied, panel p has a window.                    *)
Deletes(p, i) == commands[i].cmd = "Delete" /\ commands[i].id = p
Lives(p) ==
  \/ window[p] # None /\ \A j \in DOMAIN commands : ~Deletes(p, j)
  \/ \E j \in DOMAIN commands :
       /\ commands[j].cmd = "Create" /\ commands[j].id = p
       /\ \A k \in DOMAIN commands : j < k => ~Deletes(p, k)

(* The newest request is of what was recorded.                             *)
Top(p, r) == \A q \in Carried(p) : q.seq <= r.seq
Matches(p, r) == /\ r.content = tracked[p].spec.content
                 /\ r.size = tracked[p].spec.size
                 /\ r.backdrop = tracked[p].backdrop
Told(p) == \E r \in Carried(p) : Top(p, r) /\ Matches(p, r)

(* Its picture, once it is drawn, is not older than what was recorded.     *)
Draft(p) == IF drawing # None /\ drawing.request.id = p /\ drawing.picture # None
              THEN {[request |-> drawing.request, picture |-> drawing.picture]} ELSE {}
Fetched(p) == IF reply # None /\ reply.request.id = p THEN {reply} ELSE {}
Pictures(p) == Draft(p) \cup Fetched(p) \cup FramesOf(commands, p) \cup Painted(p)
Fresh(p) == \A f \in Pictures(p) : Top(p, f.request) => f.picture >= tracked[p].pictures
Stamped(p) == tracked[p].pictures <= Stamp(tracked[p].spec.content)

Recorded(p) ==
  /\ tracked[p] # None => Lives(p) /\ Stamped(p)
  /\ Settled(p) => Told(p) /\ Fresh(p)

(* A step only makes requests for p give way to later ones.                *)
Supersedes(p) == /\ Carried(p)' \subseteq Carried(p)
                 /\ \A q \in Carried(p) : \E r \in Carried(p)' : q.seq <= r.seq

NInv ==
  /\ Answering /\ Forgotten
  /\ \A p \in Panel : Aged(p) /\ Numbered(p)
  /\ \A p \in Panel \ Unreliable : Recorded(p)

(* What is carried for a panel, place by place: numbered requests.         *)
LEMMA CarriedPlaces ==
  ASSUME TypeOK, NEW p \in Panel
  PROVE  /\ Carried(p) = JobsOf(jobs, p) \cup Of(FramesOf(commands, p)) \cup Slot(p) \cup Being(p)
                           \cup Answer(p) \cup Of(Painted(p))
         /\ \A r \in Carried(p) : r \in Request /\ r.seq \in Nat /\ 0 < r.seq
<1>1. Carried(p) = JobsOf(jobs, p) \cup Of(FramesOf(commands, p)) \cup Slot(p) \cup Being(p)
                     \cup Answer(p) \cup Of(Painted(p))
  BY DEF Carried, JobsOf, FramesOf, Slot, Being, Answer, Painted, Framed, Of
<1>2. jobs \in Seq(Job) /\ commands \in Seq(Command)
  BY DEF TypeOK
<1>3. ASSUME NEW r \in JobsOf(jobs, p) PROVE r \in Request
  <2>1. PICK i \in DOMAIN jobs : jobs[i].job # "Forget" /\ r = jobs[i].request
    BY DEF JobsOf
  <2>2. jobs[i] \in Job
    BY <1>2
  <2> QED BY <2>1, <2>2 DEF Job, PanelRequest
<1>4. ASSUME NEW r \in Of(FramesOf(commands, p)) PROVE r \in Request
  <2>1. PICK i \in DOMAIN commands : commands[i].cmd \in Framed /\ r = commands[i].frame.request
    BY DEF FramesOf, Of
  <2> QED BY <2>1, RequestsTyped
<1>5. ASSUME NEW r \in Slot(p) \cup Being(p) \cup Answer(p) \cup Of(Painted(p)) PROVE r \in Request
  BY <1>5 DEF TypeOK, Slot, Being, Answer, Painted, Of, Drawing, Frame, Window, PanelRequest
<1>6. \A r \in Request : r.seq \in Nat /\ 0 < r.seq
  BY DEF Request
<1> QED BY <1>1, <1>3, <1>4, <1>5, <1>6

(* The jobs for p, as the queue grows and shrinks.                         *)
LEMMA JobsQueue ==
  ASSUME NEW q \in Seq(Job), NEW p
  PROVE  /\ \A e \in Job :
              /\ JobsOf(Append(q, e), p) =
                   JobsOf(q, p) \cup (IF e.job # "Forget" /\ e.request.id = p THEN {e.request} ELSE {})
              /\ SortedJobs(q, p) /\ (e.job # "Forget" /\ e.request.id = p => Before(JobsOf(q, p), {e.request}))
                   => SortedJobs(Append(q, e), p)
         /\ q # <<>> =>
              /\ JobsOf(q, p) = JobsOf(Tail(q), p) \cup
                   (IF Head(q).job # "Forget" /\ Head(q).request.id = p THEN {Head(q).request} ELSE {})
              /\ SortedJobs(q, p) =>
                   /\ SortedJobs(Tail(q), p)
                   /\ Head(q).job # "Forget" /\ Head(q).request.id = p =>
                        Before({Head(q).request}, JobsOf(Tail(q), p))
<1>1. ASSUME NEW e \in Job
      PROVE  /\ JobsOf(Append(q, e), p) =
                   JobsOf(q, p) \cup (IF e.job # "Forget" /\ e.request.id = p THEN {e.request} ELSE {})
             /\ SortedJobs(q, p) /\ (e.job # "Forget" /\ e.request.id = p => Before(JobsOf(q, p), {e.request}))
                   => SortedJobs(Append(q, e), p)
  <2>1. /\ DOMAIN Append(q, e) = 1..(Len(q) + 1) /\ DOMAIN q = 1..Len(q) /\ Len(q) \in Nat
        /\ Append(q, e)[Len(q) + 1] = e
        /\ \A i \in 1..Len(q) : Append(q, e)[i] = q[i]
    BY AppendProperties
  <2>2. /\ \A i \in DOMAIN Append(q, e) :
             (i = Len(q) + 1 /\ Append(q, e)[i] = e) \/ (i \in DOMAIN q /\ Append(q, e)[i] = q[i])
        /\ \A i \in DOMAIN q : i \in DOMAIN Append(q, e) /\ Append(q, e)[i] = q[i] /\ i < Len(q) + 1
        /\ Len(q) + 1 \in DOMAIN Append(q, e)
    BY <2>1
  <2>3. JobsOf(Append(q, e), p) \subseteq
          JobsOf(q, p) \cup (IF e.job # "Forget" /\ e.request.id = p THEN {e.request} ELSE {})
    BY <2>2 DEF JobsOf
  <2>4. JobsOf(q, p) \subseteq JobsOf(Append(q, e), p)
    BY <2>2 DEF JobsOf
  <2>5. e.job # "Forget" /\ e.request.id = p => e.request \in JobsOf(Append(q, e), p)
    BY <2>1, <2>2 DEF JobsOf
  <2>6. ASSUME SortedJobs(q, p), e.job # "Forget" /\ e.request.id = p => Before(JobsOf(q, p), {e.request})
        PROVE  SortedJobs(Append(q, e), p)
    <3> SUFFICES ASSUME NEW i \in DOMAIN Append(q, e), NEW j \in DOMAIN Append(q, e), i < j,
                        Append(q, e)[i].job # "Forget", Append(q, e)[i].request.id = p,
                        Append(q, e)[j].job # "Forget", Append(q, e)[j].request.id = p
                 PROVE  Append(q, e)[i].request.seq < Append(q, e)[j].request.seq
      BY DEF SortedJobs
    <3>1. i \in DOMAIN q /\ Append(q, e)[i] = q[i]
      BY <2>1, <2>2
    <3>2. CASE j \in DOMAIN q
      <4>1. Append(q, e)[j] = q[j]
        BY <2>2, <3>2
      <4> QED BY <2>6, <3>1, <3>2, <4>1 DEF SortedJobs
    <3>3. CASE j \notin DOMAIN q
      <4>1. Append(q, e)[j] = e
        BY <2>2, <3>3
      <4>2. q[i].request \in JobsOf(q, p)
        BY <3>1 DEF JobsOf
      <4> QED BY <2>6, <3>1, <4>1, <4>2 DEF Before
    <3> QED BY <3>2, <3>3
  <2> QED BY <2>3, <2>4, <2>5, <2>6
<1>2. ASSUME q # <<>>
      PROVE  /\ JobsOf(q, p) = JobsOf(Tail(q), p) \cup
                   (IF Head(q).job # "Forget" /\ Head(q).request.id = p THEN {Head(q).request} ELSE {})
             /\ SortedJobs(q, p) =>
                   /\ SortedJobs(Tail(q), p)
                   /\ Head(q).job # "Forget" /\ Head(q).request.id = p =>
                        Before({Head(q).request}, JobsOf(Tail(q), p))
  <2>1. /\ Len(q) \in Nat /\ DOMAIN q = 1..Len(q) /\ Len(q) >= 1 /\ Head(q) = q[1]
        /\ DOMAIN Tail(q) = 1..(Len(q) - 1)
        /\ \A i \in 1..(Len(q) - 1) : Tail(q)[i] = q[i + 1]
    BY <1>2, Places
  <2>2. /\ \A i \in DOMAIN Tail(q) : i + 1 \in DOMAIN q /\ Tail(q)[i] = q[i + 1] /\ 1 < i + 1 /\ i \in Nat
        /\ \A i \in DOMAIN q : i = 1 \/ (i - 1 \in DOMAIN Tail(q) /\ Tail(q)[i - 1] = q[i])
        /\ 1 \in DOMAIN q
    BY <2>1
  <2>3. JobsOf(Tail(q), p) \subseteq JobsOf(q, p)
    BY <2>2 DEF JobsOf
  <2>4. Head(q).job # "Forget" /\ Head(q).request.id = p => Head(q).request \in JobsOf(q, p)
    BY <2>1, <2>2 DEF JobsOf
  <2>5. JobsOf(q, p) \subseteq JobsOf(Tail(q), p) \cup
          (IF Head(q).job # "Forget" /\ Head(q).request.id = p THEN {Head(q).request} ELSE {})
    <3>1. ASSUME NEW i \in DOMAIN q, q[i].job # "Forget", q[i].request.id = p, i # 1
          PROVE  q[i].request \in JobsOf(Tail(q), p)
      BY <2>2, <3>1 DEF JobsOf
    <3>2. \A i \in DOMAIN q : i = 1 => q[i] = Head(q)
      BY <2>1
    <3> QED BY <3>1, <3>2 DEF JobsOf
  <2>6. ASSUME SortedJobs(q, p) PROVE SortedJobs(Tail(q), p)
    <3> SUFFICES ASSUME NEW i \in DOMAIN Tail(q), NEW j \in DOMAIN Tail(q), i < j,
                        Tail(q)[i].job # "Forget", Tail(q)[i].request.id = p,
                        Tail(q)[j].job # "Forget", Tail(q)[j].request.id = p
                 PROVE  Tail(q)[i].request.seq < Tail(q)[j].request.seq
      BY DEF SortedJobs
    <3>1. i + 1 \in DOMAIN q /\ j + 1 \in DOMAIN q /\ i + 1 < j + 1
          /\ Tail(q)[i] = q[i + 1] /\ Tail(q)[j] = q[j + 1]
      BY <2>2
    <3> QED BY <2>6, <3>1 DEF SortedJobs
  <2>7. ASSUME SortedJobs(q, p), Head(q).job # "Forget", Head(q).request.id = p
        PROVE  Before({Head(q).request}, JobsOf(Tail(q), p))
    <3> SUFFICES ASSUME NEW i \in DOMAIN Tail(q), Tail(q)[i].job # "Forget", Tail(q)[i].request.id = p
                 PROVE  Head(q).request.seq < Tail(q)[i].request.seq
      BY DEF Before, JobsOf
    <3> QED BY <2>1, <2>2, <2>7 DEF SortedJobs
  <2> QED BY <2>3, <2>4, <2>5, <2>6, <2>7
<1> QED BY <1>1, <1>2

(* The frames for p, as the queue of commands grows and shrinks.           *)
LEMMA FramesQueue ==
  ASSUME NEW q \in Seq(Command), NEW p
  PROVE  /\ \A e \in Command :
              /\ FramesOf(Append(q, e), p) =
                   FramesOf(q, p) \cup (IF e.cmd \in Framed /\ e.id = p THEN {e.frame} ELSE {})
              /\ SortedFrames(q, p) /\ (e.cmd \in Framed /\ e.id = p => Before(Of(FramesOf(q, p)), {e.frame.request}))
                   => SortedFrames(Append(q, e), p)
         /\ q # <<>> =>
              /\ FramesOf(q, p) = FramesOf(Tail(q), p) \cup
                   (IF Head(q).cmd \in Framed /\ Head(q).id = p THEN {Head(q).frame} ELSE {})
              /\ SortedFrames(q, p) =>
                   /\ SortedFrames(Tail(q), p)
                   /\ Head(q).cmd \in Framed /\ Head(q).id = p =>
                        Before({Head(q).frame.request}, Of(FramesOf(Tail(q), p)))
<1>1. ASSUME NEW e \in Command
      PROVE  /\ FramesOf(Append(q, e), p) =
                   FramesOf(q, p) \cup (IF e.cmd \in Framed /\ e.id = p THEN {e.frame} ELSE {})
             /\ SortedFrames(q, p) /\ (e.cmd \in Framed /\ e.id = p => Before(Of(FramesOf(q, p)), {e.frame.request}))
                   => SortedFrames(Append(q, e), p)
  <2>1. /\ DOMAIN Append(q, e) = 1..(Len(q) + 1) /\ DOMAIN q = 1..Len(q) /\ Len(q) \in Nat
        /\ Append(q, e)[Len(q) + 1] = e
        /\ \A i \in 1..Len(q) : Append(q, e)[i] = q[i]
    BY AppendProperties
  <2>2. /\ \A i \in DOMAIN Append(q, e) :
             (i = Len(q) + 1 /\ Append(q, e)[i] = e) \/ (i \in DOMAIN q /\ Append(q, e)[i] = q[i])
        /\ \A i \in DOMAIN q : i \in DOMAIN Append(q, e) /\ Append(q, e)[i] = q[i] /\ i < Len(q) + 1
        /\ Len(q) + 1 \in DOMAIN Append(q, e)
    BY <2>1
  <2>3. FramesOf(Append(q, e), p) \subseteq
          FramesOf(q, p) \cup (IF e.cmd \in Framed /\ e.id = p THEN {e.frame} ELSE {})
    BY <2>2 DEF FramesOf
  <2>4. FramesOf(q, p) \subseteq FramesOf(Append(q, e), p)
    BY <2>2 DEF FramesOf
  <2>5. e.cmd \in Framed /\ e.id = p => e.frame \in FramesOf(Append(q, e), p)
    BY <2>1, <2>2 DEF FramesOf
  <2>6. ASSUME SortedFrames(q, p), e.cmd \in Framed /\ e.id = p => Before(Of(FramesOf(q, p)), {e.frame.request})
        PROVE  SortedFrames(Append(q, e), p)
    <3> SUFFICES ASSUME NEW i \in DOMAIN Append(q, e), NEW j \in DOMAIN Append(q, e), i < j,
                        Append(q, e)[i].cmd \in Framed, Append(q, e)[i].id = p,
                        Append(q, e)[j].cmd \in Framed, Append(q, e)[j].id = p
                 PROVE  Append(q, e)[i].frame.request.seq < Append(q, e)[j].frame.request.seq
      BY DEF SortedFrames
    <3>1. i \in DOMAIN q /\ Append(q, e)[i] = q[i]
      BY <2>1, <2>2
    <3>2. CASE j \in DOMAIN q
      <4>1. Append(q, e)[j] = q[j]
        BY <2>2, <3>2
      <4> QED BY <2>6, <3>1, <3>2, <4>1 DEF SortedFrames
    <3>3. CASE j \notin DOMAIN q
      <4>1. Append(q, e)[j] = e
        BY <2>2, <3>3
      <4>2. q[i].frame \in FramesOf(q, p)
        BY <3>1 DEF FramesOf
      <4> QED BY <2>6, <3>1, <4>1, <4>2 DEF Before, Of
    <3> QED BY <3>2, <3>3
  <2> QED BY <2>3, <2>4, <2>5, <2>6
<1>2. ASSUME q # <<>>
      PROVE  /\ FramesOf(q, p) = FramesOf(Tail(q), p) \cup
                   (IF Head(q).cmd \in Framed /\ Head(q).id = p THEN {Head(q).frame} ELSE {})
             /\ SortedFrames(q, p) =>
                   /\ SortedFrames(Tail(q), p)
                   /\ Head(q).cmd \in Framed /\ Head(q).id = p =>
                        Before({Head(q).frame.request}, Of(FramesOf(Tail(q), p)))
  <2>1. /\ Len(q) \in Nat /\ DOMAIN q = 1..Len(q) /\ Len(q) >= 1 /\ Head(q) = q[1]
        /\ DOMAIN Tail(q) = 1..(Len(q) - 1)
        /\ \A i \in 1..(Len(q) - 1) : Tail(q)[i] = q[i + 1]
    BY <1>2, Places
  <2>2. /\ \A i \in DOMAIN Tail(q) : i + 1 \in DOMAIN q /\ Tail(q)[i] = q[i + 1] /\ 1 < i + 1 /\ i \in Nat
        /\ \A i \in DOMAIN q : i = 1 \/ (i - 1 \in DOMAIN Tail(q) /\ Tail(q)[i - 1] = q[i])
        /\ 1 \in DOMAIN q
    BY <2>1
  <2>3. FramesOf(Tail(q), p) \subseteq FramesOf(q, p)
    BY <2>2 DEF FramesOf
  <2>4. Head(q).cmd \in Framed /\ Head(q).id = p => Head(q).frame \in FramesOf(q, p)
    BY <2>1, <2>2 DEF FramesOf
  <2>5. FramesOf(q, p) \subseteq FramesOf(Tail(q), p) \cup
          (IF Head(q).cmd \in Framed /\ Head(q).id = p THEN {Head(q).frame} ELSE {})
    <3>1. ASSUME NEW i \in DOMAIN q, q[i].cmd \in Framed, q[i].id = p, i # 1
          PROVE  q[i].frame \in FramesOf(Tail(q), p)
      BY <2>2, <3>1 DEF FramesOf
    <3>2. \A i \in DOMAIN q : i = 1 => q[i] = Head(q)
      BY <2>1
    <3> QED BY <3>1, <3>2 DEF FramesOf
  <2>6. ASSUME SortedFrames(q, p) PROVE SortedFrames(Tail(q), p)
    <3> SUFFICES ASSUME NEW i \in DOMAIN Tail(q), NEW j \in DOMAIN Tail(q), i < j,
                        Tail(q)[i].cmd \in Framed, Tail(q)[i].id = p,
                        Tail(q)[j].cmd \in Framed, Tail(q)[j].id = p
                 PROVE  Tail(q)[i].frame.request.seq < Tail(q)[j].frame.request.seq
      BY DEF SortedFrames
    <3>1. i + 1 \in DOMAIN q /\ j + 1 \in DOMAIN q /\ i + 1 < j + 1
          /\ Tail(q)[i] = q[i + 1] /\ Tail(q)[j] = q[j + 1]
      BY <2>2
    <3> QED BY <2>6, <3>1 DEF SortedFrames
  <2>7. ASSUME SortedFrames(q, p), Head(q).cmd \in Framed, Head(q).id = p
        PROVE  Before({Head(q).frame.request}, Of(FramesOf(Tail(q), p)))
    <3> SUFFICES ASSUME NEW i \in DOMAIN Tail(q), Tail(q)[i].cmd \in Framed, Tail(q)[i].id = p
                 PROVE  Head(q).frame.request.seq < Tail(q)[i].frame.request.seq
      BY DEF Before, FramesOf, Of
    <3> QED BY <2>1, <2>2, <2>7 DEF SortedFrames
  <2> QED BY <2>3, <2>4, <2>5, <2>6, <2>7
<1> QED BY <1>1, <1>2

(* A frame sent for p is one more; anything else changes none.             *)
LEMMA FramesSent ==
  ASSUME NEW q \in Seq(Command), NEW p, NEW e \in Command, SortedFrames(q, p)
  PROVE  /\ ~(e.cmd \in Framed /\ e.id = p) =>
              FramesOf(Append(q, e), p) = FramesOf(q, p) /\ SortedFrames(Append(q, e), p)
         /\ e.cmd \in Framed /\ e.id = p /\ Before(Of(FramesOf(q, p)), {e.frame.request}) =>
              FramesOf(Append(q, e), p) = FramesOf(q, p) \cup {e.frame} /\ SortedFrames(Append(q, e), p)
<1> DEFINE N == IF e.cmd \in Framed /\ e.id = p THEN {e.frame} ELSE {}
<1>1. FramesOf(Append(q, e), p) = FramesOf(q, p) \cup N
  BY FramesQueue
<1>2. (e.cmd \in Framed /\ e.id = p => Before(Of(FramesOf(q, p)), {e.frame.request}))
        => SortedFrames(Append(q, e), p)
  BY FramesQueue
<1>3. (e.cmd \in Framed /\ e.id = p => N = {e.frame}) /\ (~(e.cmd \in Framed /\ e.id = p) => N = {})
  OBVIOUS
<1> HIDE DEF N
<1> QED BY <1>1, <1>2, <1>3

(* Every frame for p carries a request for it.                             *)
LEMMA PicturesCarried ==
  ASSUME TypeOK, NEW p \in Panel, NEW f \in Pictures(p)
  PROVE  f.request \in Carried(p) /\ f.request.seq \in Nat
<1>1. f.request \in Being(p) \cup Answer(p) \cup Of(FramesOf(commands, p)) \cup Of(Painted(p))
  BY DEF Pictures, Draft, Fetched, Being, Answer, Of
<1> QED BY <1>1, CarriedPlaces

(* As long as the newest request for p stays, and nothing is drawn, what   *)
(* is recorded of p stays true.                                            *)
LEMMA KeptRecorded ==
  ASSUME TypeOK, NEW p \in Panel, Numbered(p), Told(p), Fresh(p),
         Carried(p)' \subseteq Carried(p), Pictures(p)' \subseteq Pictures(p),
         \A q \in Carried(p) : \E s \in Carried(p)' : q.seq <= s.seq,
         tracked'[p].spec.content = tracked[p].spec.content,
         tracked'[p].spec.size = tracked[p].spec.size,
         tracked'[p].backdrop = tracked[p].backdrop,
         tracked'[p].pictures = tracked[p].pictures
  PROVE  Told(p)' /\ Fresh(p)'
<1>1. \A q \in Carried(p) : q.seq \in Nat
  BY CarriedPlaces
<1>2. Told(p)'
  <2>1. PICK r \in Carried(p) : Top(p, r) /\ Matches(p, r)
    BY DEF Told
  <2>2. PICK s \in Carried(p)' : r.seq <= s.seq
    BY <2>1
  <2>3. s = r
    <3>1. s.seq <= r.seq /\ s \in Carried(p)
      BY <2>1 DEF Top
    <3>2. s.seq = r.seq
      BY <1>1, <2>2, <3>1
    <3> QED BY <3>1, <3>2 DEF Numbered
  <2>4. \A q \in Carried(p)' : q.seq <= r.seq
    BY <2>1 DEF Top
  <2>5. Matches(p, r)'
    BY <2>1 DEF Matches
  <2> QED BY <2>2, <2>3, <2>4, <2>5 DEF Told, Top
<1>3. Fresh(p)'
  <2> SUFFICES ASSUME NEW f \in Pictures(p)', \A q \in Carried(p)' : q.seq <= f.request.seq
               PROVE  f.picture >= tracked'[p].pictures
    BY DEF Fresh, Top
  <2>1. f \in Pictures(p) /\ f.request.seq \in Nat
    BY PicturesCarried
  <2>2. ASSUME NEW q \in Carried(p) PROVE q.seq <= f.request.seq
    <3>1. PICK s \in Carried(p)' : q.seq <= s.seq
      OBVIOUS
    <3>2. s.seq <= f.request.seq /\ s.seq \in Nat /\ q.seq \in Nat
      BY <1>1
    <3> QED BY <2>1, <3>1, <3>2
  <2>3. f.picture >= tracked[p].pictures
    BY <2>1, <2>2 DEF Fresh, Top
  <2> QED BY <2>3
<1> QED BY <1>2, <1>3

(* A step of the tick thread that asks for at most one frame, and sends at *)
(* most one command that carries none.                                     *)
LEMMA AskedAged ==
  ASSUME TypeOK, NEW p \in Panel, Aged(p), Numbered(p),
         UNCHANGED <<window, drawing, reply, pending>>, asked' \in {asked, asked + 1},
         commands' = commands \/ \E c \in Command : c.cmd \notin Framed /\ commands' = Append(commands, c),
         NEW N,
         \/ jobs' = jobs /\ N = {}
         \/ \E e \in Job :
              /\ jobs' = Append(jobs, e)
              /\ N = IF e.job # "Forget" /\ e.request.id = p THEN {e.request} ELSE {}
              /\ e.job # "Forget" => e.request.seq = asked + 1 /\ asked' = asked + 1
  PROVE  /\ Aged(p)' /\ Numbered(p)' /\ Carried(p)' = Carried(p) \cup N /\ Pictures(p)' = Pictures(p)
         /\ \A r \in N : r.seq = asked + 1 /\ asked' = asked + 1
<1>0. jobs \in Seq(Job) /\ commands \in Seq(Command) /\ asked \in Nat
  BY DEF TypeOK
<1>1. FramesOf(commands', p) = FramesOf(commands, p) /\ SortedFrames(commands', p)
  <2>1. CASE commands' = commands
    BY <2>1 DEF Aged
  <2>2. ASSUME NEW c \in Command, c.cmd \notin Framed, commands' = Append(commands, c)
        PROVE  FramesOf(commands', p) = FramesOf(commands, p) /\ SortedFrames(commands', p)
    <3>1. SortedFrames(commands, p)
      BY DEF Aged
    <3> QED BY <1>0, <2>2, <3>1, FramesSent
  <2> QED BY <2>1, <2>2
<1>2. /\ Being(p)' = Being(p) /\ Answer(p)' = Answer(p) /\ Slot(p)' = Slot(p) /\ Painted(p)' = Painted(p)
      /\ Pictures(p)' = Pictures(p) /\ Of(FramesOf(commands, p))' = Of(FramesOf(commands, p))
      /\ Of(Painted(p))' = Of(Painted(p))
  <2>1. FramesOf(commands, p)' = FramesOf(commands, p)
    BY <1>1 DEF FramesOf
  <2>2. Draft(p)' = Draft(p) /\ Fetched(p)' = Fetched(p)
    BY DEF Draft, Fetched
  <2>3. Being(p)' = Being(p) /\ Answer(p)' = Answer(p) /\ Slot(p)' = Slot(p) /\ Painted(p)' = Painted(p)
    BY DEF Being, Answer, Slot, Painted
  <2> QED BY <2>1, <2>2, <2>3 DEF Pictures, Of
<1>3. /\ Carried(p) = JobsOf(jobs, p) \cup Of(FramesOf(commands, p)) \cup Slot(p) \cup Being(p)
                        \cup Answer(p) \cup Of(Painted(p))
      /\ \A q \in Carried(p) : q.seq \in Nat /\ q.seq <= asked
  BY CarriedPlaces DEF Numbered
<1>4. \A r \in N : r.seq = asked + 1 /\ asked' = asked + 1
  OBVIOUS
<1>5. JobsOf(jobs', p) = JobsOf(jobs, p) \cup N /\ SortedJobs(jobs', p)
  <2>1. CASE jobs' = jobs /\ N = {}
    BY <2>1 DEF Aged
  <2>2. ASSUME NEW e \in Job, jobs' = Append(jobs, e),
               N = IF e.job # "Forget" /\ e.request.id = p THEN {e.request} ELSE {},
               e.job # "Forget" => e.request.seq = asked + 1
        PROVE  JobsOf(jobs', p) = JobsOf(jobs, p) \cup N /\ SortedJobs(jobs', p)
    <3>1. SortedJobs(jobs, p)
      BY DEF Aged
    <3>2. e.job # "Forget" => Before(JobsOf(jobs, p), {e.request})
      BY <1>0, <1>3, <2>2 DEF Before
    <3>3. JobsOf(Append(jobs, e), p) = JobsOf(jobs, p) \cup N /\ SortedJobs(Append(jobs, e), p)
      BY <1>0, <2>2, <3>1, <3>2, JobsQueue
    <3> QED BY <2>2, <3>3
  <2> QED BY <2>1, <2>2
<1>6. Carried(p)' = Carried(p) \cup N
  <2>1. Carried(p)' = JobsOf(jobs', p) \cup Of(FramesOf(commands, p))' \cup Slot(p)' \cup Being(p)'
                        \cup Answer(p)' \cup Of(Painted(p))'
    BY DEF Carried, JobsOf, FramesOf, Slot, Being, Answer, Painted, Framed, Of
  <2> QED BY <1>2, <1>3, <1>5, <2>1
<1>7. Numbered(p)'
  <2>1. ASSUME NEW q \in Carried(p)', NEW r \in Carried(p)', q.seq = r.seq PROVE q = r
    <3>1. CASE q \in Carried(p) /\ r \in Carried(p)
      BY <2>1, <3>1 DEF Numbered
    <3>2. CASE q \in N /\ r \in N
      BY <3>2
    <3>3. CASE (q \in N /\ r \in Carried(p)) \/ (r \in N /\ q \in Carried(p))
      BY <1>0, <1>3, <1>4, <2>1, <3>3
    <3> QED BY <1>6, <3>1, <3>2, <3>3
  <2>2. \A q \in Carried(p)' : q.seq <= asked'
    BY <1>0, <1>3, <1>4, <1>6
  <2> QED BY <2>1, <2>2 DEF Numbered
<1>8. Before(Carried(p), N)
  BY <1>0, <1>3, <1>4 DEF Before
<1>9. /\ Before(Of(Painted(p)), Of(FramesOf(commands, p)))'
      /\ Before(Of(Painted(p)) \cup Of(FramesOf(commands, p)), Being(p) \cup Answer(p) \cup Slot(p) \cup JobsOf(jobs, p))'
      /\ Before(Being(p), Slot(p) \cup JobsOf(jobs, p))'
      /\ Before(Slot(p), JobsOf(jobs, p))'
  <2>1. JobsOf(jobs, p)' = JobsOf(jobs, p) \cup N
    BY <1>5 DEF JobsOf
  <2> QED BY <1>2, <1>3, <1>8, <2>1 DEF Before, Aged
<1>10. SortedJobs(jobs, p)' /\ SortedFrames(commands, p)'
  BY <1>1, <1>5 DEF SortedJobs, SortedFrames
<1> QED BY <1>2, <1>4, <1>6, <1>7, <1>9, <1>10 DEF Aged

(* Sending anything but a Delete of p keeps p living, and a Create of p    *)
(* gives it life.                                                          *)
LEMMA SentLives ==
  ASSUME TypeOK, NEW p, window' = window, NEW t \in Seq(Command), commands' = commands \o t,
         \A k \in DOMAIN t : ~(t[k].cmd = "Delete" /\ t[k].id = p),
         Lives(p) \/ \E k \in DOMAIN t : t[k].cmd = "Create" /\ t[k].id = p
  PROVE  Lives(p)'
<1>1. /\ DOMAIN commands = 1..Len(commands) /\ DOMAIN t = 1..Len(t) /\ Len(commands) \in Nat /\ Len(t) \in Nat
      /\ DOMAIN commands' = 1..(Len(commands) + Len(t))
      /\ \A j \in 1..Len(commands) : commands'[j] = commands[j]
      /\ \A j \in 1..Len(t) : commands'[Len(commands) + j] = t[j]
  <2>1. commands \in Seq(Command)
    BY DEF TypeOK
  <2> QED BY <2>1, Places
<1>2. ASSUME NEW k \in DOMAIN commands'
      PROVE  \/ k \in DOMAIN commands /\ commands'[k] = commands[k]
             \/ /\ k - Len(commands) \in DOMAIN t /\ commands'[k] = t[k - Len(commands)]
                /\ k > Len(commands)
  <2>1. k \in Nat /\ k >= 1 /\ k <= Len(commands) + Len(t)
    BY <1>1
  <2>2. CASE k <= Len(commands)
    BY <1>1, <2>1, <2>2
  <2>3. CASE k > Len(commands)
    <3>1. k - Len(commands) \in 1..Len(t) /\ Len(commands) + (k - Len(commands)) = k
      BY <1>1, <2>1, <2>3
    <3> QED BY <1>1, <2>3, <3>1
  <2> QED BY <1>1, <2>1, <2>2, <2>3
<1>3. \A k \in DOMAIN commands' : k \notin DOMAIN commands => ~Deletes(p, k)'
  BY <1>2 DEF Deletes
<1>4. \A k \in DOMAIN commands : k \in DOMAIN commands' /\ commands'[k] = commands[k]
  BY <1>1
<1>5. ASSUME window[p] # None, \A j \in DOMAIN commands : ~Deletes(p, j) PROVE Lives(p)'
  <2>1. \A j \in DOMAIN commands' : ~Deletes(p, j)'
    BY <1>3, <1>4, <1>5 DEF Deletes
  <2> QED BY <1>5, <2>1 DEF Lives
<1>6. ASSUME NEW j \in DOMAIN commands, commands[j].cmd = "Create", commands[j].id = p,
             \A k \in DOMAIN commands : j < k => ~Deletes(p, k)
      PROVE  Lives(p)'
  <2>1. \A k \in DOMAIN commands' : j < k => ~Deletes(p, k)'
    BY <1>3, <1>4, <1>6 DEF Deletes
  <2>2. j \in DOMAIN commands' /\ commands'[j].cmd = "Create" /\ commands'[j].id = p
    BY <1>4, <1>6
  <2> QED BY <2>1, <2>2 DEF Lives
<1>7. ASSUME NEW k \in DOMAIN t, t[k].cmd = "Create", t[k].id = p PROVE Lives(p)'
  <2>1. /\ Len(commands) + k \in DOMAIN commands'
        /\ commands'[Len(commands) + k].cmd = "Create" /\ commands'[Len(commands) + k].id = p
    BY <1>1, <1>7
  <2>2. \A j \in DOMAIN commands' : Len(commands) + k < j => j \notin DOMAIN commands
    BY <1>1
  <2>3. \A j \in DOMAIN commands' : Len(commands) + k < j => ~Deletes(p, j)'
    BY <1>3, <2>2
  <2> QED BY <2>1, <2>3 DEF Lives
<1>8. CASE Lives(p)
  BY <1>5, <1>6, <1>8 DEF Lives
<1> QED BY <1>7, <1>8

(* A window lives on as commands are applied.                              *)
LEMMA AppliedLives ==
  ASSUME TypeOK, NEW p, Lives(p), commands # <<>>, commands' = Tail(commands),
         window[p] # None /\ ~Deletes(p, 1) => window'[p] # None,
         commands[1].cmd = "Create" /\ commands[1].id = p => window'[p] # None
  PROVE  Lives(p)'
<1>1. /\ Len(commands) \in Nat /\ Len(commands) >= 1 /\ DOMAIN commands = 1..Len(commands)
      /\ DOMAIN commands' = 1..(Len(commands) - 1)
      /\ \A j \in 1..(Len(commands) - 1) : commands'[j] = commands[j + 1]
  <2>1. commands \in Seq(Command)
    BY DEF TypeOK
  <2> QED BY <2>1, Places
<1>2. /\ 1 \in DOMAIN commands
      /\ \A j \in DOMAIN commands' : j + 1 \in DOMAIN commands /\ commands'[j] = commands[j + 1] /\ j \in Nat /\ 1 < j + 1
      /\ \A j \in DOMAIN commands : j \in Nat /\ (j = 1 \/ (j - 1 \in DOMAIN commands' /\ commands'[j - 1] = commands[j]))
  BY <1>1
<1>3. ASSUME window[p] # None, \A j \in DOMAIN commands : ~Deletes(p, j) PROVE Lives(p)'
  <2>1. \A j \in DOMAIN commands' : ~Deletes(p, j)'
    BY <1>2, <1>3 DEF Deletes
  <2>2. window'[p] # None
    BY <1>2, <1>3
  <2> QED BY <2>1, <2>2 DEF Lives
<1>4. ASSUME NEW j \in DOMAIN commands, commands[j].cmd = "Create", commands[j].id = p,
             \A k \in DOMAIN commands : j < k => ~Deletes(p, k)
      PROVE  Lives(p)'
  <2>1. CASE j = 1
    <3>1. \A k \in DOMAIN commands' : ~Deletes(p, k)'
      BY <1>2, <1>4, <2>1 DEF Deletes
    <3>2. window'[p] # None
      BY <1>4, <2>1
    <3> QED BY <3>1, <3>2 DEF Lives
  <2>2. CASE j # 1
    <3>1. j - 1 \in DOMAIN commands' /\ commands'[j - 1] = commands[j] /\ j \in Nat
      BY <1>2, <2>2
    <3>2. \A k \in DOMAIN commands' : j - 1 < k => j < k + 1
      BY <1>2, <3>1
    <3>3. \A k \in DOMAIN commands' : j - 1 < k => ~Deletes(p, k)'
      BY <1>2, <1>4, <3>2 DEF Deletes
    <3> QED BY <1>4, <3>1, <3>3 DEF Lives
  <2> QED BY <2>1, <2>2
<1> QED BY <1>3, <1>4 DEF Lives

(* So does a step that sends one command, or none.                         *)
LEMMA AppendLives ==
  ASSUME TypeOK, NEW p, window' = window, Lives(p),
         commands' = commands \/ \E e \in Command : /\ ~(e.cmd = "Delete" /\ e.id = p)
                                                    /\ commands' = Append(commands, e)
  PROVE  Lives(p)'
<1>0. commands \in Seq(Command)
  BY DEF TypeOK
<1>1. CASE commands' = commands
  <2>1. <<>> \in Seq(Command) /\ commands' = commands \o <<>> /\ DOMAIN <<>> = {}
    BY <1>0, <1>1
  <2> QED BY <2>1, SentLives
<1>2. ASSUME NEW e \in Command, ~(e.cmd = "Delete" /\ e.id = p), commands' = Append(commands, e)
      PROVE  Lives(p)'
  <2>0. PICK t : t = <<e>>
    OBVIOUS
  <2>1. t \in Seq(Command) /\ commands' = commands \o t /\ \A k \in DOMAIN t : t[k] = e
    BY <1>0, <1>2, <2>0
  <2>2. \A k \in DOMAIN t : ~(t[k].cmd = "Delete" /\ t[k].id = p)
    BY <1>2, <2>1
  <2> QED BY <2>1, <2>2, SentLives
<1> QED BY <1>1, <1>2

(* What is recorded of p stays true through a step that leaves it alone,   *)
(* as long as its newest request stays and nothing is drawn for it.        *)
LEMMA StaysRecorded ==
  ASSUME TypeOK, NEW p \in Panel, Numbered(p), Recorded(p), picture' \in {picture, picture + 1},
         tracked'[p] # None => tracked'[p] = tracked[p] /\ Lives(p)',
         Settled(p)' => /\ Settled(p) /\ Pictures(p)' \subseteq Pictures(p)
                        /\ Carried(p)' \subseteq Carried(p)
                        /\ \A q \in Carried(p) : \E r \in Carried(p)' : q.seq <= r.seq
  PROVE  Recorded(p)'
<1>1. ASSUME tracked'[p] # None PROVE Stamped(p)'
  <2>0. tracked \in [Surface -> SurfaceState \cup {None}] /\ picture \in Nat
    BY DEF TypeOK
  <2>1. tracked'[p] = tracked[p] /\ tracked[p] \in SurfaceState /\ Stamped(p)
    BY <1>1, <2>0 DEF Recorded
  <2>2. tracked[p].pictures \in Nat /\ tracked[p].pictures <= (IF tracked[p].spec.content \in Figures THEN picture ELSE 0)
    BY <2>0, <2>1 DEF Stamped, Stamp, SurfaceState
  <2>3. tracked[p].pictures <= (IF tracked[p].spec.content \in Figures THEN picture' ELSE 0)
    BY <2>0, <2>2
  <2> QED BY <2>1, <2>3 DEF Stamped, Stamp
<1>2. ASSUME Settled(p)' PROVE Told(p)' /\ Fresh(p)'
  <2>1. tracked'[p] = tracked[p] /\ Told(p) /\ Fresh(p)
    BY <1>2 DEF Settled, Recorded
  <2> QED BY <1>2, <2>1, KeptRecorded
<1> QED BY <1>1, <1>2 DEF Recorded

-----------------------------------------------------------------------------
(* The tick thread.                                                        *)

(* A step that asks for nothing and changes no surface.                    *)
Idles ==
  /\ wait = None /\ UNCHANGED <<wait, asked, tracked, jobs>> /\ picture' \in {picture, picture + 1}
  /\ commands' = commands \/ commands' = Append(commands, [cmd |-> "Shutdown"])

(* One that asks for the frame of s, and blocks.                           *)
Asking(s) ==
  wait = None /\ desired[s] # None /\ AskNow(s) /\ UNCHANGED <<desired, picture, tracked, commands>>

(* The steps of the tick thread, by what they ask for.                     *)
LEMMA TickSteps ==
  ASSUME Phased, Tick
  PROVE  /\ UNCHANGED <<window, drawing, pending>>
         /\ NowAnswered \/ reply' = reply
         /\ \/ Idles
            \/ \E s \in Surface : Exit(s) \/ Asking(s)
            \/ \E q \in Panel : UpdatePanel(q)
            \/ NowAnswered
<1>1. phase = "idle" => wait = None
  BY DEF Phased
<1>2. (\E layout \in Layouts : BeginPass(layout)) \/ StoreDrawn \/ NextPhase \/ Close
        \/ (\E s \in Surface : Skip(s)) => Idles
  BY <1>1 DEF BeginPass, StoreDrawn, NextPhase, Close, Skip, Idles
<1>3. \A s \in Surface : Enter(s) => Asking(s)
  BY DEF Enter, Asking
<1>4. \A w \in Wall : UpdateWall(w) => Asking(w) \/ Idles
  BY DEF UpdateWall, Updating, Asking, Idles
<1>5. \A p \in Panel : ResizePanel(p) => Asking(p)
  BY DEF ResizePanel, Updating, Asking
<1>6. UNCHANGED <<window, drawing, pending>> /\ (NowAnswered \/ reply' = reply)
  BY DEF Tick, BeginPass, StoreDrawn, NextPhase, Close, Exit, Enter, Skip, UpdateWall, ResizePanel,
         UpdatePanel, NowAnswered, workerVars, presenterVars
<1> QED BY <1>2, <1>3, <1>4, <1>5, <1>6 DEF Tick

(* The tick thread only waits for what it recorded of its request, and has *)
(* nothing forgotten that it tracks.                                       *)
LEMMA TickAnswering ==
  ASSUME TypeOK, Phased, Blocked, Answering, Forgotten, Tick
  PROVE  Answering' /\ Forgotten'
<1>0. jobs \in Seq(Job) /\ tracked \in [Surface -> SurfaceState \cup {None}]
  BY DEF TypeOK
<1>a. ASSUME wait = None, wait' = None, reply' = reply, drawing' = drawing,
             jobs' = jobs \/ \E e \in Job : e.job # "Now" /\ jobs' = Append(jobs, e)
      PROVE  Answering'
  <2>1. reply' = None /\ ~Drawn' /\ \A i \in DOMAIN jobs : jobs[i].job # "Now"
    BY <1>a, NobodyWaits DEF Drawn
  <2>2. \A i \in DOMAIN jobs' : jobs'[i].job # "Now"
    <3>1. CASE jobs' = jobs
      BY <2>1, <3>1
    <3>2. ASSUME NEW e \in Job, e.job # "Now", jobs' = Append(jobs, e)
          PROVE  \A i \in DOMAIN jobs' : jobs'[i].job # "Now"
      BY <1>0, <2>1, <3>2
    <3> QED BY <1>a, <3>1, <3>2
  <2> QED BY <1>a, <2>1, <2>2 DEF Answering
<1>b. ASSUME \A s \in Surface : tracked[s] = None => tracked'[s] = None,
             jobs' = jobs \/ \E e \in Job : /\ e.job = "Forget" => tracked'[e.id] = None
                                            /\ jobs' = Append(jobs, e)
      PROVE  Forgotten'
  <2>0. \A i \in DOMAIN jobs : jobs[i].job = "Forget" => jobs[i].id \in Surface /\ tracked'[jobs[i].id] = None
    <3>1. \A i \in DOMAIN jobs : jobs[i].job = "Forget" => jobs[i].id \in Surface
      BY <1>0 DEF Job
    <3> QED BY <1>b, <3>1 DEF Forgotten
  <2>1. CASE jobs' = jobs
    BY <2>0, <2>1 DEF Forgotten
  <2>2. ASSUME NEW e \in Job, e.job = "Forget" => tracked'[e.id] = None, jobs' = Append(jobs, e)
        PROVE  Forgotten'
    <3>1. \A i \in DOMAIN jobs' : jobs'[i] = e \/ (i \in DOMAIN jobs /\ jobs'[i] = jobs[i])
      BY <1>0, <2>2
    <3> QED BY <2>0, <2>2, <3>1 DEF Forgotten
  <2> QED BY <1>b, <2>1, <2>2
<1>1. CASE Idles
  <2>1. UNCHANGED <<wait, reply, drawing, jobs, tracked>> /\ wait = None
    <3>1. ~NowAnswered
      BY <1>1 DEF Idles, NowAnswered
    <3> QED BY <1>1, <3>1, TickSteps DEF Idles
  <2> QED BY <1>a, <1>b, <2>1
<1>2. ASSUME NEW s \in Surface, Exit(s) PROVE Answering' /\ Forgotten'
  <2>0. PICK e : e = [job |-> "Forget", id |-> s]
    OBVIOUS
  <2>1. e \in Job /\ e.job = "Forget" /\ e.id = s
    BY <2>0, JobTyped
  <2>2. /\ wait = None /\ UNCHANGED <<wait, reply, drawing>> /\ jobs' = Append(jobs, e)
        /\ tracked' = [tracked EXCEPT ![s] = None]
    BY <1>2, <2>0 DEF Exit, workerVars
  <2>3. \A r \in Surface : tracked[r] = None => tracked'[r] = None
    BY <1>0, <2>2
  <2>4. tracked'[s] = None
    BY <1>0, <2>2
  <2> QED BY <1>a, <1>b, <2>1, <2>2, <2>3, <2>4
<1>3. ASSUME NEW s \in Surface, Asking(s) PROVE Answering' /\ Forgotten'
  <2>0. PICK r, e : r = RequestFor(s, desired[s]) /\ e = [job |-> "Now", request |-> r]
    OBVIOUS
  <2>1. /\ wait = None /\ UNCHANGED <<desired, picture, tracked>> /\ jobs' = Append(jobs, e) /\ asked' = asked + 1
        /\ wait' = [id |-> s, backdrop |-> Behind(s, desired[s]), pictures |-> Stamp(desired[s].content)]
    BY <1>3, <2>0 DEF Asking, AskNow
  <2>2. UNCHANGED <<reply, drawing>>
    <3>1. ~NowAnswered
      BY <2>1 DEF NowAnswered
    <3> QED BY <3>1, TickSteps
  <2>3. reply' = None /\ ~Drawn' /\ \A i \in DOMAIN jobs : jobs[i].job # "Now"
    BY <2>1, <2>2, NobodyWaits DEF Drawn
  <2>4. e \in Job /\ e.job = "Now" /\ e.request = r
    BY <1>3, <2>0, RequestTyped, JobTyped DEF Asking
  <2>5. \A i \in DOMAIN jobs' : jobs'[i].job = "Now" => jobs'[i] = e
    BY <1>0, <2>1, <2>3, <2>4
  <2>6. r.content = desired[s].content /\ r.backdrop = Behind(s, desired[s]) /\ r.seq = asked + 1
    BY <2>0 DEF RequestFor
  <2>7. wait'.pictures = Stamp(desired[wait.id].content)'
    BY <2>1 DEF Stamp
  <2>8. \A i \in DOMAIN jobs' : jobs'[i].job = "Now" => Answers(jobs[i].request)'
    BY <2>1, <2>4, <2>5, <2>6 DEF Answers
  <2>9. Answering'
    BY <2>3, <2>7, <2>8 DEF Answering
  <2> QED BY <1>b, <2>1, <2>4, <2>9
<1>4. ASSUME NEW q \in Panel, UpdatePanel(q) PROVE Answering' /\ Forgotten'
  <2>0. PICK e : e = [job |-> "Repaint", request |-> RequestFor(q, desired[q])]
    OBVIOUS
  <2>1. e \in Job /\ e.job = "Repaint"
    BY <1>4, <2>0, RequestTyped, JobTyped DEF UpdatePanel, Updating
  <2>2. /\ wait = None /\ UNCHANGED <<wait, reply, drawing>> /\ (jobs' = jobs \/ jobs' = Append(jobs, e))
        /\ tracked[q] # None
    BY <1>4, <2>0 DEF UpdatePanel, Updating, workerVars
  <2>3. \E z : tracked' = [tracked EXCEPT ![q] = z]
    BY <1>4 DEF UpdatePanel, Record
  <2>4. \A r \in Surface : tracked[r] = None => tracked'[r] = None
    BY <1>0, <2>2, <2>3
  <2> QED BY <1>a, <1>b, <2>1, <2>2, <2>4
<1>5. CASE NowAnswered
  <2>1. reply # None /\ jobs' = jobs /\ reply' = None /\ wait' = None /\ drawing' = drawing
    BY <1>5 DEF NowAnswered, workerVars
  <2>2. jobs' = <<>> /\ ~Drawn'
    BY <2>1 DEF Blocked, Drawn
  <2> QED BY <2>1, <2>2 DEF Answering, Forgotten
<1> QED BY <1>1, <1>2, <1>3, <1>4, <1>5, TickSteps

(* The frame that is waited for joins the commands behind all that was     *)
(* asked for before it, as what is recorded.                               *)
LEMMA AnsweredAhead ==
  ASSUME TypeOK, Phased, Blocked, Answering, NowAnswered, NEW p \in Panel, Aged(p), Numbered(p)
  PROVE  Aged(p)' /\ Numbered(p)' /\ (Recorded(p) => Recorded(p)') /\ Carried(p)' = Carried(p)
<1>0. PICK s, t, f, spec, kept :
        /\ s = wait.id /\ t = WaitingForPixels(wait.id, reply) /\ f = reply /\ spec = desired[s]
        /\ kept = [spec |-> spec, backdrop |-> wait.backdrop, pictures |-> wait.pictures]
  OBVIOUS
<1>1. /\ commands' = commands \o t /\ jobs' = jobs /\ wait # None /\ reply # None /\ reply' = None /\ wait' = None
      /\ UNCHANGED <<window, drawing, pending, asked, picture>>
      /\ tracked' = [tracked EXCEPT ![s] = kept]
  BY <1>0 DEF NowAnswered, Record, workerVars, presenterVars
<1>2. /\ s \in Surface /\ spec \in SurfaceSpec /\ f \in Frame /\ asked \in Nat /\ generation + 1 \in Nat
      /\ wait.pictures \in Nat /\ commands \in Seq(Command)
      /\ tracked \in [Surface -> SurfaceState \cup {None}]
  <2>1. generation \in Nat
    BY DEF TypeOK
  <2>2. s \in Surface /\ spec \in SurfaceSpec /\ f \in Frame /\ wait.pictures \in Nat
    BY <1>0, <1>1 DEF TypeOK, Phased, Waiting
  <2>3. asked \in Nat /\ commands \in Seq(Command) /\ tracked \in [Surface -> SurfaceState \cup {None}]
    BY DEF TypeOK
  <2> QED BY <2>1, <2>2, <2>3
<1>3. /\ f.request.id = s /\ f.request.size = spec.size /\ f.request.content = spec.content
      /\ f.request.backdrop = wait.backdrop /\ f.request.seq = asked
      /\ f.picture = wait.pictures /\ wait.pictures = Stamp(spec.content)
      /\ jobs = <<>> /\ ~Drawn /\ (s = p => pending[p] = None)
      /\ drawing # None => drawing.request.id # s
  BY <1>0, <1>1 DEF Blocked, Awaited, Answering, Answers
<1>4. /\ Answer(p) = IF s = p THEN {f.request} ELSE {}
      /\ Answer(p)' = {} /\ JobsOf(jobs, p) = {} /\ JobsOf(jobs, p)' = {}
      /\ Being(p)' = Being(p) /\ Slot(p)' = Slot(p) /\ Painted(p)' = Painted(p)
      /\ s = p => Being(p) = {} /\ Slot(p) = {}
  <2>1. JobsOf(jobs, p) = {} /\ JobsOf(jobs, p)' = {}
    BY <1>1, <1>3 DEF JobsOf
  <2>2. Being(p)' = Being(p) /\ Slot(p)' = Slot(p) /\ Painted(p)' = Painted(p)
    BY <1>1 DEF Being, Slot, Painted
  <2>3. s = p => Being(p) = {} /\ Slot(p) = {}
    BY <1>3 DEF Being, Slot
  <2>4. Answer(p)' = {} /\ Answer(p) = IF s = p THEN {f.request} ELSE {}
    BY <1>0, <1>1, <1>3 DEF Answer
  <2> QED BY <2>1, <2>2, <2>3, <2>4
<1>5. SortedFrames(commands, p) /\ (s = p => Before(Of(FramesOf(commands, p)), {f.request}))
  BY <1>4 DEF Aged, Before
<1>6. /\ t \in Seq(Command) /\ \A k \in DOMAIN t : t[k].cmd # "Delete"
      /\ s = p /\ tracked[p] = None => \E k \in DOMAIN t : t[k].cmd = "Create" /\ t[k].id = p
      /\ FramesOf(commands', p) = FramesOf(commands, p) \cup (IF s = p THEN {f} ELSE {})
      /\ SortedFrames(commands', p)
  <2>1. ASSUME NEW e \in Command, t = <<e>>, e.cmd \in Framed \/ s # p, s = p => e.frame = f /\ e.id = p,
               s # p => ~(e.cmd \in Framed /\ e.id = p), e.cmd # "Delete", s = p /\ tracked[p] = None => e.cmd = "Create"
        PROVE  /\ t \in Seq(Command) /\ \A k \in DOMAIN t : t[k].cmd # "Delete"
               /\ s = p /\ tracked[p] = None => \E k \in DOMAIN t : t[k].cmd = "Create" /\ t[k].id = p
               /\ FramesOf(commands', p) = FramesOf(commands, p) \cup (IF s = p THEN {f} ELSE {})
               /\ SortedFrames(commands', p)
    <3>1. commands' = Append(commands, e) /\ t \in Seq(Command) /\ DOMAIN t = {1} /\ t[1] = e
      BY <1>1, <1>2, <2>1
    <3>2. CASE s = p
      <4>1. e.cmd \in Framed /\ e.id = p /\ Before(Of(FramesOf(commands, p)), {e.frame.request})
        BY <1>5, <2>1, <3>2
      <4>2. FramesOf(commands', p) = FramesOf(commands, p) \cup {e.frame} /\ SortedFrames(commands', p)
        BY <1>2, <1>5, <3>1, <4>1, FramesSent
      <4> QED BY <2>1, <3>1, <3>2, <4>2
    <3>3. CASE s # p
      <4>1. ~(e.cmd \in Framed /\ e.id = p)
        BY <2>1, <3>3
      <4>2. FramesOf(commands', p) = FramesOf(commands, p) /\ SortedFrames(commands', p)
        BY <1>2, <1>5, <3>1, <4>1, FramesSent
      <4> QED BY <2>1, <3>1, <3>3, <4>2
    <3> QED BY <3>2, <3>3
  <2>2. CASE s \in Wall
    <3>0. PICK e : e = [cmd |-> "PaintWallpaper", id |-> s, spec |-> spec, published |-> generation + 1]
      OBVIOUS
    <3>1. t = <<e>> /\ e \in Command /\ e.cmd = "PaintWallpaper" /\ s # p
      BY <1>0, <1>2, <2>2, <3>0, CommandTyped, SurfacesAssumption DEF WaitingForPixels
    <3> QED BY <2>1, <3>1 DEF Framed
  <2>3. CASE s \notin Wall /\ tracked[s] = None
    <3>0. PICK e : e = [cmd |-> "Create", id |-> s, spec |-> spec, frame |-> f]
      OBVIOUS
    <3>1. t = <<e>> /\ e \in Command /\ e.cmd = "Create" /\ e.id = s /\ e.frame = f
      BY <1>0, <1>2, <2>3, <3>0, CommandTyped DEF WaitingForPixels
    <3> QED BY <2>1, <3>1 DEF Framed
  <2>4. CASE s \notin Wall /\ tracked[s] # None
    <3>0. PICK e, m : /\ e = [cmd |-> "Resize", id |-> s, spec |-> spec, frame |-> f]
                      /\ m = [cmd |-> "Move", id |-> s, spec |-> spec]
      OBVIOUS
    <3>1. /\ t = <<e, m>> /\ e \in Command /\ m \in Command /\ e.cmd = "Resize" /\ m.cmd = "Move"
          /\ e.id = s /\ e.frame = f
      BY <1>0, <1>2, <2>4, <3>0, CommandTyped DEF WaitingForPixels
    <3>2. PICK q : q = Append(commands, e)
      OBVIOUS
    <3>3. /\ q \in Seq(Command) /\ commands' = Append(q, m)
          /\ t \in Seq(Command) /\ DOMAIN t = {1, 2} /\ t[1] = e /\ t[2] = m
      BY <1>1, <1>2, <3>1, <3>2
    <3>4. e.cmd \in Framed /\ m.cmd \notin Framed
      BY <3>1 DEF Framed
    <3>5. FramesOf(q, p) = FramesOf(commands, p) \cup (IF s = p THEN {f} ELSE {}) /\ SortedFrames(q, p)
      <4>1. CASE s = p
        <5>1. e.id = p /\ Before(Of(FramesOf(commands, p)), {e.frame.request})
          BY <1>5, <3>1, <4>1
        <5>2. FramesOf(q, p) = FramesOf(commands, p) \cup {e.frame} /\ SortedFrames(q, p)
          BY <1>2, <1>5, <3>1, <3>2, <3>4, <5>1, FramesSent
        <5> QED BY <3>1, <4>1, <5>2
      <4>2. CASE s # p
        BY <1>2, <1>5, <3>1, <3>2, <3>4, <4>2, FramesSent
      <4> QED BY <4>1, <4>2
    <3>6. FramesOf(Append(q, m), p) = FramesOf(q, p) /\ SortedFrames(Append(q, m), p)
      BY <3>1, <3>3, <3>4, <3>5, FramesSent
    <3> QED BY <2>4, <3>1, <3>3, <3>5, <3>6
  <2> QED BY <2>2, <2>3, <2>4
<1>7. FramesOf(commands, p)' = FramesOf(commands, p) \cup (IF s = p THEN {f} ELSE {}) /\ SortedFrames(commands, p)'
  BY <1>6 DEF FramesOf, SortedFrames
<1>8. Of(FramesOf(commands, p))' = Of(FramesOf(commands, p)) \cup Answer(p) /\ Of(Painted(p))' = Of(Painted(p))
  BY <1>4, <1>7 DEF Of
<1>9. Carried(p)' = Carried(p)
  <2>1. Carried(p)' = JobsOf(jobs, p)' \cup Of(FramesOf(commands, p))' \cup Slot(p)' \cup Being(p)'
                        \cup Answer(p)' \cup Of(Painted(p))'
    BY DEF Carried, JobsOf, FramesOf, Slot, Being, Answer, Painted, Framed, Of
  <2> QED BY <1>4, <1>8, <2>1, CarriedPlaces
<1>10. Numbered(p)'
  BY <1>1, <1>9 DEF Numbered
<1>11. Aged(p)'
  <2>1. SortedJobs(jobs, p)'
    BY <1>1, <1>3 DEF SortedJobs
  <2>2. /\ Before(Of(Painted(p)), Of(FramesOf(commands, p)))'
        /\ Before(Of(Painted(p)) \cup Of(FramesOf(commands, p)), Being(p) \cup Answer(p) \cup Slot(p) \cup JobsOf(jobs, p))'
        /\ Before(Being(p), Slot(p) \cup JobsOf(jobs, p))'
        /\ Before(Slot(p), JobsOf(jobs, p))'
    BY <1>4, <1>8 DEF Before, Aged
  <2> QED BY <1>7, <2>1, <2>2 DEF Aged
<1>12. ASSUME Recorded(p), s # p PROVE Recorded(p)'
  <2>1. tracked'[p] = tracked[p]
    BY <1>1, <1>2, <1>12
  <2>2. tracked'[p] # None => Lives(p)'
    BY <1>1, <1>6, <1>12, <2>1, SentLives DEF Recorded
  <2>3. Pictures(p)' \subseteq Pictures(p)
    <3>1. FramesOf(commands, p)' = FramesOf(commands, p)
      BY <1>7, <1>12
    <3>2. Draft(p)' = Draft(p) /\ Fetched(p)' = {}
      BY <1>1 DEF Draft, Fetched
    <3> QED BY <1>4, <3>1, <3>2 DEF Pictures
  <2>4. Settled(p)' => Settled(p)
    BY <1>0, <1>12, <2>1 DEF Settled
  <2>5. \A q \in Carried(p) : q.seq <= q.seq
    BY CarriedPlaces
  <2> QED BY <1>1, <1>9, <1>12, <2>1, <2>2, <2>3, <2>4, <2>5, StaysRecorded
<1>13. ASSUME Recorded(p), s = p PROVE Recorded(p)'
  <2>1. tracked'[p] = kept
    BY <1>1, <1>2, <1>13
  <2>2. kept.spec = spec /\ kept.backdrop = wait.backdrop /\ kept.pictures = wait.pictures
    BY <1>0
  <2>3. Lives(p)'
    <3>1. Lives(p) \/ \E k \in DOMAIN t : t[k].cmd = "Create" /\ t[k].id = p
      BY <1>6, <1>13 DEF Recorded
    <3> QED BY <1>1, <1>6, <3>1, SentLives
  <2>4. Stamped(p)'
    <3>1. Stamp(spec.content)' = wait.pictures
      BY <1>1, <1>3 DEF Stamp
    <3> QED BY <1>2, <2>1, <2>2, <3>1 DEF Stamped
  <2>5. f.request \in Carried(p) /\ \A q \in Carried(p) : q.seq <= f.request.seq
    BY <1>3, <1>4, <1>13, CarriedPlaces DEF Numbered
  <2>6. Told(p)'
    BY <1>3, <1>9, <2>1, <2>2, <2>5 DEF Told, Top, Matches
  <2>7. Fresh(p)'
    <3> SUFFICES ASSUME NEW g \in Pictures(p)', \A q \in Carried(p)' : q.seq <= g.request.seq
                 PROVE  g.picture >= tracked'[p].pictures
      BY DEF Fresh, Top
    <3>1. g \in FramesOf(commands, p) \cup Painted(p) \cup {f}
      <4>1. Draft(p)' = {} /\ Fetched(p)' \subseteq {f}
        BY <1>1, <1>3, <1>13 DEF Draft, Fetched
      <4> QED BY <1>4, <1>7, <1>13, <4>1 DEF Pictures
    <3>2. ASSUME g \in FramesOf(commands, p) \cup Painted(p) PROVE FALSE
      <4>1. g.request \in Of(FramesOf(commands, p)) \cup Of(Painted(p))
        BY <3>2 DEF Of
      <4>2. g.request.seq < f.request.seq
        BY <1>4, <1>13, <4>1 DEF Aged, Before
      <4>3. f.request.seq <= g.request.seq
        BY <1>9, <2>5
      <4>4. g.request.seq \in Nat /\ f.request.seq \in Nat
        BY <2>5, <4>1, CarriedPlaces
      <4> QED BY <4>2, <4>3, <4>4
    <3> QED BY <1>2, <1>3, <2>1, <2>2, <3>1, <3>2
  <2> QED BY <2>3, <2>4, <2>6, <2>7 DEF Recorded
<1> QED BY <1>9, <1>10, <1>11, <1>12, <1>13

(* A step of the tick thread takes nothing away from p, and adds to it     *)
(* only when it asks for a frame of p.                                     *)
Grows(p) == \/ Carried(p)' = Carried(p)
            \/ Asking(p)
            \/ UpdatePanel(p) /\ RenderChanged(p)

(* Whatever the tick thread does, what is carried for p stays in order,    *)
(* and what it records is what it just asked for, or left as it was.       *)
LEMMA TickAhead ==
  ASSUME TypeOK, Phased, Blocked, Answering, Tick, NEW p \in Panel, Aged(p), Numbered(p)
  PROVE  Aged(p)' /\ Numbered(p)' /\ (Recorded(p) => Recorded(p)') /\ Grows(p)
<1>0. /\ tracked \in [Surface -> SurfaceState \cup {None}] /\ asked \in Nat /\ picture \in Nat
      /\ UNCHANGED <<window, drawing, pending>>
  BY TickSteps DEF TypeOK
<1>a. \A q \in Carried(p) : q.seq <= q.seq /\ q.seq <= asked /\ q.seq \in Nat
  BY CarriedPlaces DEF Numbered
<1>1. CASE Idles
  <2>0. PICK c : c = [cmd |-> "Shutdown"]
    OBVIOUS
  <2>1. c \in Command /\ c.cmd = "Shutdown" /\ (commands' = commands \/ commands' = Append(commands, c))
    BY <1>1, <2>0, CommandTyped DEF Idles
  <2>2. wait = None /\ UNCHANGED <<wait, asked, tracked, jobs, reply>> /\ picture' \in {picture, picture + 1}
    <3>1. ~NowAnswered
      BY <1>1 DEF Idles, NowAnswered
    <3> QED BY <1>1, <3>1, TickSteps DEF Idles
  <2>3. Aged(p)' /\ Numbered(p)' /\ Carried(p)' = Carried(p) \cup {} /\ Pictures(p)' = Pictures(p)
    BY <1>0, <2>1, <2>2, AskedAged DEF Framed
  <2>4. ASSUME Recorded(p) PROVE Recorded(p)'
    <3>1. tracked[p] # None => Lives(p)'
      BY <1>0, <2>1, <2>4, AppendLives DEF Recorded
    <3>2. Settled(p)' => Settled(p)
      BY <2>2 DEF Settled
    <3> QED BY <1>a, <2>2, <2>3, <2>4, <3>1, <3>2, StaysRecorded
  <2> QED BY <2>3, <2>4 DEF Grows
<1>2. ASSUME NEW s \in Surface, Exit(s)
      PROVE  Aged(p)' /\ Numbered(p)' /\ (Recorded(p) => Recorded(p)') /\ Grows(p)
  <2>0. PICK e, c : e = [job |-> "Forget", id |-> s] /\ c = [cmd |-> "Delete", id |-> s]
    OBVIOUS
  <2>1. e \in Job /\ e.job = "Forget" /\ c \in Command /\ c.cmd = "Delete" /\ c.id = s
    BY <2>0, CommandTyped, JobTyped
  <2>2. /\ jobs' = Append(jobs, e) /\ commands' = Append(commands, c)
        /\ UNCHANGED <<reply, asked, wait, picture>> /\ tracked' = [tracked EXCEPT ![s] = None]
    BY <1>2, <2>0 DEF Exit
  <2>3. Aged(p)' /\ Numbered(p)' /\ Carried(p)' = Carried(p) \cup {} /\ Pictures(p)' = Pictures(p)
    BY <1>0, <2>1, <2>2, AskedAged DEF Framed
  <2>4. Grows(p)
    BY <2>3 DEF Grows
  <2>5. CASE s = p
    <3>1. tracked'[p] = None
      BY <1>0, <2>2, <2>5
    <3> QED BY <2>3, <2>4, <3>1 DEF Recorded, Settled
  <2>6. CASE s # p
    <3>1. tracked'[p] = tracked[p]
      BY <1>0, <2>2, <2>6
    <3>2. Recorded(p) /\ tracked[p] # None => Lives(p)'
      BY <1>0, <2>1, <2>2, <2>6, AppendLives DEF Recorded
    <3>3. Settled(p)' => Settled(p)
      BY <2>2, <3>1 DEF Settled
    <3> QED BY <1>a, <2>2, <2>3, <2>4, <3>1, <3>2, <3>3, StaysRecorded
  <2> QED BY <2>5, <2>6
<1>3. ASSUME NEW s \in Surface, Asking(s)
      PROVE  Aged(p)' /\ Numbered(p)' /\ (Recorded(p) => Recorded(p)') /\ Grows(p)
  <2>0. PICK r, e, N : /\ r = RequestFor(s, desired[s]) /\ e = [job |-> "Now", request |-> r]
                       /\ N = IF s = p THEN {r} ELSE {}
    OBVIOUS
  <2>1. e \in Job /\ e.job = "Now" /\ e.request = r
    BY <1>3, <2>0, RequestTyped, JobTyped DEF Asking
  <2>2. r.id = s /\ r.seq = asked + 1
    BY <2>0 DEF RequestFor
  <2>3. /\ jobs' = Append(jobs, e) /\ asked' = asked + 1 /\ UNCHANGED <<commands, tracked, picture>> /\ wait = None
        /\ wait' # None /\ wait'.id = s
    <3>1. wait' \in Waiting /\ wait'.id = s
      BY <1>3, RequestTyped DEF Asking, AskNow, Waiting
    <3>2. wait' # None
      BY <3>1, NoneAssumption
    <3> QED BY <1>3, <2>0, <3>1, <3>2 DEF Asking, AskNow
  <2>4. reply' = reply
    <3>1. ~NowAnswered
      BY <2>3 DEF NowAnswered
    <3> QED BY <3>1, TickSteps
  <2>5. Aged(p)' /\ Numbered(p)' /\ Carried(p)' = Carried(p) \cup N /\ Pictures(p)' = Pictures(p)
    <3>1. N = IF e.job # "Forget" /\ e.request.id = p THEN {e.request} ELSE {}
      BY <2>0, <2>1, <2>2
    <3>2. e.job # "Forget" => e.request.seq = asked + 1 /\ asked' = asked + 1
      BY <2>1, <2>2, <2>3
    <3>3. asked' \in {asked, asked + 1} /\ jobs' = Append(jobs, e) /\ UNCHANGED <<commands, reply, window, drawing, pending>>
      BY <1>0, <2>3, <2>4
    <3> QED BY <2>1, <3>1, <3>2, <3>3, AskedAged
  <2>6. ASSUME Recorded(p) PROVE Recorded(p)'
    <3>1. tracked[p] # None => Lives(p)'
      BY <1>0, <2>3, <2>6, AppendLives DEF Recorded
    <3>2. Settled(p)' => Settled(p) /\ N = {}
      BY <2>0, <2>3 DEF Settled
    <3> QED BY <1>a, <2>3, <2>5, <2>6, <3>1, <3>2, StaysRecorded
  <2>7. Grows(p)
    <3>1. s # p => N = {}
      BY <2>0
    <3> QED BY <1>3, <2>5, <3>1 DEF Grows
  <2> QED BY <2>5, <2>6, <2>7
<1>4. ASSUME NEW q \in Panel, UpdatePanel(q)
      PROVE  Aged(p)' /\ Numbered(p)' /\ (Recorded(p) => Recorded(p)') /\ Grows(p)
  <2>0. PICK r, e, m, N, kept :
          /\ r = RequestFor(q, desired[q]) /\ e = [job |-> "Repaint", request |-> r]
          /\ m = [cmd |-> "Move", id |-> q, spec |-> desired[q]]
          /\ N = IF RenderChanged(q) /\ q = p THEN {r} ELSE {}
          /\ kept = [spec |-> desired[q], backdrop |-> Behind(q, desired[q]), pictures |-> Stamp(desired[q].content)]
    OBVIOUS
  <2>1. /\ wait = None /\ UNCHANGED <<wait, reply, picture>> /\ tracked[q] # None /\ desired[q] # None /\ ~Resized(q)
        /\ commands' = commands \/ commands' = Append(commands, m)
        /\ \/ RenderChanged(q) /\ jobs' = Append(jobs, e) /\ asked' = asked + 1
           \/ ~RenderChanged(q) /\ UNCHANGED <<jobs, asked>>
        /\ tracked' = [tracked EXCEPT ![q] = kept]
    BY <1>4, <2>0 DEF UpdatePanel, Updating, Record
  <2>2. /\ e \in Job /\ e.job = "Repaint" /\ e.request = r /\ m \in Command /\ m.cmd = "Move"
        /\ Stamp(desired[q].content) \in Nat /\ desired[q] \in SurfaceSpec
    BY <2>0, <2>1, RequestTyped, JobTyped, CommandTyped
  <2>3. /\ r.id = q /\ r.seq = asked + 1 /\ r.content = desired[q].content /\ r.size = desired[q].size
        /\ r.backdrop = Behind(q, desired[q])
    BY <2>0 DEF RequestFor
  <2>4. Aged(p)' /\ Numbered(p)' /\ Carried(p)' = Carried(p) \cup N /\ Pictures(p)' = Pictures(p)
    <3>1. m.cmd \notin Framed
      BY <2>2 DEF Framed
    <3>2. \/ jobs' = jobs /\ N = {}
          \/ \E j \in Job : /\ jobs' = Append(jobs, j)
                            /\ N = IF j.job # "Forget" /\ j.request.id = p THEN {j.request} ELSE {}
                            /\ j.job # "Forget" => j.request.seq = asked + 1 /\ asked' = asked + 1
      BY <2>0, <2>1, <2>2, <2>3
    <3>3. commands' = commands \/ \E c \in Command : c.cmd \notin Framed /\ commands' = Append(commands, c)
      BY <2>1, <2>2, <3>1
    <3>4. asked' \in {asked, asked + 1}
      BY <2>1
    <3> QED BY <1>0, <2>1, <3>2, <3>3, <3>4, AskedAged
  <2>5. Recorded(p) /\ tracked[p] # None => Lives(p)'
    BY <1>0, <2>1, <2>2, AppendLives DEF Recorded
  <2>6. Grows(p)
    <3>1. ~(RenderChanged(q) /\ q = p) => N = {}
      BY <2>0
    <3> QED BY <1>4, <2>4, <3>1 DEF Grows
  <2>7. CASE q # p
    <3>1. tracked'[p] = tracked[p] /\ N = {}
      BY <1>0, <2>0, <2>1, <2>7
    <3>2. Settled(p)' => Settled(p)
      BY <2>1, <3>1 DEF Settled
    <3> QED BY <1>a, <2>1, <2>4, <2>5, <2>6, <3>1, <3>2, StaysRecorded
  <2>8. CASE q = p
    <3>1. /\ tracked'[p].spec = desired[p] /\ tracked'[p].backdrop = Behind(p, desired[p])
          /\ tracked'[p].pictures = Stamp(desired[p].content)
      BY <1>0, <2>0, <2>1, <2>8
    <3>2. Stamped(p)'
      <4>1. Stamp(desired[p].content)' = Stamp(desired[p].content)
        <5>1. desired' = desired
          BY <1>4 DEF UpdatePanel
        <5> QED BY <2>1, <5>1 DEF Stamp
      <4>2. tracked'[p].pictures <= (IF tracked'[p].spec.content \in Figures THEN picture' ELSE 0)
        BY <1>0, <2>1, <3>1 DEF Stamp
      <4> QED BY <4>2 DEF Stamped, Stamp
    <3>3. CASE RenderChanged(p)
      <4>1. N = {r} /\ r \in Carried(p)' /\ \A g \in Carried(p)' : g.seq <= r.seq
        BY <1>0, <1>a, <2>0, <2>3, <2>4, <2>8, <3>3
      <4>2. Told(p)'
        BY <2>3, <2>8, <3>1, <4>1 DEF Told, Top, Matches
      <4>3. Fresh(p)'
        <5> SUFFICES ASSUME NEW g \in Pictures(p)', \A h \in Carried(p)' : h.seq <= g.request.seq PROVE FALSE
          BY DEF Fresh, Top
        <5>1. g.request \in Carried(p) /\ g.request.seq \in Nat
          BY <2>4, PicturesCarried
        <5> QED BY <1>0, <1>a, <2>3, <4>1, <5>1
      <4> QED BY <2>1, <2>4, <2>5, <2>6, <2>8, <3>2, <4>2, <4>3 DEF Recorded
    <3>4. CASE ~RenderChanged(p)
      <4>1. N = {} /\ Carried(p)' = Carried(p)
        BY <2>0, <2>4, <2>8, <3>4
      <4>2. /\ tracked'[p].spec.content = tracked[p].spec.content
            /\ tracked'[p].spec.size = tracked[p].spec.size
            /\ tracked'[p].backdrop = tracked[p].backdrop
            /\ tracked'[p].pictures = tracked[p].pictures
        BY <2>1, <2>8, <3>1, <3>4 DEF RenderChanged, Resized
      <4>3. Recorded(p) => Told(p) /\ Fresh(p)
        BY <2>1, <2>8 DEF Recorded, Settled
      <4>4. Recorded(p) => Told(p)' /\ Fresh(p)'
        BY <1>a, <2>4, <4>1, <4>2, <4>3, KeptRecorded
      <4> QED BY <2>1, <2>4, <2>5, <2>6, <2>8, <3>2, <4>4 DEF Recorded
    <3> QED BY <3>3, <3>4
  <2> QED BY <2>7, <2>8
<1>5. NowAnswered => Grows(p)
  BY AnsweredAhead DEF Grows
<1> QED BY <1>1, <1>2, <1>3, <1>4, <1>5, AnsweredAhead, TickSteps

-----------------------------------------------------------------------------
(* The worker.                                                             *)

(* What is left of the jobs once the first is taken.                       *)
LEMMA JobTaken ==
  ASSUME TypeOK, jobs # <<>>
  PROVE  /\ jobs \in Seq(Job) /\ Head(jobs) \in Job /\ 1 \in DOMAIN jobs /\ Head(jobs) = jobs[1]
         /\ \A i \in DOMAIN Tail(jobs) : i + 1 \in DOMAIN jobs /\ Tail(jobs)[i] = jobs[i + 1]
<1>1. jobs \in Seq(Job)
  BY DEF TypeOK
<1>2. /\ Len(jobs) \in Nat /\ DOMAIN jobs = 1..Len(jobs) /\ Len(jobs) >= 1 /\ Head(jobs) = jobs[1]
      /\ DOMAIN Tail(jobs) = 1..(Len(jobs) - 1)
      /\ \A i \in 1..(Len(jobs) - 1) : Tail(jobs)[i] = jobs[i + 1]
  BY <1>1, Places
<1>3. \A i \in DOMAIN Tail(jobs) : i + 1 \in DOMAIN jobs /\ Tail(jobs)[i] = jobs[i + 1]
  BY <1>2
<1> QED BY <1>1, <1>2, <1>3, QueueTyped

(* The worker answers what it was asked.                                   *)
LEMMA WorkerAnswering ==
  ASSUME TypeOK, Blocked, Answering, Forgotten, Worker
  PROVE  Answering' /\ Forgotten'
<1>0. UNCHANGED <<wait, desired, asked, picture, tracked>>
  BY DEF Worker, AcceptRepaint, AcceptNow, AcceptForget, DrawNext, Rasterize, Deliver, tickVars
<1>a. (\A r : Answers(r)' <=> Answers(r)) /\ (wait # None => wait.pictures = Stamp(desired[wait.id].content)')
  BY <1>0 DEF Answers, Answering, Stamp
<1>b. ASSUME jobs' = jobs \/ (jobs # <<>> /\ jobs' = Tail(jobs))
      PROVE  Forgotten' /\ \A i \in DOMAIN jobs' : jobs'[i].job = "Now" => Answers(jobs'[i].request)
  <2>1. CASE jobs' = jobs
    BY <1>0, <2>1 DEF Forgotten, Answering
  <2>2. CASE jobs # <<>> /\ jobs' = Tail(jobs)
    <3>1. \A i \in DOMAIN jobs' : \E j \in DOMAIN jobs : jobs'[i] = jobs[j]
      BY <2>2, JobTaken
    <3> QED BY <1>0, <3>1 DEF Forgotten, Answering
  <2> QED BY <1>b, <2>1, <2>2
<1>c. ASSUME jobs' = jobs \/ (jobs # <<>> /\ jobs' = Tail(jobs)),
             Drawn' => Answers(drawing'.request) /\ (drawing'.picture # None => drawing'.picture = wait.pictures),
             reply' # None => Answers(reply'.request) /\ reply'.picture = wait.pictures
      PROVE  Answering' /\ Forgotten'
  BY <1>0, <1>a, <1>b, <1>c DEF Answering
<1>d. /\ reply # None => Answers(reply.request) /\ reply.picture = wait.pictures
      /\ Drawn => Answers(drawing.request) /\ (drawing.picture # None => drawing.picture = wait.pictures)
  BY DEF Answering
<1>1. CASE AcceptRepaint \/ AcceptForget
  <2>1. jobs # <<>> /\ jobs' = Tail(jobs) /\ UNCHANGED <<drawing, reply>>
    BY <1>1 DEF AcceptRepaint, AcceptForget
  <2> QED BY <1>c, <1>d, <2>1 DEF Drawn
<1>2. CASE AcceptNow
  <2>1. /\ jobs # <<>> /\ jobs' = Tail(jobs) /\ reply' = reply /\ Head(jobs).job = "Now"
        /\ drawing'.request = Head(jobs).request /\ drawing'.picture = None
    BY <1>2 DEF AcceptNow, Take
  <2>2. Answers(Head(jobs).request)
    BY <2>1, JobTaken DEF Answering
  <2> QED BY <1>c, <1>d, <2>1, <2>2
<1>3. CASE DrawNext
  <2>1. jobs' = jobs /\ reply' = reply /\ ~drawing'.now
    BY <1>3 DEF DrawNext, Take
  <2>2. ~Drawn'
    BY <2>1 DEF Drawn
  <2> QED BY <1>c, <1>d, <2>1, <2>2
<1>4. CASE Rasterize
  <2>1. /\ drawing \in Drawing /\ drawing # None /\ UNCHANGED <<jobs, reply>>
        /\ drawing' = [drawing EXCEPT !.picture = Stamp(drawing.request.content)]
    BY <1>4 DEF Rasterize, TypeOK
  <2>2. /\ drawing'.request = drawing.request /\ drawing'.now = drawing.now
        /\ drawing'.picture = Stamp(drawing.request.content)
    BY <2>1 DEF Drawing
  <2>3. Drawn => Answers(drawing.request) /\ Stamp(drawing.request.content) = wait.pictures
    BY DEF Blocked, Awaited, Answering, Answers
  <2>4. Drawn' => Drawn
    BY <2>1, <2>2 DEF Drawn
  <2> QED BY <1>c, <1>d, <2>1, <2>2, <2>3, <2>4
<1>5. CASE Deliver
  <2>1. /\ drawing # None /\ drawing.picture # None /\ drawing' = None /\ jobs' = jobs
        /\ \/ drawing.now /\ reply' = [request |-> drawing.request, picture |-> drawing.picture]
           \/ reply' = reply
    BY <1>5 DEF Deliver
  <2>2. Drawn => Answers(drawing.request) /\ drawing.picture = wait.pictures
    BY <2>1 DEF Answering
  <2>3. ~Drawn' /\ (drawing.now => Drawn)
    BY <2>1 DEF Drawn
  <2>4. reply' # None => Answers(reply'.request) /\ reply'.picture = wait.pictures
    <3>1. CASE drawing.now /\ reply' = [request |-> drawing.request, picture |-> drawing.picture]
      BY <2>2, <2>3, <3>1
    <3>2. CASE reply' = reply
      BY <1>d, <3>2
    <3> QED BY <2>1, <3>1, <3>2
  <2> QED BY <1>c, <2>1, <2>3, <2>4
<1> QED BY <1>1, <1>2, <1>3, <1>4, <1>5 DEF Worker

(* What the worker does to p, place by place: a request moves on towards   *)
(* the screen, or gives way to a later one.                                *)
LEMMA WorkerAhead ==
  ASSUME TypeOK, Blocked, Keyed, Forgotten, Worker, NEW p \in Panel, Aged(p), Numbered(p)
  PROVE  Aged(p)' /\ Numbered(p)' /\ (Recorded(p) => Recorded(p)') /\ (Settled(p) => Supersedes(p))
<1>0. /\ UNCHANGED <<wait, asked, picture, tracked, window>>
      /\ pending \in [Panel -> PanelRequest \cup {None}] /\ commands \in Seq(Command)
      /\ \A r \in Request : r # None
  BY NoneAssumption DEF TypeOK, Worker, AcceptRepaint, AcceptNow, AcceptForget, DrawNext, Rasterize, Deliver,
                        tickVars, presenterVars
<1>a. /\ Carried(p) = JobsOf(jobs, p) \cup Of(FramesOf(commands, p)) \cup Slot(p) \cup Being(p)
                        \cup Answer(p) \cup Of(Painted(p))
      /\ Carried(p)' = JobsOf(jobs, p)' \cup Of(FramesOf(commands, p))' \cup Slot(p)' \cup Being(p)'
                        \cup Answer(p)' \cup Of(Painted(p))'
      /\ \A r \in Carried(p) : r.seq \in Nat /\ r.seq <= r.seq
      /\ Painted(p)' = Painted(p) /\ Of(Painted(p))' = Of(Painted(p))
  <2>1. Carried(p)' = JobsOf(jobs, p)' \cup Of(FramesOf(commands, p))' \cup Slot(p)' \cup Being(p)'
                        \cup Answer(p)' \cup Of(Painted(p))'
    BY DEF Carried, JobsOf, FramesOf, Slot, Being, Answer, Painted, Framed, Of
  <2>2. Painted(p)' = Painted(p)
    BY <1>0 DEF Painted
  <2>3. Of(Painted(p))' = Of(Painted(p))
    BY <2>2 DEF Of
  <2> QED BY <2>1, <2>2, <2>3, CarriedPlaces
<1>b. ASSUME Carried(p)' \subseteq Carried(p) PROVE Numbered(p)'
  BY <1>0, <1>b DEF Numbered
<1>g. Carried(p)' = Carried(p) => Supersedes(p)
  BY <1>a DEF Supersedes
<1>c. ASSUME Carried(p)' \subseteq Carried(p), Recorded(p),
             commands' = commands \/ \E e \in Command : e.cmd # "Delete" /\ commands' = Append(commands, e),
             Settled(p) => /\ Pictures(p)' \subseteq Pictures(p)
                           /\ \A q \in Carried(p) : \E r \in Carried(p)' : q.seq <= r.seq
      PROVE  Recorded(p)'
  <2>1. tracked[p] # None => Lives(p)'
    BY <1>0, <1>c, AppendLives DEF Recorded
  <2>2. Settled(p)' => Settled(p)
    BY <1>0 DEF Settled
  <2> QED BY <1>0, <1>c, <2>1, <2>2, StaysRecorded
<1>d. ASSUME jobs # <<>>, jobs' = Tail(jobs)
      PROVE  /\ JobsOf(jobs, p) = JobsOf(jobs, p)' \cup
                   (IF Head(jobs).job # "Forget" /\ Head(jobs).request.id = p THEN {Head(jobs).request} ELSE {})
             /\ SortedJobs(jobs, p)'
             /\ Head(jobs).job # "Forget" /\ Head(jobs).request.id = p =>
                  Before({Head(jobs).request}, JobsOf(jobs, p)')
             /\ Head(jobs) \in Job
  <2>1. jobs \in Seq(Job) /\ SortedJobs(jobs, p) /\ Head(jobs) \in Job
    BY <1>d, JobTaken DEF Aged
  <2>2. /\ JobsOf(jobs, p) = JobsOf(Tail(jobs), p) \cup
             (IF Head(jobs).job # "Forget" /\ Head(jobs).request.id = p THEN {Head(jobs).request} ELSE {})
        /\ SortedJobs(Tail(jobs), p)
        /\ Head(jobs).job # "Forget" /\ Head(jobs).request.id = p =>
             Before({Head(jobs).request}, JobsOf(Tail(jobs), p))
    BY <1>d, <2>1, JobsQueue
  <2>3. JobsOf(jobs, p)' = JobsOf(Tail(jobs), p) /\ (SortedJobs(jobs, p)' <=> SortedJobs(Tail(jobs), p))
    BY <1>d DEF JobsOf, SortedJobs
  <2> QED BY <2>1, <2>2, <2>3
<1>e. ASSUME commands' = commands
      PROVE  /\ FramesOf(commands, p)' = FramesOf(commands, p) /\ SortedFrames(commands, p)'
             /\ Of(FramesOf(commands, p))' = Of(FramesOf(commands, p))
  BY <1>e DEF FramesOf, SortedFrames, Of, Aged
<1>f. ASSUME reply' = reply PROVE Answer(p)' = Answer(p) /\ Fetched(p)' = Fetched(p)
  BY <1>f DEF Answer, Fetched
<1>1. CASE AcceptRepaint
  <2>0. PICK r : r = Head(jobs).request
    OBVIOUS
  <2>1. /\ jobs # <<>> /\ jobs' = Tail(jobs) /\ UNCHANGED <<drawing, reply, commands>> /\ drawing = None
        /\ Head(jobs).job = "Repaint" /\ pending' = [pending EXCEPT ![r.id] = r]
    BY <1>1, <2>0 DEF AcceptRepaint
  <2>2. r \in Request /\ r.id \in Panel /\ r # None
    BY <1>0, <1>d, <2>0, <2>1 DEF Job, PanelRequest
  <2>3. Being(p) = {} /\ Being(p)' = {} /\ Draft(p)' = Draft(p)
    BY <2>1 DEF Being, Draft
  <2>4. Pictures(p)' \subseteq Pictures(p)
    BY <1>a, <1>e, <1>f, <2>1, <2>3 DEF Pictures
  <2>5. CASE r.id = p
    <3>1. Slot(p)' = {r}
      BY <1>0, <2>1, <2>2, <2>5 DEF Slot
    <3>2. JobsOf(jobs, p) = JobsOf(jobs, p)' \cup {r} /\ Before({r}, JobsOf(jobs, p)') /\ SortedJobs(jobs, p)'
      BY <1>d, <2>0, <2>1, <2>5
    <3>3. Aged(p)'
      BY <1>a, <1>e, <1>f, <2>1, <2>3, <3>1, <3>2 DEF Before, Aged
    <3>4. Carried(p)' \subseteq Carried(p)
      BY <1>a, <1>e, <1>f, <2>1, <2>3, <3>1, <3>2
    <3>5. ASSUME NEW q \in Carried(p) PROVE \E g \in Carried(p)' : q.seq <= g.seq
      <4>1. CASE q \in Carried(p)'
        BY <1>a, <3>5, <4>1
      <4>2. CASE q \notin Carried(p)'
        <5>1. q \in Slot(p) /\ r \in Carried(p)' /\ r \in JobsOf(jobs, p)
          BY <1>a, <1>e, <1>f, <2>1, <2>3, <3>1, <3>2, <3>5, <4>2
        <5>2. q.seq < r.seq /\ q.seq \in Nat /\ r.seq \in Nat
          BY <1>a, <5>1 DEF Aged, Before
        <5> QED BY <5>1, <5>2
      <4> QED BY <4>1, <4>2
    <3>6. Supersedes(p)
      BY <3>4, <3>5 DEF Supersedes
    <3> QED BY <1>b, <1>c, <2>1, <2>4, <3>3, <3>4, <3>5, <3>6
  <2>6. CASE r.id # p
    <3>1. Slot(p)' = Slot(p)
      BY <1>0, <2>1, <2>2, <2>6 DEF Slot
    <3>2. JobsOf(jobs, p) = JobsOf(jobs, p)' /\ SortedJobs(jobs, p)'
      BY <1>d, <2>0, <2>1, <2>6
    <3>3. Aged(p)'
      BY <1>a, <1>e, <1>f, <2>1, <2>3, <3>1, <3>2 DEF Before, Aged
    <3>4. Carried(p)' = Carried(p)
      BY <1>a, <1>e, <1>f, <2>1, <2>3, <3>1, <3>2
    <3> QED BY <1>a, <1>b, <1>c, <1>g, <2>1, <2>4, <3>3, <3>4
  <2> QED BY <2>5, <2>6
<1>2. CASE AcceptNow
  <2>0. PICK r : r = Head(jobs).request
    OBVIOUS
  <2>1. /\ jobs # <<>> /\ jobs' = Tail(jobs) /\ UNCHANGED <<reply, commands>> /\ drawing = None
        /\ Head(jobs).job = "Now" /\ pending' = [q \in Panel |-> IF q = r.id THEN None ELSE pending[q]]
        /\ drawing' = [request |-> r, now |-> TRUE, picture |-> None]
    BY <1>2, <2>0 DEF AcceptNow, Take
  <2>2. drawing' # None
    <3>1. r \in Request
      BY <1>d, <2>0, <2>1 DEF Job
    <3>2. drawing' \in Drawing
      BY <2>1, <3>1 DEF Drawing
    <3> QED BY <3>2, NoneAssumption
  <2>3. Being(p) = {} /\ Being(p)' = (IF r.id = p THEN {r} ELSE {}) /\ Draft(p) = {} /\ Draft(p)' = {}
    BY <2>1, <2>2 DEF Being, Draft
  <2>4. Pictures(p)' \subseteq Pictures(p)
    BY <1>a, <1>e, <1>f, <2>1, <2>3 DEF Pictures
  <2>5. CASE r.id = p
    <3>1. Slot(p)' = {}
      BY <1>0, <2>1, <2>5 DEF Slot
    <3>2. JobsOf(jobs, p) = JobsOf(jobs, p)' \cup {r} /\ Before({r}, JobsOf(jobs, p)') /\ SortedJobs(jobs, p)'
      BY <1>d, <2>0, <2>1, <2>5
    <3>3. Aged(p)'
      <4>1. Answer(p) = {}
        BY <2>0, <2>1, JobTaken DEF Blocked, Answer
      <4> QED BY <1>a, <1>e, <1>f, <2>1, <2>3, <2>5, <3>1, <3>2, <4>1 DEF Before, Aged
    <3>4. Carried(p)' \subseteq Carried(p)
      BY <1>a, <1>e, <1>f, <2>1, <2>3, <3>1, <3>2
    <3>5. ~Settled(p)
      BY <2>0, <2>1, <2>5, JobTaken DEF Blocked, Awaited, Settled
    <3> QED BY <1>b, <1>c, <2>1, <3>3, <3>4, <3>5
  <2>6. CASE r.id # p
    <3>1. Slot(p)' = Slot(p)
      BY <1>0, <2>1, <2>6 DEF Slot
    <3>2. JobsOf(jobs, p) = JobsOf(jobs, p)' /\ SortedJobs(jobs, p)'
      BY <1>d, <2>0, <2>1, <2>6
    <3>3. Aged(p)'
      BY <1>a, <1>e, <1>f, <2>1, <2>3, <2>6, <3>1, <3>2 DEF Before, Aged
    <3>4. Carried(p)' = Carried(p)
      BY <1>a, <1>e, <1>f, <2>1, <2>3, <2>6, <3>1, <3>2
    <3> QED BY <1>a, <1>b, <1>c, <1>g, <2>1, <2>4, <3>3, <3>4
  <2> QED BY <2>5, <2>6
<1>3. CASE AcceptForget
  <2>0. PICK s : s = Head(jobs).id
    OBVIOUS
  <2>1. /\ jobs # <<>> /\ jobs' = Tail(jobs) /\ UNCHANGED <<drawing, reply, commands>> /\ drawing = None
        /\ Head(jobs).job = "Forget" /\ pending' = [q \in Panel |-> IF q = s THEN None ELSE pending[q]]
    BY <1>3, <2>0 DEF AcceptForget
  <2>2. tracked[s] = None
    BY <2>0, <2>1, JobTaken DEF Forgotten
  <2>3. Being(p) = {} /\ Being(p)' = {} /\ Draft(p)' = Draft(p)
    BY <2>1 DEF Being, Draft
  <2>4. Pictures(p)' \subseteq Pictures(p)
    BY <1>a, <1>e, <1>f, <2>1, <2>3 DEF Pictures
  <2>5. JobsOf(jobs, p) = JobsOf(jobs, p)' /\ SortedJobs(jobs, p)'
    BY <1>d, <2>1
  <2>6. Slot(p)' = (IF s = p THEN {} ELSE Slot(p))
    BY <1>0, <2>1 DEF Slot
  <2>7. Aged(p)'
    BY <1>a, <1>e, <1>f, <2>1, <2>3, <2>5, <2>6 DEF Before, Aged
  <2>8. Carried(p)' \subseteq Carried(p) /\ (s # p => Carried(p)' = Carried(p))
    BY <1>a, <1>e, <1>f, <2>1, <2>3, <2>5, <2>6
  <2>9. Settled(p) => s # p
    BY <2>2 DEF Settled
  <2> QED BY <1>a, <1>b, <1>c, <1>g, <2>1, <2>4, <2>7, <2>8, <2>9
<1>4. CASE DrawNext
  <2>0. PICK q \in Due : pending' = [pending EXCEPT ![q] = None] /\ Take(pending[q], FALSE)
    BY <1>4 DEF DrawNext
  <2>1. /\ UNCHANGED <<jobs, reply, commands>> /\ drawing = None /\ jobs = <<>>
        /\ drawing' = [request |-> pending[q], now |-> FALSE, picture |-> None]
        /\ q \in Panel /\ pending[q] # None /\ pending[q].id = q
    BY <1>4, <2>0 DEF DrawNext, Take, Due, Keyed
  <2>2. drawing' # None
    <3>1. pending[q] \in PanelRequest
      BY <1>0, <2>1
    <3>2. drawing' \in Drawing
      BY <2>1, <3>1 DEF Drawing
    <3> QED BY <3>2, NoneAssumption
  <2>3. Being(p) = {} /\ Being(p)' = (IF q = p THEN {pending[p]} ELSE {}) /\ Draft(p) = {} /\ Draft(p)' = {}
    BY <2>1, <2>2 DEF Being, Draft
  <2>4. Pictures(p)' \subseteq Pictures(p)
    BY <1>a, <1>e, <1>f, <2>1, <2>3 DEF Pictures
  <2>5. Slot(p)' = (IF q = p THEN {} ELSE Slot(p)) /\ (q = p => Slot(p) = {pending[p]})
    BY <1>0, <2>0, <2>1 DEF Slot
  <2>6. JobsOf(jobs, p)' = JobsOf(jobs, p) /\ SortedJobs(jobs, p)'
    BY <2>1 DEF JobsOf, SortedJobs
  <2>7. Aged(p)'
    BY <1>a, <1>e, <1>f, <2>1, <2>3, <2>5, <2>6 DEF Before, Aged
  <2>8. Carried(p)' = Carried(p)
    BY <1>a, <1>e, <1>f, <2>1, <2>3, <2>5, <2>6
  <2> QED BY <1>a, <1>b, <1>c, <1>g, <2>1, <2>4, <2>7, <2>8
<1>5. CASE Rasterize
  <2>1. /\ drawing \in Drawing /\ drawing # None /\ UNCHANGED <<jobs, reply, pending, commands>> /\ drawing.picture = None
        /\ drawing' = [drawing EXCEPT !.picture = Stamp(drawing.request.content)]
    BY <1>5 DEF Rasterize, TypeOK
  <2>2. drawing'.request = drawing.request /\ drawing'.picture = Stamp(drawing.request.content) /\ drawing' # None
    <3>1. Stamp(drawing.request.content) \in Nat
      BY DEF TypeOK, Stamp
    <3>2. drawing' \in Drawing
      BY <2>1, <3>1 DEF Drawing
    <3> QED BY <2>1, <3>2, NoneAssumption DEF Drawing
  <2>3. Being(p)' = Being(p)
    BY <2>1, <2>2 DEF Being
  <2>4. JobsOf(jobs, p)' = JobsOf(jobs, p) /\ SortedJobs(jobs, p)' /\ Slot(p)' = Slot(p)
    BY <2>1 DEF JobsOf, SortedJobs, Slot, Aged
  <2>5. Aged(p)'
    BY <1>a, <1>e, <1>f, <2>1, <2>3, <2>4 DEF Before, Aged
  <2>6. Carried(p)' = Carried(p)
    BY <1>a, <1>e, <1>f, <2>1, <2>3, <2>4
  <2>7. ASSUME Recorded(p) PROVE Recorded(p)'
    <3>1. CASE drawing.request.id # p
      <4>1. Draft(p)' = {}
        BY <2>2, <3>1 DEF Draft
      <4>2. Pictures(p)' \subseteq Pictures(p)
        BY <1>a, <1>e, <1>f, <2>1, <4>1 DEF Pictures
      <4> QED BY <1>a, <1>c, <2>1, <2>6, <2>7, <4>2
    <3>2. CASE drawing.request.id = p
      <4>1. ASSUME Settled(p) PROVE Told(p)' /\ Fresh(p)'
        <5>1. PICK r \in Carried(p) : Top(p, r) /\ Matches(p, r)
          BY <2>7, <4>1 DEF Recorded, Told
        <5>2. Fresh(p) /\ Stamped(p)
          BY <2>7, <4>1 DEF Recorded, Settled
        <5>3. Told(p)'
          BY <1>0, <2>6, <5>1 DEF Told, Top, Matches
        <5>4. Fresh(p)'
          <6> SUFFICES ASSUME NEW g \in Pictures(p)', \A q \in Carried(p)' : q.seq <= g.request.seq
                       PROVE  g.picture >= tracked'[p].pictures
            BY DEF Fresh, Top
          <6>1. CASE g \in Pictures(p)
            BY <1>0, <2>6, <5>2, <6>1 DEF Fresh, Top
          <6>2. CASE g \notin Pictures(p)
            <7>1. g \in Draft(p)'
              BY <1>a, <1>e, <1>f, <2>1, <6>2 DEF Pictures
            <7>2. g.request = drawing.request /\ g.picture = Stamp(drawing.request.content)
              BY <2>2, <7>1 DEF Draft
            <7>3. g.request \in Carried(p)
              BY <1>a, <2>1, <3>2, <7>2 DEF Being
            <7>4. g.request.seq = r.seq
              <8>1. r.seq <= g.request.seq /\ g.request.seq <= r.seq
                BY <2>6, <5>1, <7>3 DEF Top
              <8> QED BY <1>a, <7>3, <8>1
            <7>5. g.request = r
              BY <7>3, <7>4 DEF Numbered
            <7>6. g.picture = Stamp(tracked[p].spec.content)
              BY <5>1, <7>2, <7>5 DEF Matches
            <7>7. g.picture \in Nat /\ tracked[p].pictures \in Nat
              <8>1. picture \in Nat /\ tracked \in [Surface -> SurfaceState \cup {None}]
                BY DEF TypeOK
              <8>2. tracked[p] \in SurfaceState
                BY <4>1, <8>1 DEF Settled
              <8>3. g.picture \in Nat
                BY <7>6, <8>1 DEF Stamp
              <8> QED BY <8>2, <8>3 DEF SurfaceState
            <7> QED BY <1>0, <5>2, <7>6, <7>7 DEF Stamped
          <6> QED BY <6>1, <6>2
        <5> QED BY <5>3, <5>4
      <4>2. tracked[p] # None => Lives(p)' /\ Stamped(p)'
        <5>1. tracked[p] # None => Lives(p)'
          BY <1>0, <2>1, <2>7, AppendLives DEF Recorded
        <5> QED BY <1>0, <2>7, <5>1 DEF Recorded, Stamped, Stamp
      <4> QED BY <1>0, <4>1, <4>2 DEF Recorded, Settled
    <3> QED BY <3>1, <3>2
  <2> QED BY <1>b, <1>g, <2>5, <2>6, <2>7
<1>6. CASE Deliver
  <2>0. PICK r, f, e : /\ r = drawing.request /\ f = [request |-> r, picture |-> drawing.picture]
                       /\ e = [cmd |-> "UpdatePicture", id |-> r.id, frame |-> f]
    OBVIOUS
  <2>1. /\ drawing \in Drawing /\ drawing # None /\ drawing.picture # None /\ drawing' = None
        /\ UNCHANGED <<jobs, pending>>
        /\ \/ drawing.now /\ reply' = f /\ commands' = commands
           \/ ~drawing.now /\ reply' = reply /\ commands' = Append(commands, e)
    BY <1>6, <2>0 DEF Deliver, TypeOK
  <2>2. f \in Frame /\ f # None /\ f.request = r /\ (~drawing.now => r.id \in Panel)
    <3>1. r \in Request /\ drawing.picture \in Nat /\ (~drawing.now => r.id \in Panel)
      BY <2>0, <2>1 DEF Drawing, PanelRequest
    <3>2. f \in Frame /\ f.request = r
      BY <2>0, <3>1 DEF Frame
    <3> QED BY <3>1, <3>2, NoneAssumption
  <2>3. /\ Being(p) = (IF r.id = p THEN {r} ELSE {}) /\ Being(p)' = {}
        /\ Draft(p) = (IF r.id = p THEN {f} ELSE {}) /\ Draft(p)' = {}
    BY <2>0, <2>1 DEF Being, Draft
  <2>4. JobsOf(jobs, p)' = JobsOf(jobs, p) /\ SortedJobs(jobs, p)' /\ Slot(p)' = Slot(p)
    BY <2>1 DEF JobsOf, SortedJobs, Slot, Aged
  <2>5. CASE drawing.now
    <3>1. Answer(p) = {} /\ Fetched(p) = {} /\ reply' = f /\ commands' = commands
      BY <2>1, <2>5 DEF Blocked, Drawn, Answer, Fetched
    <3>2. Answer(p)' = Being(p) /\ Fetched(p)' = Draft(p)
      BY <2>2, <2>3, <3>1 DEF Answer, Fetched
    <3>3. Aged(p)'
      BY <1>a, <1>e, <2>3, <2>4, <3>1, <3>2 DEF Before, Aged
    <3>4. Carried(p)' = Carried(p)
      BY <1>a, <1>e, <2>3, <2>4, <3>1, <3>2
    <3>5. Pictures(p)' \subseteq Pictures(p)
      BY <1>a, <1>e, <2>3, <3>1, <3>2 DEF Pictures
    <3> QED BY <1>a, <1>b, <1>c, <1>g, <3>1, <3>3, <3>4, <3>5
  <2>6. CASE ~drawing.now
    <3>1. /\ e \in Command /\ e.cmd = "UpdatePicture" /\ e.cmd \in Framed /\ e.id = r.id /\ e.frame = f
          /\ reply' = reply /\ commands' = Append(commands, e)
      BY <2>0, <2>1, <2>2, <2>6, CommandTyped DEF Framed
    <3>2. SortedFrames(commands, p) /\ (r.id = p => Before(Of(FramesOf(commands, p)), {f.request}))
      BY <2>2, <2>3 DEF Aged, Before
    <3>3. r.id = p => Answer(p) = {}
      BY <2>0, <2>1 DEF Blocked, Awaited, Answer
    <3>4. FramesOf(commands', p) = FramesOf(commands, p) \cup Draft(p) /\ SortedFrames(commands', p)
      <4>1. CASE r.id = p
        <5>1. FramesOf(Append(commands, e), p) = FramesOf(commands, p) \cup {e.frame} /\ SortedFrames(Append(commands, e), p)
          BY <1>0, <3>1, <3>2, <4>1, FramesSent
        <5> QED BY <2>3, <3>1, <4>1, <5>1
      <4>2. CASE r.id # p
        <5>1. FramesOf(Append(commands, e), p) = FramesOf(commands, p) /\ SortedFrames(Append(commands, e), p)
          BY <1>0, <3>1, <3>2, <4>2, FramesSent
        <5> QED BY <2>3, <3>1, <4>2, <5>1
      <4> QED BY <4>1, <4>2
    <3>5. /\ FramesOf(commands, p)' = FramesOf(commands, p) \cup Draft(p) /\ SortedFrames(commands, p)'
          /\ Of(FramesOf(commands, p))' = Of(FramesOf(commands, p)) \cup Being(p)
      <4>1. FramesOf(commands, p)' = FramesOf(commands, p) \cup Draft(p) /\ SortedFrames(commands, p)'
        BY <3>4 DEF FramesOf, SortedFrames
      <4>2. Of(Draft(p)) = Being(p)
        BY <2>2, <2>3 DEF Of
      <4>3. Of(FramesOf(commands, p))' = Of(FramesOf(commands, p)) \cup Of(Draft(p))
        BY <4>1 DEF Of
      <4> QED BY <4>1, <4>2, <4>3
    <3>6. Aged(p)'
      <4>1. Answer(p)' = Answer(p) /\ Of(Painted(p))' = Of(Painted(p))
        BY <1>a, <1>f, <3>1
      <4>2. /\ Before(Of(Painted(p)), Of(FramesOf(commands, p)) \cup Being(p))
            /\ Before(Of(Painted(p)) \cup Of(FramesOf(commands, p)) \cup Being(p), Answer(p) \cup Slot(p) \cup JobsOf(jobs, p))
            /\ Before(Slot(p), JobsOf(jobs, p))
        <5>1. Before(Being(p), Answer(p) \cup Slot(p) \cup JobsOf(jobs, p))
          <6>1. CASE r.id = p
            BY <3>3, <6>1 DEF Aged, Before
          <6>2. CASE r.id # p
            BY <2>3, <6>2 DEF Before
          <6> QED BY <6>1, <6>2
        <5> QED BY <5>1 DEF Aged, Before
      <4>3. /\ Before(Of(Painted(p)), Of(FramesOf(commands, p)))'
            /\ Before(Of(Painted(p)) \cup Of(FramesOf(commands, p)), Being(p) \cup Answer(p) \cup Slot(p) \cup JobsOf(jobs, p))'
            /\ Before(Being(p), Slot(p) \cup JobsOf(jobs, p))'
            /\ Before(Slot(p), JobsOf(jobs, p))'
        BY <2>3, <2>4, <3>5, <4>1, <4>2 DEF Before
      <4> QED BY <2>4, <3>5, <4>3 DEF Aged
    <3>7. Carried(p)' = Carried(p)
      <4>1. Answer(p)' = Answer(p)
        BY <1>f, <3>1
      <4>2. Carried(p)' = JobsOf(jobs, p) \cup (Of(FramesOf(commands, p)) \cup Being(p)) \cup Slot(p) \cup {}
                            \cup Answer(p) \cup Of(Painted(p))
        BY <1>a, <2>3, <2>4, <3>5, <4>1
      <4>3. Carried(p) = JobsOf(jobs, p) \cup Of(FramesOf(commands, p)) \cup Slot(p) \cup Being(p)
                            \cup Answer(p) \cup Of(Painted(p))
        BY <1>a
      <4> QED BY <4>2, <4>3
    <3>8. Pictures(p)' \subseteq Pictures(p)
      BY <1>a, <1>f, <2>3, <3>1, <3>5 DEF Pictures
    <3> QED BY <1>a, <1>b, <1>c, <1>g, <3>1, <3>6, <3>7, <3>8
  <2> QED BY <2>5, <2>6
<1> QED BY <1>1, <1>2, <1>3, <1>4, <1>5, <1>6 DEF Worker

-----------------------------------------------------------------------------
(* The presenter.                                                          *)

(* A command shows at most the frame it carries, on its own panel.         *)
LEMMA PresenterPaints ==
  ASSUME TypeOK, Presenter, NEW p \in Panel, NEW c, c = Head(commands)
  PROVE  /\ presenting /\ commands # <<>> /\ commands' = Tail(commands) /\ c \in Command
         /\ UNCHANGED <<tickVars, jobs, reply, workerVars>>
         /\ \/ c.cmd \in Framed /\ c.id = p /\ Painted(p)' = {c.frame}
            \/ c.cmd = "Delete" /\ c.id = p /\ Painted(p)' = {}
            \/ Painted(p)' = Painted(p)
         /\ c.cmd \in Framed /\ c.id = p /\ p \notin Unreliable =>
              \/ Painted(p)' = {c.frame}
              \/ c.cmd = "Resize" /\ window[p] = None
              \/ c.cmd = "UpdatePicture" /\ ~Fits(c)
<1>1. /\ presenting /\ commands # <<>> /\ commands' = Tail(commands)
      /\ UNCHANGED <<tickVars, jobs, reply, workerVars>>
  BY DEF Presenter, ApplyCreate, ApplyMove, ApplyResize, ApplyDelete, ApplyUpdatePicture,
         ApplyPaintWallpaper, ApplyShutdown, Received
<1>2. c \in Command
  <2>1. commands \in Seq(Command)
    BY DEF TypeOK
  <2> QED BY <1>1, <2>1, QueueTyped
<1>3. /\ window \in [Panel -> Window \cup {None}] /\ \A q \in Panel : window[q] # None => window[q] \in Window
      /\ \A w \in Window : w # None
  BY NoneAssumption DEF TypeOK
<1>4. ASSUME c.cmd # "Shutdown", c.id = p, p \notin Unreliable, NEW outcome \in Outcome PROVE outcome = "ok"
  BY <1>4 DEF Outcome, MayFail
<1> DEFINE Shows1 == \/ c.cmd \in Framed /\ c.id = p /\ Painted(p)' = {c.frame}
                     \/ c.cmd = "Delete" /\ c.id = p /\ Painted(p)' = {}
                     \/ Painted(p)' = Painted(p)
           Shows2 == c.cmd \in Framed /\ c.id = p /\ p \notin Unreliable =>
                       \/ Painted(p)' = {c.frame}
                       \/ c.cmd = "Resize" /\ window[p] = None
                       \/ c.cmd = "UpdatePicture" /\ ~Fits(c)
<1>5. ASSUME NEW outcome \in Outcome, ApplyCreate(outcome) PROVE Shows1 /\ Shows2
  <2>0. PICK w : w = [size |-> c.frame.request.size, place |-> c.spec.place, frame |-> c.frame]
    OBVIOUS
  <2>1. /\ c.cmd = "Create" /\ c.id \in Panel /\ c.spec \in SurfaceSpec /\ c.frame \in Frame
        /\ window' = IF outcome # "ok" THEN window ELSE [window EXCEPT ![c.id] = w]
    BY <1>2, <1>5, <2>0 DEF ApplyCreate, Received, Command
  <2>2. w # None /\ w.frame = c.frame
    <3>1. w \in Window
      BY <2>0, <2>1 DEF Window, SurfaceSpec, Frame, Request
    <3> QED BY <1>3, <2>0, <3>1
  <2>3. CASE outcome # "ok"
    <3>1. Painted(p)' = Painted(p) /\ ~(c.id = p /\ p \notin Unreliable)
      BY <1>4, <2>1, <2>3 DEF Painted
    <3> QED BY <3>1
  <2>4. CASE c.id = p /\ outcome = "ok"
    <3>1. window'[p] = w
      BY <1>3, <2>1, <2>4
    <3>2. Painted(p)' = {c.frame} /\ c.cmd \in Framed
      BY <2>1, <2>2, <3>1 DEF Painted, Framed
    <3> QED BY <2>4, <3>2
  <2>5. CASE c.id # p
    <3>1. window'[p] = window[p]
      BY <1>3, <2>1, <2>5
    <3>2. Painted(p)' = Painted(p)
      BY <3>1 DEF Painted
    <3> QED BY <2>5, <3>2
  <2> QED BY <2>3, <2>4, <2>5
<1>6. ASSUME NEW outcome \in Outcome, ApplyMove(outcome) PROVE Shows1 /\ Shows2
  <2>1. /\ c.cmd = "Move" /\ c.id \in Panel /\ c.spec \in SurfaceSpec
        /\ window' = IF outcome # "ok" \/ window[c.id] = None THEN window
                     ELSE [window EXCEPT ![c.id].place = c.spec.place]
    BY <1>2, <1>6 DEF ApplyMove, Received, Command
  <2>2. /\ window[p] # None => window'[p] # None /\ window'[p].frame = window[p].frame
        /\ window[p] = None => window'[p] = None
    <3>1. CASE window' = window
      BY <3>1
    <3>2. CASE window[c.id] # None /\ window' = [window EXCEPT ![c.id].place = c.spec.place]
      <4>1. window[c.id] \in Window /\ window'[c.id] = [window[c.id] EXCEPT !.place = c.spec.place]
        BY <1>3, <2>1, <3>2
      <4>2. window'[c.id] \in Window /\ window'[c.id].frame = window[c.id].frame
        BY <2>1, <4>1 DEF Window, SurfaceSpec
      <4>3. p # c.id => window'[p] = window[p]
        BY <1>3, <3>2
      <4> QED BY <1>3, <3>2, <4>2, <4>3
    <3> QED BY <2>1, <3>1, <3>2
  <2>3. Painted(p)' = Painted(p) /\ c.cmd \notin Framed
    BY <2>1, <2>2 DEF Painted, Framed
  <2> QED BY <2>3
<1>7. ASSUME NEW outcome \in Outcome, ApplyResize(outcome) PROVE Shows1 /\ Shows2
  <2>1. /\ c.cmd = "Resize" /\ c.id \in Panel /\ c.frame \in Frame /\ c.frame.request.size \in Size
        /\ \/ (outcome = "geometry fails" \/ window[c.id] = None) /\ window' = window
           \/ /\ window[c.id] # None /\ outcome = "image fails"
              /\ window' = [window EXCEPT ![c.id].size = c.frame.request.size]
           \/ /\ window[c.id] # None
              /\ window' = [window EXCEPT ![c.id].size = c.frame.request.size, ![c.id].frame = c.frame]
    <3>1. c.cmd = "Resize" /\ c.id \in Panel /\ c.frame \in Frame
      BY <1>2, <1>7 DEF ApplyResize, Received, Command
    <3>2. c.frame.request.size \in Size
      BY <3>1 DEF Frame, Request
    <3> QED BY <1>7, <3>1, <3>2 DEF ApplyResize
  <2>2. CASE c.id # p
    <3>1. window'[p] = window[p]
      BY <1>3, <2>1, <2>2
    <3>2. Painted(p)' = Painted(p)
      BY <3>1 DEF Painted
    <3> QED BY <2>2, <3>2
  <2>3. CASE c.id = p
    <3>1. CASE (outcome = "geometry fails" \/ window[p] = None) /\ window' = window
      <4>1. Painted(p)' = Painted(p)
        BY <3>1 DEF Painted
      <4> QED BY <1>4, <2>1, <2>3, <3>1, <4>1
    <3>2. CASE window[p] # None /\ outcome = "image fails" /\ window' = [window EXCEPT ![p].size = c.frame.request.size]
      <4>1. window[p] \in Window /\ window'[p] = [window[p] EXCEPT !.size = c.frame.request.size]
        BY <1>3, <3>2
      <4>2. window'[p] \in Window /\ window'[p].frame = window[p].frame
        BY <2>1, <4>1 DEF Window
      <4>3. Painted(p)' = Painted(p)
        BY <1>3, <3>2, <4>2 DEF Painted
      <4> QED BY <1>4, <2>1, <2>3, <3>2, <4>3
    <3>3. CASE /\ window[p] # None
               /\ window' = [window EXCEPT ![p].size = c.frame.request.size, ![p].frame = c.frame]
      <4>1. window[p] \in Window /\ window'[p] = [window[p] EXCEPT !.size = c.frame.request.size, !.frame = c.frame]
        BY <1>3, <3>3
      <4>2. window'[p] \in Window /\ window'[p].frame = c.frame
        BY <2>1, <4>1 DEF Window
      <4>3. Painted(p)' = {c.frame} /\ c.cmd \in Framed
        BY <1>3, <2>1, <4>2 DEF Painted, Framed
      <4> QED BY <2>3, <4>3
    <3> QED BY <2>1, <2>3, <3>1, <3>2, <3>3
  <2> QED BY <2>2, <2>3
<1>8. ASSUME ApplyDelete PROVE Shows1 /\ Shows2
  <2>1. c.cmd = "Delete" /\ window' = [q \in Panel |-> IF q = c.id THEN None ELSE window[q]]
    BY <1>8 DEF ApplyDelete, Received
  <2>2. c.id = p => Painted(p)' = {}
    BY <2>1 DEF Painted
  <2>3. c.id # p => Painted(p)' = Painted(p)
    BY <2>1 DEF Painted
  <2>4. c.cmd \notin Framed
    BY <2>1 DEF Framed
  <2> QED BY <2>1, <2>2, <2>3, <2>4
<1>9. ASSUME NEW outcome \in Outcome, ApplyUpdatePicture(outcome) PROVE Shows1 /\ Shows2
  <2>1. /\ c.cmd = "UpdatePicture" /\ c.id \in Panel /\ c.frame \in Frame
        /\ window' = IF Fits(c) /\ outcome = "ok" THEN [window EXCEPT ![c.id].frame = c.frame] ELSE window
    BY <1>2, <1>9 DEF ApplyUpdatePicture, Received, Command
  <2>2. CASE ~(Fits(c) /\ outcome = "ok")
    <3>1. Painted(p)' = Painted(p)
      BY <2>1, <2>2 DEF Painted
    <3> QED BY <1>4, <2>1, <2>2, <3>1
  <2>3. CASE Fits(c) /\ outcome = "ok" /\ c.id # p
    <3>1. window'[p] = window[p]
      BY <1>3, <2>1, <2>3
    <3>2. Painted(p)' = Painted(p)
      BY <3>1 DEF Painted
    <3> QED BY <2>3, <3>2
  <2>4. CASE Fits(c) /\ outcome = "ok" /\ c.id = p
    <3>1. window[p] \in Window /\ window'[p] = [window[p] EXCEPT !.frame = c.frame]
      BY <1>3, <2>1, <2>4 DEF Fits
    <3>2. window'[p] \in Window /\ window'[p].frame = c.frame
      BY <2>1, <3>1 DEF Window
    <3>3. Painted(p)' = {c.frame} /\ c.cmd \in Framed
      BY <1>3, <2>1, <3>2 DEF Painted, Framed
    <3> QED BY <2>4, <3>3
  <2> QED BY <2>2, <2>3, <2>4
<1>10. ASSUME (\E outcome \in Outcome : ApplyPaintWallpaper(outcome)) \/ ApplyShutdown PROVE Shows1 /\ Shows2
  <2>1. c.cmd \in {"PaintWallpaper", "Shutdown"} /\ window' = window
    BY <1>10 DEF ApplyPaintWallpaper, ApplyShutdown, Received
  <2>2. Painted(p)' = Painted(p) /\ c.cmd \notin Framed
    BY <2>1 DEF Painted, Framed
  <2> QED BY <2>2
<1>11. Shows1 /\ Shows2
  <2> HIDE DEF Shows1, Shows2
  <2> QED BY <1>5, <1>6, <1>7, <1>8, <1>9, <1>10 DEF Presenter
<1> QED BY <1>1, <1>2, <1>11

(* What a reliable panel shows is never lost without something newer still *)
(* to come.                                                                *)
LEMMA PresenterAhead ==
  ASSUME TypeOK, StaleSizeOnlyWhenGone, Presenter, NEW p \in Panel, Aged(p), Numbered(p)
  PROVE  /\ Aged(p)' /\ Numbered(p)'
         /\ p \notin Unreliable /\ Recorded(p) => Recorded(p)' /\ (Settled(p) => Supersedes(p))
<1>0. PICK c, H, F : /\ c = Head(commands)
                     /\ H = IF c.cmd \in Framed /\ c.id = p THEN {c.frame} ELSE {}
                     /\ F = FramesOf(Tail(commands), p)
  OBVIOUS
<1>1. /\ presenting /\ commands # <<>> /\ commands' = Tail(commands) /\ c \in Command
      /\ UNCHANGED <<wait, asked, picture, tracked, jobs, reply, pending, drawing>>
      /\ commands \in Seq(Command) /\ commands[1] = c /\ 1 \in DOMAIN commands
  <2>1. /\ presenting /\ commands # <<>> /\ commands' = Tail(commands) /\ c \in Command
        /\ UNCHANGED <<tickVars, jobs, reply, workerVars>>
    BY <1>0, PresenterPaints
  <2>2. commands \in Seq(Command)
    BY DEF TypeOK
  <2>3. Len(commands) >= 1 /\ DOMAIN commands = 1..Len(commands) /\ Head(commands) = commands[1] /\ Len(commands) \in Nat
    BY <2>1, <2>2, Places
  <2> QED BY <1>0, <2>1, <2>2, <2>3 DEF tickVars, workerVars
<1>2. /\ H # {} => H = {c.frame} /\ c.cmd \in Framed /\ c.id = p
      /\ c.cmd \in Framed /\ c.id = p => H = {c.frame}
      /\ \/ Painted(p)' = Painted(p)
         \/ H = {c.frame} /\ Painted(p)' = H
         \/ c.cmd = "Delete" /\ c.id = p /\ H = {} /\ Painted(p)' = {}
      /\ H # {} /\ p \notin Unreliable => Painted(p)' = H \/ (c.cmd # "Create" /\ window[p] = None)
  <2>1. H # {} => H = {c.frame} /\ c.cmd \in Framed /\ c.id = p
    BY <1>0
  <2>2. c.cmd \in Framed /\ c.id = p => H = {c.frame}
    BY <1>0
  <2>3. c.cmd = "Delete" => c.cmd \notin Framed
    BY DEF Framed
  <2>4. c.cmd = "UpdatePicture" /\ c.id = p /\ p \notin Unreliable /\ ~Fits(c) => window[p] = None
    BY <1>0, <1>1 DEF StaleSizeOnlyWhenGone
  <2>5. \/ c.cmd \in Framed /\ c.id = p /\ Painted(p)' = {c.frame}
        \/ c.cmd = "Delete" /\ c.id = p /\ Painted(p)' = {}
        \/ Painted(p)' = Painted(p)
    BY <1>0, PresenterPaints
  <2>6. c.cmd \in Framed /\ c.id = p /\ p \notin Unreliable =>
          \/ Painted(p)' = {c.frame}
          \/ c.cmd = "Resize" /\ window[p] = None
          \/ c.cmd = "UpdatePicture" /\ ~Fits(c)
    BY <1>0, PresenterPaints
  <2> QED BY <2>1, <2>2, <2>3, <2>4, <2>5, <2>6
<1>3. /\ FramesOf(commands, p) = F \cup H /\ FramesOf(commands, p)' = F /\ SortedFrames(commands, p)'
      /\ Before(Of(H), Of(F))
  <2>1. SortedFrames(commands, p)
    BY DEF Aged
  <2>2. /\ FramesOf(commands, p) = F \cup H /\ SortedFrames(Tail(commands), p)
        /\ c.cmd \in Framed /\ c.id = p => Before({c.frame.request}, Of(F))
    BY <1>0, <1>1, <2>1, FramesQueue
  <2>3. Of(H) = {} \/ (c.cmd \in Framed /\ c.id = p /\ Of(H) = {c.frame.request})
    BY <1>2 DEF Of
  <2>4. Before(Of(H), Of(F))
    BY <2>2, <2>3 DEF Before
  <2>5. FramesOf(commands, p)' = F /\ SortedFrames(commands, p)'
    BY <1>0, <1>1, <2>2 DEF FramesOf, SortedFrames
  <2> QED BY <2>2, <2>4, <2>5
<1>4. /\ Of(FramesOf(commands, p)) = Of(F) \cup Of(H) /\ Of(FramesOf(commands, p))' = Of(F)
      /\ Of(Painted(p))' \subseteq Of(Painted(p)) \cup Of(H)
      /\ Being(p)' = Being(p) /\ Answer(p)' = Answer(p) /\ Slot(p)' = Slot(p)
      /\ JobsOf(jobs, p)' = JobsOf(jobs, p) /\ SortedJobs(jobs, p)'
      /\ Draft(p)' = Draft(p) /\ Fetched(p)' = Fetched(p)
  <2>1. Of(FramesOf(commands, p)) = Of(F) \cup Of(H) /\ Of(FramesOf(commands, p))' = Of(F)
    BY <1>3 DEF Of
  <2>2. Of(Painted(p))' \subseteq Of(Painted(p)) \cup Of(H)
    BY <1>2 DEF Of
  <2>3. Being(p)' = Being(p) /\ Answer(p)' = Answer(p) /\ Slot(p)' = Slot(p)
    BY <1>1 DEF Being, Answer, Slot
  <2>4. JobsOf(jobs, p)' = JobsOf(jobs, p) /\ SortedJobs(jobs, p)'
    BY <1>1 DEF JobsOf, SortedJobs, Aged
  <2>5. Draft(p)' = Draft(p) /\ Fetched(p)' = Fetched(p)
    BY <1>1 DEF Draft, Fetched
  <2> QED BY <2>1, <2>2, <2>3, <2>4, <2>5
<1>5. Aged(p)'
  <2>1. /\ Before(Of(Painted(p)), Of(FramesOf(commands, p)))'
        /\ Before(Of(Painted(p)) \cup Of(FramesOf(commands, p)), Being(p) \cup Answer(p) \cup Slot(p) \cup JobsOf(jobs, p))'
        /\ Before(Being(p), Slot(p) \cup JobsOf(jobs, p))'
        /\ Before(Slot(p), JobsOf(jobs, p))'
    BY <1>3, <1>4 DEF Before, Aged
  <2> QED BY <1>3, <1>4, <2>1 DEF Aged
<1>6. /\ Carried(p) = JobsOf(jobs, p) \cup (Of(F) \cup Of(H)) \cup Slot(p) \cup Being(p)
                        \cup Answer(p) \cup Of(Painted(p))
      /\ Carried(p)' = JobsOf(jobs, p) \cup Of(F) \cup Slot(p) \cup Being(p)
                        \cup Answer(p) \cup Of(Painted(p))'
  <2>1. Carried(p)' = JobsOf(jobs, p)' \cup Of(FramesOf(commands, p))' \cup Slot(p)' \cup Being(p)'
                        \cup Answer(p)' \cup Of(Painted(p))'
    BY DEF Carried, JobsOf, FramesOf, Slot, Being, Answer, Painted, Framed, Of
  <2> QED BY <1>4, <2>1, CarriedPlaces
<1>7. Carried(p)' \subseteq Carried(p) /\ \A q \in Carried(p) : q.seq \in Nat /\ q.seq <= q.seq
  <2>1. Carried(p)' \subseteq Carried(p)
    BY <1>4, <1>6
  <2> QED BY <2>1, CarriedPlaces
<1>8. Numbered(p)'
  BY <1>1, <1>7 DEF Numbered
<1>9. Pictures(p)' \subseteq Pictures(p)
  BY <1>2, <1>3, <1>4 DEF Pictures
<1>10. ASSUME Lives(p), c.cmd # "Create", window[p] = None \/ Deletes(p, 1) PROVE Of(F) # {}
  <2>1. PICK j \in DOMAIN commands : commands[j].cmd = "Create" /\ commands[j].id = p
    BY <1>1, <1>10 DEF Lives
  <2>2. j # 1
    BY <1>1, <1>10, <2>1
  <2>3. j - 1 \in DOMAIN Tail(commands) /\ Tail(commands)[j - 1] = commands[j]
    <3>1. /\ Len(commands) \in Nat /\ DOMAIN commands = 1..Len(commands)
          /\ DOMAIN Tail(commands) = 1..(Len(commands) - 1)
          /\ \A i \in 1..(Len(commands) - 1) : Tail(commands)[i] = commands[i + 1]
      BY <1>1, Places
    <3>2. j \in Nat /\ j - 1 \in 1..(Len(commands) - 1) /\ (j - 1) + 1 = j
      BY <2>2, <3>1
    <3> QED BY <3>1, <3>2
  <2>4. commands[j].frame \in F
    <3>1. commands[j].cmd \in Framed
      BY <2>1 DEF Framed
    <3> QED BY <1>0, <2>1, <2>3, <3>1 DEF FramesOf
  <2> QED BY <2>4 DEF Of
<1>11. ASSUME p \notin Unreliable, Recorded(p), tracked[p] # None PROVE Lives(p)'
  <2>1. Lives(p)
    BY <1>11 DEF Recorded
  <2>2. window[p] # None /\ ~Deletes(p, 1) => window'[p] # None
    <3>1. ASSUME window[p] # None, ~Deletes(p, 1) PROVE Painted(p)' # {}
      <4>1. ~(c.cmd = "Delete" /\ c.id = p)
        BY <1>1, <3>1 DEF Deletes
      <4>2. Painted(p) # {}
        BY <3>1 DEF Painted
      <4> QED BY <1>2, <4>1, <4>2
    <3>2. Painted(p)' # {} => window'[p] # None
      BY DEF Painted
    <3> QED BY <3>1, <3>2
  <2>3. commands[1].cmd = "Create" /\ commands[1].id = p => window'[p] # None
    <3>1. ASSUME c.cmd = "Create", c.id = p PROVE Painted(p)' # {}
      <4>1. c.cmd \in Framed
        BY <3>1 DEF Framed
      <4> QED BY <1>2, <1>11, <3>1, <4>1
    <3>2. Painted(p)' # {} => window'[p] # None
      BY DEF Painted
    <3> QED BY <1>1, <3>1, <3>2
  <2> QED BY <1>1, <2>1, <2>2, <2>3, AppliedLives
<1>12. ASSUME p \notin Unreliable, Recorded(p), Settled(p), NEW q \in Carried(p)
       PROVE  \E r \in Carried(p)' : q.seq <= r.seq
  <2>1. CASE q \in Carried(p)'
    BY <1>7, <2>1
  <2>2. CASE q \notin Carried(p)'
    <3>1. q \in Of(H) \cup Of(Painted(p)) /\ q \notin Of(Painted(p))' /\ Lives(p)
      BY <1>6, <1>12, <2>2 DEF Recorded, Settled
    <3>2. ASSUME Of(F) # {} PROVE \E r \in Carried(p)' : q.seq <= r.seq
      <4>1. PICK r : r \in Of(F)
        BY <3>2
      <4>2. r \in Carried(p)' /\ r \in Carried(p)
        BY <1>6, <4>1
      <4>3. q.seq < r.seq
        BY <1>3, <1>4, <3>1, <4>1 DEF Aged, Before
      <4> QED BY <1>7, <4>2, <4>3
    <3>3. CASE Painted(p)' = H /\ H = {c.frame}
      <4>1. q \in Of(Painted(p)) /\ c.frame.request \in Of(H) /\ c.frame.request \in Of(Painted(p))'
        BY <3>1, <3>3 DEF Of
      <4>2. c.frame.request \in Carried(p)' /\ c.frame.request \in Carried(p)
        BY <1>6, <4>1
      <4>3. q.seq < c.frame.request.seq
        BY <1>4, <4>1 DEF Aged, Before
      <4> QED BY <1>7, <4>2, <4>3
    <3>4. CASE Painted(p)' = Painted(p) /\ Painted(p)' # H
      <4>1. Of(Painted(p))' = Of(Painted(p))
        BY <3>4 DEF Of
      <4>2. H # {}
        BY <3>1, <4>1 DEF Of
      <4>3. c.cmd # "Create" /\ window[p] = None
        BY <1>2, <1>12, <3>4, <4>2
      <4> QED BY <1>10, <3>1, <3>2, <4>3
    <3>5. CASE c.cmd = "Delete" /\ c.id = p
      <4>1. Deletes(p, 1)
        BY <1>1, <3>5 DEF Deletes
      <4> QED BY <1>10, <3>1, <3>2, <3>5, <4>1
    <3>6. CASE Painted(p)' = Painted(p) /\ Painted(p)' = H
      <4>1. Of(Painted(p))' = Of(H) /\ Of(Painted(p))' = Of(Painted(p))
        BY <3>6 DEF Of
      <4> QED BY <3>1, <4>1
    <3> QED BY <1>2, <3>3, <3>4, <3>5, <3>6
  <2> QED BY <2>1, <2>2
<1>13. ASSUME p \notin Unreliable, Recorded(p) PROVE Recorded(p)'
  <2>1. tracked' = tracked /\ picture' = picture /\ (Settled(p)' => Settled(p))
    BY <1>1 DEF Settled
  <2> QED BY <1>7, <1>9, <1>11, <1>12, <1>13, <2>1, StaysRecorded
<1>14. ASSUME p \notin Unreliable, Recorded(p), Settled(p) PROVE Supersedes(p)
  BY <1>7, <1>12, <1>14 DEF Supersedes
<1> QED BY <1>5, <1>8, <1>13, <1>14

-----------------------------------------------------------------------------
(* NInv is inductive, along with what is already known.                    *)
LEMMA NumberedInductive == IInv /\ SInv /\ NInv /\ [Next]_vars => NInv'
<1> SUFFICES ASSUME IInv, SInv, NInv, [Next]_vars PROVE NInv'
  OBVIOUS
<1>0. TypeOK /\ Phased /\ Blocked /\ Keyed /\ Answering /\ Forgotten /\ StaleSizeOnlyWhenGone
  BY SizesFit DEF IInv, SInv, NInv
<1>a. ASSUME Answering' /\ Forgotten',
             \A p \in Panel : Aged(p)' /\ Numbered(p)' /\ (p \notin Unreliable /\ Recorded(p) => Recorded(p)')
      PROVE  NInv'
  BY <1>a DEF NInv
<1>1. CASE Tick
  <2>1. \A p \in Panel : Aged(p)' /\ Numbered(p)' /\ (Recorded(p) => Recorded(p)')
    BY <1>0, <1>1, TickAhead DEF NInv
  <2> QED BY <1>0, <1>1, <1>a, <2>1, TickAnswering
<1>2. CASE Worker
  <2>1. \A p \in Panel : Aged(p)' /\ Numbered(p)' /\ (Recorded(p) => Recorded(p)')
    BY <1>0, <1>2, WorkerAhead DEF NInv
  <2> QED BY <1>0, <1>2, <1>a, <2>1, WorkerAnswering
<1>3. ASSUME UNCHANGED <<wait, desired, asked, picture, jobs, drawing, reply, tracked>> PROVE Answering' /\ Forgotten'
  BY <1>0, <1>3 DEF Answering, Forgotten, Answers, Drawn, Stamp
<1>4. CASE Presenter
  <2>1. UNCHANGED <<wait, desired, asked, picture, jobs, drawing, reply, tracked>>
    BY <1>4 DEF Presenter, ApplyCreate, ApplyMove, ApplyResize, ApplyDelete, ApplyUpdatePicture,
                ApplyPaintWallpaper, ApplyShutdown, Received, tickVars, workerVars
  <2>2. \A p \in Panel : Aged(p)' /\ Numbered(p)' /\ (p \notin Unreliable /\ Recorded(p) => Recorded(p)')
    BY <1>0, <1>4, PresenterAhead DEF NInv
  <2> QED BY <1>3, <1>a, <2>1, <2>2
<1>5. ASSUME UNCHANGED <<wait, desired, asked, picture, jobs, drawing, reply, tracked, pending, commands, window>>
      PROVE  NInv'
  <2>1. ASSUME NEW p \in Panel PROVE Aged(p)' /\ Numbered(p)' /\ (Recorded(p) => Recorded(p)')
    <3>1. /\ Painted(p)' = Painted(p) /\ Being(p)' = Being(p) /\ Answer(p)' = Answer(p) /\ Slot(p)' = Slot(p)
          /\ JobsOf(jobs, p)' = JobsOf(jobs, p) /\ FramesOf(commands, p)' = FramesOf(commands, p)
          /\ (SortedJobs(jobs, p) => SortedJobs(jobs, p)') /\ (SortedFrames(commands, p) => SortedFrames(commands, p)')
          /\ Draft(p)' = Draft(p) /\ Fetched(p)' = Fetched(p)
      BY <1>5 DEF Painted, Being, Answer, Slot, JobsOf, FramesOf, SortedJobs, SortedFrames, Draft, Fetched
    <3>2. Of(Painted(p))' = Of(Painted(p)) /\ Of(FramesOf(commands, p))' = Of(FramesOf(commands, p))
      BY <3>1 DEF Of
    <3>3. Aged(p) /\ Numbered(p)
      BY DEF NInv
    <3>4. Aged(p)'
      BY <3>1, <3>2, <3>3 DEF Aged, Before
    <3>5. Carried(p)' = Carried(p) /\ Pictures(p)' = Pictures(p)
      <4>1. Carried(p)' = Carried(p)
        BY <1>5 DEF Carried
      <4> QED BY <3>1, <4>1 DEF Pictures
    <3>6. Numbered(p)'
      BY <1>5, <3>3, <3>5 DEF Numbered
    <3>7. Recorded(p) => Recorded(p)'
      <4>1. Lives(p) => Lives(p)'
        BY <1>5 DEF Lives, Deletes
      <4>2. Stamped(p) => Stamped(p)'
        BY <1>5 DEF Stamped, Stamp
      <4>3. (Settled(p)' => Settled(p)) /\ (Told(p) => Told(p)') /\ (Fresh(p) => Fresh(p)')
        BY <1>5, <3>5 DEF Settled, Told, Fresh, Top, Matches
      <4> QED BY <1>5, <4>1, <4>2, <4>3 DEF Recorded
    <3> QED BY <3>4, <3>6, <3>7
  <2> QED BY <1>3, <1>5, <1>a, <2>1
<1>6. ASSUME NEW p \in Panel, FloorElapses(p) PROVE NInv'
  <2>1. UNCHANGED <<wait, desired, asked, picture, jobs, drawing, reply, tracked, pending, commands, window>>
    BY <1>6 DEF FloorElapses, tickVars, presenterVars
  <2> QED BY <1>5, <2>1
<1>7. CASE UNCHANGED vars
  BY <1>5, <1>7 DEF vars, tickVars, workerVars, presenterVars
<1> QED BY <1>1, <1>2, <1>4, <1>6, <1>7 DEF Next, Stopped

(* It holds at the start.                                                  *)
LEMMA InitNumbered == Init => NInv
<1> SUFFICES ASSUME Init PROVE NInv
  OBVIOUS
<1>1. /\ jobs = <<>> /\ commands = <<>> /\ drawing = None /\ reply = None /\ wait = None
      /\ \A p \in Panel : pending[p] = None /\ window[p] = None /\ tracked[p] = None
  BY DEF Init
<1>2. Answering /\ Forgotten
  BY <1>1 DEF Answering, Forgotten, Drawn
<1>3. ASSUME NEW p \in Panel PROVE Aged(p) /\ Numbered(p) /\ Recorded(p)
  <2>1. /\ JobsOf(jobs, p) = {} /\ FramesOf(commands, p) = {} /\ Slot(p) = {} /\ Being(p) = {}
        /\ Answer(p) = {} /\ Painted(p) = {}
        /\ SortedJobs(jobs, p) /\ SortedFrames(commands, p)
    BY <1>1 DEF JobsOf, FramesOf, Slot, Being, Answer, Painted, SortedJobs, SortedFrames
  <2>2. Of(FramesOf(commands, p)) = {} /\ Of(Painted(p)) = {}
    BY <2>1 DEF Of
  <2>3. Aged(p)
    BY <2>1, <2>2 DEF Aged, Before
  <2>4. Carried(p) = {}
    BY <1>1 DEF Carried
  <2>5. Numbered(p)
    BY <2>4 DEF Numbered
  <2>6. Recorded(p)
    BY <1>1 DEF Recorded, Settled
  <2> QED BY <2>3, <2>5, <2>6
<1> QED BY <1>2, <1>3 DEF NInv

(* All of it holds in every state.                                         *)
LEMMA NumberedHolds == Spec => [](IInv /\ SInv /\ NInv)
<1> QED BY InitNumbered, NumberedInductive, SizesHold, Invariance, PTL DEF Spec

(* The newest request that is carried for a panel is the one with the      *)
(* highest number.                                                         *)
LEMMA NewestIsTop ==
  ASSUME NEW p \in Panel, Numbered(p), TypeOK, NEW r \in Carried(p), Top(p, r)
  PROVE  Newest(p) = r
<1>1. Newest(p) \in Carried(p) /\ \A q \in Carried(p) : q.seq <= Newest(p).seq
  BY DEF Newest, Top
<1>2. Newest(p).seq = r.seq
  <2>1. Newest(p).seq <= r.seq /\ r.seq <= Newest(p).seq
    BY <1>1 DEF Top
  <2>2. Newest(p).seq \in Nat /\ r.seq \in Nat
    BY <1>1, CarriedPlaces
  <2> QED BY <2>1, <2>2
<1> QED BY <1>1, <1>2 DEF Numbered

(* Whatever panels, wallpapers, layouts and pictures there are, and        *)
(* whichever other windows fail: what is recorded for a panel is what the  *)
(* newest picture still on its way to its window, or already there, shows. *)
(* Recording a repaint when it is asked for "is not getting ahead of       *)
(* anything" (surface/mod.rs:274-280).                                     *)
THEOREM RepaintsReach == Spec => []NothingGetsAhead
<1>1. IInv /\ SInv /\ NInv => NothingGetsAhead
  <2> SUFFICES ASSUME IInv, NInv, NEW p \in Panel \ Unreliable, Settled(p)
               PROVE  /\ Carried(p) # {}
                      /\ Newest(p).content = tracked[p].spec.content
                      /\ Newest(p).size = tracked[p].spec.size
                      /\ Newest(p).backdrop = tracked[p].backdrop
    BY DEF NothingGetsAhead
  <2>1. Told(p) /\ Numbered(p) /\ TypeOK
    BY DEF NInv, Recorded, IInv
  <2>2. PICK r \in Carried(p) : Top(p, r) /\ Matches(p, r)
    BY <2>1 DEF Told
  <2>3. Newest(p) = r
    BY <2>1, <2>2, NewestIsTop
  <2> QED BY <2>2, <2>3 DEF Matches
<1> QED BY <1>1, NumberedHolds, PTL

(* A window that shows the newest request shows the Picture recorded for   *)
(* it, or a newer one: the worker never draws with an older one than the   *)
(* tick thread stamped (surface/mod.rs:217-222, render/picture.rs:40-48).  *)
THEOREM PicturesFresh == Spec => []PictureNotOlderThanStamp
<1>1. IInv /\ SInv /\ NInv => PictureNotOlderThanStamp
  <2> SUFFICES ASSUME IInv, NInv, NEW p \in Panel \ Unreliable, Settled(p), window[p] # None,
                      window[p].frame.request = Newest(p)
               PROVE  window[p].frame.picture >= tracked[p].pictures
    BY DEF PictureNotOlderThanStamp
  <2>1. Told(p) /\ Fresh(p) /\ Numbered(p) /\ TypeOK
    BY DEF NInv, Recorded, IInv
  <2>2. PICK r \in Carried(p) : Top(p, r)
    BY <2>1 DEF Told
  <2>3. Newest(p) = r
    BY <2>1, <2>2, NewestIsTop
  <2>4. window[p].frame \in Pictures(p)
    BY DEF Pictures, Painted
  <2> QED BY <2>1, <2>2, <2>3, <2>4 DEF Fresh
<1> QED BY <1>1, NumberedHolds, PTL

-----------------------------------------------------------------------------
(* Where a panel ends up.  Commands are applied one after another, and     *)
(* each says on its own what becomes of a window.                          *)

(* Where the window of p is, None for nowhere, and where it was recorded.  *)
Here(p) == IF window[p] = None THEN None ELSE window[p].place
Meant(p) == IF tracked[p] = None THEN None ELSE tracked[p].spec.place

(* Where command e leaves a window that was at `at`.                       *)
After(p, at, e) ==
  IF e.cmd = "Create" /\ e.id = p THEN e.spec.place
  ELSE IF e.cmd = "Delete" /\ e.id = p THEN None
  ELSE IF e.cmd = "Move" /\ e.id = p /\ at # None THEN e.spec.place
  ELSE at

(* The commands of q, one after another, bring p's window from one place   *)
(* to another: f tells the stations.                                       *)
Leads(p, q, from, to) ==
  \E f \in [0..Len(q) -> Place \cup {None}] :
    /\ f[0] = from /\ f[Len(q)] = to
    /\ \A i \in 1..Len(q) : f[i] = After(p, f[i - 1], q[i])

Situated(p) == Leads(p, commands, Here(p), Meant(p))

PInv == \A p \in Panel \ Unreliable : Situated(p)

(* A command leaves a window at a place, or nowhere.                       *)
LEMMA AfterTyped ==
  ASSUME NEW p, NEW e \in Command, NEW at \in Place \cup {None}
  PROVE  After(p, at, e) \in Place \cup {None}
<1>1. e.cmd \in {"Create", "Move"} => e.spec.place \in Place
  BY DEF Command, SurfaceSpec
<1> QED BY <1>1 DEF After

(* Nothing to apply leads nowhere else.                                    *)
LEMMA LeadsNowhere ==
  ASSUME NEW p, NEW at \in Place \cup {None}
  PROVE  Leads(p, <<>>, at, at)
<1>1. Len(<<>>) = 0
  OBVIOUS
<1>2. PICK f : f = [i \in 0..0 |-> at]
  OBVIOUS
<1>3. f \in [0..0 -> Place \cup {None}] /\ f[0] = at
  BY <1>2
<1>4. \A i \in 1..0 : FALSE
  OBVIOUS
<1> QED BY <1>1, <1>3, <1>4 DEF Leads

(* With one command more the window goes one station further.              *)
LEMMA LeadsOn ==
  ASSUME NEW p, NEW q \in Seq(Command), NEW e \in Command, NEW from, NEW at, Leads(p, q, from, at)
  PROVE  Leads(p, Append(q, e), from, After(p, at, e))
<1>1. PICK f \in [0..Len(q) -> Place \cup {None}] :
        /\ f[0] = from /\ f[Len(q)] = at
        /\ \A i \in 1..Len(q) : f[i] = After(p, f[i - 1], q[i])
  BY DEF Leads
<1>2. PICK r, n : r = Append(q, e) /\ n = Len(q)
  OBVIOUS
<1>3. /\ n \in Nat /\ Len(r) = n + 1 /\ r[n + 1] = e
      /\ \A i \in 1..n : r[i] = q[i]
  BY <1>2, AppendProperties
<1>4. at \in Place \cup {None}
  BY <1>1, <1>2, <1>3
<1>5. PICK last : last = After(p, at, e)
  OBVIOUS
<1>6. last \in Place \cup {None}
  BY <1>4, <1>5, AfterTyped
<1>7. PICK g : g = [i \in 0..(n + 1) |-> IF i <= n THEN f[i] ELSE last]
  OBVIOUS
<1>8. /\ g \in [0..(n + 1) -> Place \cup {None}]
      /\ g[0] = from /\ g[n + 1] = last
      /\ \A i \in 0..n : g[i] = f[i]
  BY <1>1, <1>2, <1>3, <1>6, <1>7
<1>9. ASSUME NEW i \in 1..(n + 1) PROVE g[i] = After(p, g[i - 1], r[i])
  <2>1. CASE i \in 1..n
    <3>1. i - 1 \in 0..n /\ i \in 0..n
      BY <1>3, <2>1
    <3> QED BY <1>1, <1>2, <1>3, <1>8, <2>1, <3>1
  <2>2. CASE i \notin 1..n
    <3>1. i = n + 1 /\ i - 1 = n /\ n \in 0..n
      BY <1>3, <2>2
    <3> QED BY <1>1, <1>2, <1>3, <1>5, <1>8, <3>1
  <2> QED BY <2>1, <2>2
<1> QED BY <1>2, <1>3, <1>5, <1>8, <1>9 DEF Leads

(* Once the first is applied, it goes on from where that one left it.      *)
LEMMA LeadsFrom ==
  ASSUME NEW p, NEW q \in Seq(Command), q # <<>>, NEW from, NEW to, Leads(p, q, from, to)
  PROVE  Leads(p, Tail(q), After(p, from, q[1]), to)
<1>1. PICK f \in [0..Len(q) -> Place \cup {None}] :
        /\ f[0] = from /\ f[Len(q)] = to
        /\ \A i \in 1..Len(q) : f[i] = After(p, f[i - 1], q[i])
  BY DEF Leads
<1>2. PICK r, n : r = Tail(q) /\ n = Len(q) - 1
  OBVIOUS
<1>3. /\ n \in Nat /\ Len(q) = n + 1 /\ Len(r) = n
      /\ \A i \in 1..n : r[i] = q[i + 1]
  BY <1>2, Places
<1>4. PICK g : g = [i \in 0..n |-> f[i + 1]]
  OBVIOUS
<1>5. /\ g \in [0..n -> Place \cup {None}]
      /\ g[n] = to /\ g[0] = f[1]
      /\ \A i \in 0..n : g[i] = f[i + 1]
  BY <1>1, <1>3, <1>4
<1>6. g[0] = After(p, from, q[1])
  <2>1. 1 \in 1..Len(q) /\ 1 - 1 = 0
    BY <1>3
  <2> QED BY <1>1, <1>5, <2>1
<1>7. ASSUME NEW i \in 1..n PROVE g[i] = After(p, g[i - 1], r[i])
  <2>1. i + 1 \in 1..Len(q) /\ (i + 1) - 1 = i /\ i - 1 \in 0..n /\ i \in 0..n /\ (i - 1) + 1 = i
    BY <1>3
  <2>2. f[i + 1] = After(p, f[(i + 1) - 1], q[i + 1])
    BY <1>1, <2>1
  <2>3. g[i] = f[i + 1] /\ g[i - 1] = f[i] /\ r[i] = q[i + 1]
    BY <1>3, <1>5, <2>1
  <2> QED BY <2>1, <2>2, <2>3
<1> QED BY <1>2, <1>3, <1>5, <1>6, <1>7 DEF Leads

(* Whatever else is sent leaves p where it was.                            *)
LEMMA SentSituated ==
  ASSUME TypeOK, NEW p, Situated(p), UNCHANGED <<window, tracked>>, NEW e \in Command,
         e.cmd \in {"Create", "Move", "Delete"} => e.id # p,
         commands' = commands \/ commands' = Append(commands, e)
  PROVE  Situated(p)'
<1>1. Here(p)' = Here(p) /\ Meant(p)' = Meant(p)
  BY DEF Here, Meant
<1>2. commands \in Seq(Command)
  BY DEF TypeOK
<1>3. After(p, Meant(p), e) = Meant(p)
  BY DEF After
<1>4. CASE commands' = commands
  BY <1>1, <1>4 DEF Situated, Leads
<1>5. CASE commands' = Append(commands, e)
  <2>1. Leads(p, Append(commands, e), Here(p), After(p, Meant(p), e))
    BY <1>2, LeadsOn DEF Situated
  <2>2. Leads(p, Append(commands, e), Here(p), Meant(p))
    BY <1>3, <2>1
  <2> QED BY <1>1, <1>5, <2>2 DEF Situated
<1> QED BY <1>4, <1>5

(* What the tick thread sends brings a window where it records it.         *)
LEMMA TickSituated ==
  ASSUME TypeOK, Phased, NEW p \in Panel, Situated(p), Tick
  PROVE  Situated(p)'
<1>0. /\ commands \in Seq(Command) /\ desired \in [Surface -> SurfaceSpec \cup {None}]
      /\ tracked \in [Surface -> SurfaceState \cup {None}] /\ window' = window
      /\ Here(p)' = Here(p)
  BY TickSteps DEF TypeOK, Here
<1>1. CASE Idles
  <2>1. [cmd |-> "Shutdown"] \in Command
    BY CommandTyped
  <2> QED BY <1>0, <1>1, <2>1, SentSituated DEF Idles
<1>2. ASSUME NEW s \in Surface, Exit(s) PROVE Situated(p)'
  <2>0. PICK e : e = [cmd |-> "Delete", id |-> s]
    OBVIOUS
  <2>1. e \in Command /\ e.cmd = "Delete" /\ e.id = s
    BY <2>0, CommandTyped
  <2>2. commands' = Append(commands, e) /\ tracked' = [tracked EXCEPT ![s] = None]
    BY <1>2, <2>0 DEF Exit
  <2>3. Leads(p, commands', Here(p), After(p, Meant(p), e))
    BY <1>0, <2>1, <2>2, LeadsOn DEF Situated
  <2>4. Meant(p)' = After(p, Meant(p), e)
    BY <1>0, <2>1, <2>2 DEF Meant, After
  <2> QED BY <1>0, <2>3, <2>4 DEF Situated
<1>3. ASSUME NEW s \in Surface, Asking(s) PROVE Situated(p)'
  BY <1>0, <1>3 DEF Asking, Situated, Here, Meant, Leads
<1>4. ASSUME NEW q \in Panel, UpdatePanel(q) PROVE Situated(p)'
  <2>0. PICK e : e = [cmd |-> "Move", id |-> q, spec |-> desired[q]]
    OBVIOUS
  <2>1. tracked[q] \in SurfaceState /\ desired[q] \in SurfaceSpec
    BY <1>0, <1>4 DEF UpdatePanel, Updating
  <2>2. e \in Command /\ e.cmd = "Move" /\ e.id = q /\ e.spec = desired[q]
    BY <2>0, <2>1, CommandTyped
  <2>3. /\ tracked'[q].spec = desired[q] /\ tracked'[q] # None
        /\ p # q => tracked'[p] = tracked[p]
    <3>1. PICK t : t = [spec |-> desired[q], backdrop |-> Behind(q, desired[q]),
                        pictures |-> Stamp(desired[q].content)]
      OBVIOUS
    <3>2. tracked' = [tracked EXCEPT ![q] = t]
      BY <1>4, <3>1 DEF UpdatePanel, Record
    <3>3. t \in SurfaceState
      <4>1. desired[q] # None
        BY <1>4 DEF UpdatePanel, Updating
      <4> QED BY <3>1, <4>1, RequestTyped DEF SurfaceState
    <3>4. t # None /\ t.spec = desired[q]
      BY <3>1, <3>3, NoneAssumption
    <3> QED BY <1>0, <3>2, <3>4
  <2>4. CASE Moved(q)
    <3>1. commands' = Append(commands, e)
      BY <1>4, <2>0, <2>4 DEF UpdatePanel
    <3>2. Leads(p, commands', Here(p), After(p, Meant(p), e))
      BY <1>0, <2>2, <3>1, LeadsOn DEF Situated
    <3>3. Meant(p)' = After(p, Meant(p), e)
      <4>1. CASE p # q
        BY <2>2, <2>3, <4>1 DEF Meant, After
      <4>2. CASE p = q
        <5>1. Meant(p) # None
          BY <2>1, <4>2, NoneAssumption DEF Meant, SurfaceState, SurfaceSpec
        <5> QED BY <2>2, <2>3, <4>2, <5>1 DEF Meant, After
      <4> QED BY <4>1, <4>2
    <3> QED BY <1>0, <3>2, <3>3 DEF Situated
  <2>5. CASE ~Moved(q)
    <3>1. commands' = commands
      BY <1>4, <2>5 DEF UpdatePanel
    <3>2. Meant(p)' = Meant(p)
      <4>1. CASE p # q
        BY <2>3, <4>1 DEF Meant
      <4>2. CASE p = q
        <5>1. tracked[q] # None
          BY <1>4 DEF UpdatePanel, Updating
        <5> QED BY <2>3, <2>5, <4>2, <5>1 DEF Meant, Moved
      <4> QED BY <4>1, <4>2
    <3> QED BY <1>0, <3>1, <3>2 DEF Situated, Leads
  <2> QED BY <2>4, <2>5
<1>5. CASE NowAnswered
  <2>0. PICK s, to : s = wait.id /\ to = desired[s]
    OBVIOUS
  <2>1. s \in Surface /\ to \in SurfaceSpec /\ reply \in Frame /\ wait \in Waiting
    BY <1>0, <1>5, <2>0 DEF NowAnswered, TypeOK, Phased
  <2>2. PICK t : t = [spec |-> to, backdrop |-> wait.backdrop, pictures |-> wait.pictures]
    OBVIOUS
  <2>3. tracked' = [tracked EXCEPT ![s] = t] /\ t \in SurfaceState /\ t.spec = to /\ t # None
    <3>1. t \in SurfaceState /\ t.spec = to
      BY <2>1, <2>2 DEF SurfaceState, Waiting
    <3> QED BY <1>5, <2>0, <2>2, <3>1, NoneAssumption DEF NowAnswered, Record
  <2>4. /\ p = s => Meant(p)' = to.place
        /\ p # s => Meant(p)' = Meant(p)
    <3>1. p = s => tracked'[p] = t
      BY <1>0, <2>1, <2>3
    <3>2. p # s => tracked'[p] = tracked[p]
      BY <1>0, <2>3
    <3> QED BY <2>3, <3>1, <3>2 DEF Meant
  <2>5. CASE s \in Wall
    <3>0. PICK e : e = [cmd |-> "PaintWallpaper", id |-> s, spec |-> to, published |-> generation + 1]
      OBVIOUS
    <3>1. generation + 1 \in Nat
      <4>1. generation \in Nat
        BY DEF TypeOK
      <4> QED BY <4>1
    <3>2. e \in Command /\ e.cmd = "PaintWallpaper"
      BY <2>1, <2>5, <3>0, <3>1, CommandTyped
    <3>3. commands' = Append(commands, e)
      <4>1. commands' = commands \o <<e>>
        BY <1>5, <2>0, <2>5, <3>0 DEF NowAnswered, WaitingForPixels
      <4> QED BY <1>0, <4>1
    <3>4. p # s
      BY <2>5, SurfacesAssumption
    <3>5. Leads(p, commands', Here(p), After(p, Meant(p), e))
      BY <1>0, <3>2, <3>3, LeadsOn DEF Situated
    <3>6. After(p, Meant(p), e) = Meant(p)
      BY <3>2 DEF After
    <3> QED BY <1>0, <2>4, <3>4, <3>5, <3>6 DEF Situated
  <2>6. CASE s \in Panel /\ tracked[s] = None
    <3>0. PICK e : e = [cmd |-> "Create", id |-> s, spec |-> to, frame |-> reply]
      OBVIOUS
    <3>1. e \in Command /\ e.cmd = "Create" /\ e.id = s /\ e.spec = to
      BY <2>1, <2>6, <3>0, CommandTyped
    <3>2. commands' = Append(commands, e)
      <4>1. s \notin Wall
        BY <2>6, SurfacesAssumption
      <4>2. commands' = commands \o <<e>>
        BY <1>5, <2>0, <2>6, <3>0, <4>1 DEF NowAnswered, WaitingForPixels
      <4> QED BY <1>0, <4>2
    <3>3. Leads(p, commands', Here(p), After(p, Meant(p), e))
      BY <1>0, <3>1, <3>2, LeadsOn DEF Situated
    <3>4. After(p, Meant(p), e) = Meant(p)'
      BY <2>4, <3>1 DEF After
    <3> QED BY <1>0, <3>3, <3>4 DEF Situated
  <2>7. CASE s \in Panel /\ tracked[s] # None
    <3>0. PICK e, m : /\ e = [cmd |-> "Resize", id |-> s, spec |-> to, frame |-> reply]
                      /\ m = [cmd |-> "Move", id |-> s, spec |-> to]
      OBVIOUS
    <3>1. /\ e \in Command /\ e.cmd = "Resize" /\ m \in Command /\ m.cmd = "Move" /\ m.id = s
          /\ m.spec = to
      BY <2>1, <2>7, <3>0, CommandTyped
    <3>2. commands' = Append(Append(commands, e), m) /\ Append(commands, e) \in Seq(Command)
      <4>1. s \notin Wall
        BY <2>7, SurfacesAssumption
      <4>2. commands' = commands \o <<e, m>>
        BY <1>5, <2>0, <2>7, <3>0, <4>1 DEF NowAnswered, WaitingForPixels
      <4> QED BY <1>0, <3>1, <4>2
    <3>3. Leads(p, Append(commands, e), Here(p), Meant(p))
      <4>1. After(p, Meant(p), e) = Meant(p)
        BY <3>1 DEF After
      <4>2. Leads(p, Append(commands, e), Here(p), After(p, Meant(p), e))
        BY <1>0, <3>1, LeadsOn DEF Situated
      <4> QED BY <4>1, <4>2
    <3>4. Leads(p, commands', Here(p), After(p, Meant(p), m))
      BY <3>1, <3>2, <3>3, LeadsOn
    <3>5. After(p, Meant(p), m) = Meant(p)'
      <4>1. p = s => Meant(p) # None
        <5>1. tracked[s] \in SurfaceState
          BY <1>0, <2>7
        <5> QED BY <2>7, <5>1, NoneAssumption DEF Meant, SurfaceState, SurfaceSpec
      <4> QED BY <2>4, <3>1, <4>1 DEF After
    <3> QED BY <1>0, <3>4, <3>5 DEF Situated
  <2> QED BY <2>1, <2>5, <2>6, <2>7
<1> QED BY <1>1, <1>2, <1>3, <1>4, <1>5, TickSteps

(* A command whose calls succeed leaves the window where it says.          *)
LEMMA PresenterSituated ==
  ASSUME TypeOK, NEW p \in Panel \ Unreliable, Situated(p), Presenter
  PROVE  Situated(p)'
<1>0. PICK c : c = Head(commands)
  OBVIOUS
<1>1. commands # <<>> /\ commands' = Tail(commands) /\ tracked' = tracked
  BY DEF Presenter, ApplyCreate, ApplyMove, ApplyResize, ApplyDelete, ApplyUpdatePicture,
         ApplyPaintWallpaper, ApplyShutdown, Received, tickVars
<1>2. commands \in Seq(Command) /\ commands[1] = c /\ c \in Command
  <2>1. commands \in Seq(Command)
    BY DEF TypeOK
  <2> QED BY <1>0, <1>1, <2>1, Places, QueueTyped
<1>3. window \in [Panel -> Window \cup {None}]
  BY DEF TypeOK
<1>4. Here(p)' = After(p, Here(p), c)
  <2>0. /\ \A q \in Panel : window[q] # None => window[q] \in Window
        /\ \A outcome \in Outcome : c.cmd # "Shutdown" /\ c.id = p => outcome = "ok"
    BY <1>0, <1>3 DEF Outcome, MayFail
  <2>1. ASSUME NEW outcome \in Outcome, ApplyCreate(outcome) PROVE Here(p)' = After(p, Here(p), c)
    <3>1. c.cmd = "Create" /\ c.id \in Panel /\ c.frame \in Frame /\ c.spec \in SurfaceSpec
      BY <1>0, <1>2, <2>1 DEF ApplyCreate, Received, Command
    <3>2. PICK w : w = [size |-> c.frame.request.size, place |-> c.spec.place, frame |-> c.frame]
      OBVIOUS
    <3>3. w \in Window /\ w # None /\ w.place = c.spec.place
      <4>1. w \in Window
        BY <3>1, <3>2 DEF Window, Frame, Request, SurfaceSpec
      <4> QED BY <3>2, <4>1, NoneAssumption
    <3>4. window' = IF outcome # "ok" THEN window ELSE [window EXCEPT ![c.id] = w]
      BY <1>0, <2>1, <3>2 DEF ApplyCreate
    <3> QED BY <1>3, <2>0, <3>1, <3>3, <3>4 DEF Here, After
  <2>2. ASSUME NEW outcome \in Outcome, ApplyMove(outcome) PROVE Here(p)' = After(p, Here(p), c)
    <3>1. c.cmd = "Move" /\ c.id \in Panel /\ c.spec.place \in Place
      BY <1>0, <1>2, <2>2 DEF ApplyMove, Received, Command, SurfaceSpec
    <3>2. window' = IF outcome # "ok" \/ window[c.id] = None THEN window
                    ELSE [window EXCEPT ![c.id].place = c.spec.place]
      BY <1>0, <2>2 DEF ApplyMove
    <3>3. CASE c.id = p /\ window[p] # None
      <4>1. window' = [window EXCEPT ![p].place = c.spec.place]
        BY <2>0, <3>1, <3>2, <3>3
      <4>2. window'[p] \in Window /\ window'[p].place = c.spec.place
        BY <1>3, <2>0, <3>1, <3>3, <4>1 DEF Window
      <4>3. Here(p) # None
        BY <2>0, <3>3, NoneAssumption DEF Here, Window
      <4> QED BY <3>1, <3>3, <4>2, <4>3, NoneAssumption DEF Here, After
    <3>4. CASE c.id = p /\ window[p] = None
      BY <3>1, <3>2, <3>4 DEF Here, After
    <3>5. CASE c.id # p
      <4>1. window'[p] = window[p]
        BY <1>3, <3>2, <3>5
      <4> QED BY <3>5, <4>1 DEF Here, After
    <3> QED BY <3>3, <3>4, <3>5
  <2>3. ASSUME NEW outcome \in Outcome, ApplyResize(outcome) PROVE Here(p)' = After(p, Here(p), c)
    <3>1. c.cmd = "Resize"
      BY <1>0, <2>3 DEF ApplyResize, Received
    <3>2. \/ window' = window
          \/ window[c.id] # None /\ window' = [window EXCEPT ![c.id].size = c.frame.request.size]
          \/ /\ window[c.id] # None
             /\ window' = [window EXCEPT ![c.id].size = c.frame.request.size, ![c.id].frame = c.frame]
      BY <1>0, <2>3 DEF ApplyResize
    <3>3. c.id \in Panel /\ c.frame \in Frame
      BY <1>2, <3>1 DEF Command
    <3>4. Here(p)' = Here(p)
      <4>1. CASE c.id # p
        <5>1. window'[p] = window[p]
          BY <1>3, <3>2, <4>1
        <5> QED BY <5>1 DEF Here
      <4>2. CASE c.id = p /\ window' # window
        <5>1. window[p] # None /\ window[p] \in Window
          BY <2>0, <3>2, <4>2
        <5>2. window'[p] \in Window /\ window'[p].place = window[p].place
          <6>1. c.frame.request.size \in Size
            BY <3>3 DEF Frame, Request
          <6> QED BY <1>3, <3>2, <3>3, <4>2, <5>1, <6>1 DEF Window
        <5> QED BY <5>1, <5>2, NoneAssumption DEF Here
      <4> QED BY <4>1, <4>2 DEF Here
    <3> QED BY <3>1, <3>4 DEF After
  <2>4. ASSUME NEW outcome \in Outcome, ApplyUpdatePicture(outcome) PROVE Here(p)' = After(p, Here(p), c)
    <3>1. c.cmd = "UpdatePicture"
      BY <1>0, <2>4 DEF ApplyUpdatePicture, Received
    <3>2. window' = window \/ (window[c.id] # None /\ window' = [window EXCEPT ![c.id].frame = c.frame])
      BY <1>0, <2>4 DEF ApplyUpdatePicture, Fits
    <3>3. c.id \in Panel /\ c.frame \in Frame
      BY <1>2, <3>1 DEF Command
    <3>4. Here(p)' = Here(p)
      <4>1. CASE c.id # p
        <5>1. window'[p] = window[p]
          BY <1>3, <3>2, <4>1
        <5> QED BY <5>1 DEF Here
      <4>2. CASE c.id = p /\ window' # window
        <5>1. window[p] # None /\ window[p] \in Window
          BY <2>0, <3>2, <4>2
        <5>2. window'[p] \in Window /\ window'[p].place = window[p].place
          BY <1>3, <3>2, <3>3, <4>2, <5>1 DEF Window
        <5> QED BY <5>1, <5>2, NoneAssumption DEF Here
      <4> QED BY <4>1, <4>2 DEF Here
    <3> QED BY <3>1, <3>4 DEF After
  <2>5. ASSUME ApplyDelete PROVE Here(p)' = After(p, Here(p), c)
    <3>1. c.cmd = "Delete" /\ window' = [q \in Panel |-> IF q = c.id THEN None ELSE window[q]]
      BY <1>0, <2>5 DEF ApplyDelete, Received
    <3> QED BY <3>1 DEF Here, After
  <2>6. ASSUME NEW outcome \in Outcome, ApplyPaintWallpaper(outcome) PROVE Here(p)' = After(p, Here(p), c)
    BY <1>0, <2>6 DEF ApplyPaintWallpaper, Received, Here, After
  <2>7. ASSUME ApplyShutdown PROVE Here(p)' = After(p, Here(p), c)
    BY <1>0, <2>7 DEF ApplyShutdown, Received, Here, After
  <2> QED BY <2>1, <2>2, <2>3, <2>4, <2>5, <2>6, <2>7 DEF Presenter
<1>5. Meant(p)' = Meant(p)
  BY <1>1 DEF Meant
<1>6. Leads(p, Tail(commands), After(p, Here(p), commands[1]), Meant(p))
  BY <1>1, <1>2, LeadsFrom DEF Situated
<1> QED BY <1>1, <1>2, <1>4, <1>5, <1>6 DEF Situated

(* In every state the commands on their way bring each window where it     *)
(* was recorded.                                                           *)
LEMMA SituatedHolds == Spec => []PInv
<1>1. Init => PInv
  <2> SUFFICES ASSUME Init, NEW p \in Panel PROVE Situated(p)
    BY DEF PInv
  <2>1. commands = <<>> /\ Here(p) = None /\ Meant(p) = None
    BY DEF Init, Here, Meant
  <2> QED BY <2>1, LeadsNowhere DEF Situated
<1>2. IInv /\ PInv /\ [Next]_vars => PInv'
  <2> SUFFICES ASSUME TypeOK, Phased, [Next]_vars, NEW p \in Panel \ Unreliable, Situated(p)
               PROVE  Situated(p)'
    BY DEF IInv, PInv
  <2>1. ASSUME UNCHANGED <<commands, window, tracked>> PROVE Situated(p)'
    BY <2>1 DEF Situated, Leads, Here, Meant
  <2>2. CASE Worker
    <3>1. CASE Deliver
      <4>1. UNCHANGED <<window, tracked>> /\ drawing \in Drawing /\ drawing.picture # None
        BY <3>1 DEF Deliver, tickVars, presenterVars, TypeOK
      <4>2. PICK f : f = [request |-> drawing.request, picture |-> drawing.picture]
        OBVIOUS
      <4>3. PICK e : e = [cmd |-> "UpdatePicture", id |-> drawing.request.id, frame |-> f]
        OBVIOUS
      <4>4. f \in Frame
        BY <4>1, <4>2 DEF Drawing, PanelRequest, Frame
      <4>5. commands' = commands \/ (~drawing.now /\ commands' = Append(commands, e))
        BY <3>1, <4>2, <4>3 DEF Deliver
      <4>6. CASE commands' = commands
        BY <2>1, <4>1, <4>6
      <4>7. CASE ~drawing.now /\ commands' = Append(commands, e)
        <5>1. drawing.request.id \in Panel
          BY <4>1, <4>7 DEF Drawing, PanelRequest
        <5>2. e \in Command /\ e.cmd = "UpdatePicture"
          BY <4>3, <4>4, <5>1, CommandTyped
        <5> QED BY <4>1, <4>7, <5>2, SentSituated
      <4> QED BY <4>5, <4>6, <4>7
    <3>2. CASE ~Deliver
      BY <2>1, <2>2, <3>2 DEF Worker, AcceptRepaint, AcceptNow, AcceptForget, DrawNext, Rasterize,
             tickVars, presenterVars
    <3> QED BY <3>1, <3>2
  <2>3. CASE \E q \in Panel : FloorElapses(q)
    BY <2>1, <2>3 DEF FloorElapses, tickVars, presenterVars
  <2>4. CASE UNCHANGED vars
    BY <2>1, <2>4 DEF vars, tickVars, presenterVars
  <2> QED BY <2>2, <2>3, <2>4, TickSituated, PresenterSituated DEF Next, Stopped
<1> QED BY <1>1, <1>2, Invariance, PTL DEF Spec

(* The half of Converges that is safety: whatever panels, layouts and      *)
(* pictures there are, whatever was superseded on the way and whichever    *)
(* other windows fail, a panel of which nothing is under way any more      *)
(* shows what was recorded for it, where it was recorded, or is gone.      *)
(* Nothing looks at a window again, so nothing may be lost on the way to   *)
(* it (surface/mod.rs: reconcile_self, presentation/mod.rs: apply).        *)
THEOREM QuietIsShown == Spec => []ShownWhenQuiet
<1>1. IInv /\ SInv /\ NInv /\ PInv => ShownWhenQuiet
  <2> SUFFICES ASSUME IInv, SInv, NInv, NEW p \in Panel \ Unreliable, Situated(p), Quiet(p)
               PROVE  Shows(p)
    BY DEF ShownWhenQuiet, PInv
  <2>1. /\ TypeOK /\ Measured(p) /\ Recorded(p) /\ commands = <<>> /\ (wait = None \/ wait.id # p)
        /\ Carried(p) \subseteq (IF window[p] = None THEN {} ELSE {window[p].frame.request})
    BY DEF IInv, SInv, NInv, Quiet
  <2>2. Here(p) = Meant(p)
    <3>1. Len(commands) = 0
      BY <2>1
    <3> QED BY <3>1 DEF Situated, Leads
  <2>3. /\ window[p] # None => window[p] \in Window
        /\ tracked[p] # None => tracked[p] \in SurfaceState
    BY <2>1 DEF TypeOK
  <2>4. /\ Here(p) # None <=> window[p] # None
        /\ Meant(p) # None <=> tracked[p] # None
    BY <2>3, NoneAssumption DEF Here, Meant, Window, SurfaceState, SurfaceSpec
  <2>5. CASE tracked[p] = None
    BY <2>2, <2>4, <2>5 DEF Shows
  <2>6. CASE tracked[p] # None
    <3>1. window[p] # None /\ window[p].place = tracked[p].spec.place
      BY <2>2, <2>4, <2>6 DEF Here, Meant
    <3>2. Told(p) /\ Fresh(p)
      BY <2>1, <2>6 DEF Recorded, Settled
    <3>3. PICK r \in Carried(p) : Top(p, r) /\ Matches(p, r)
      BY <3>2 DEF Told
    <3>4. r = window[p].frame.request
      BY <2>1, <3>1, <3>3
    <3>5. window[p].frame.picture >= tracked[p].pictures
      <4>1. window[p].frame \in Pictures(p)
        BY <3>1 DEF Pictures, Painted
      <4> QED BY <3>2, <3>3, <3>4, <4>1 DEF Fresh
    <3>6. window[p].size = tracked[p].spec.size
      <4>1. WillMeasure(p, tracked[p].spec.size, Len(commands) + 1)
        BY <2>1, <2>6 DEF Measured
      <4>2. DOMAIN commands = {}
        BY <2>1
      <4> QED BY <3>1, <4>1, <4>2 DEF WillMeasure
    <3> QED BY <2>6, <3>1, <3>3, <3>4, <3>5, <3>6 DEF Shows, Matches
  <2> QED BY <2>5, <2>6
<1> QED BY <1>1, NumberedHolds, SituatedHolds, PTL

-----------------------------------------------------------------------------
(* The pipeline implements LatestFrame, step by step.                      *)

(* As long as the tick thread waits, there is something to wait for.       *)
Sought == wait # None => (\E i \in DOMAIN jobs : jobs[i].job = "Now") \/ Drawn \/ reply # None

(* The frame awaited is asked for before it is waited for, and changes    *)
(* hands without a gap.                                                    *)
LEMMA SoughtInductive == IInv /\ SInv /\ Sought /\ [Next]_vars => Sought'
<1> SUFFICES ASSUME TypeOK, Phased, Sought, [Next]_vars PROVE Sought'
  BY DEF IInv
<1>0. jobs \in Seq(Job)
  BY DEF TypeOK
<1>1. CASE Tick
  <2>1. Idles \/ (\E s \in Surface : Exit(s)) \/ (\E q \in Panel : UpdatePanel(q)) => wait' = None
    BY DEF Idles, Exit, UpdatePanel
  <2>2. NowAnswered => wait' = None
    BY DEF NowAnswered
  <2>3. ASSUME NEW s \in Surface, Asking(s) PROVE \E i \in DOMAIN jobs' : jobs'[i].job = "Now"
    <3>0. PICK e : e = [job |-> "Now", request |-> RequestFor(s, desired[s])]
      OBVIOUS
    <3>1. e \in Job /\ e.job = "Now" /\ jobs' = Append(jobs, e)
      BY <2>3, <3>0, RequestTyped, JobTyped DEF Asking, AskNow
    <3>2. Len(jobs) + 1 \in DOMAIN jobs' /\ jobs'[Len(jobs) + 1] = e
      BY <1>0, <3>1, AppendProperties
    <3> QED BY <3>1, <3>2
  <2> QED BY <1>1, <2>1, <2>2, <2>3, TickSteps DEF Sought
<1>2. CASE Worker
  <2>0. wait' = wait
    BY <1>2 DEF Worker, AcceptRepaint, AcceptNow, AcceptForget, DrawNext, Rasterize, Deliver, tickVars
  <2>1. CASE AcceptRepaint \/ AcceptForget
    <3>1. jobs # <<>> /\ jobs' = Tail(jobs) /\ UNCHANGED <<drawing, reply>> /\ Head(jobs).job # "Now"
      BY <2>1 DEF AcceptRepaint, AcceptForget
    <3>2. ASSUME NEW i \in DOMAIN jobs, jobs[i].job = "Now" PROVE \E j \in DOMAIN jobs' : jobs'[j].job = "Now"
      <4>1. /\ Len(jobs) \in Nat /\ DOMAIN jobs = 1..Len(jobs) /\ Head(jobs) = jobs[1]
            /\ DOMAIN Tail(jobs) = 1..(Len(jobs) - 1)
            /\ \A k \in 1..(Len(jobs) - 1) : Tail(jobs)[k] = jobs[k + 1]
        BY <1>0, <3>1, Places
      <4>2. i # 1
        BY <3>1, <3>2, <4>1
      <4>3. i - 1 \in DOMAIN Tail(jobs) /\ (i - 1) + 1 = i
        BY <4>1, <4>2
      <4> QED BY <3>1, <3>2, <4>1, <4>3
    <3> QED BY <2>0, <3>1, <3>2 DEF Sought, Drawn
  <2>2. CASE AcceptNow
    <3>1. jobs # <<>> /\ Head(jobs).job = "Now" /\ drawing' = [request |-> Head(jobs).request, now |-> TRUE, picture |-> None]
      BY <2>2 DEF AcceptNow, Take
    <3>2. drawing' \in Drawing
      BY <3>1, JobTaken DEF Job, Drawing
    <3>3. Drawn'
      BY <3>1, <3>2, NoneAssumption DEF Drawn
    <3> QED BY <3>3 DEF Sought
  <2>3. CASE DrawNext
    <3>1. drawing = None /\ UNCHANGED <<jobs, reply>>
      BY <2>3 DEF DrawNext
    <3> QED BY <2>0, <3>1 DEF Sought, Drawn
  <2>4. CASE Rasterize
    <3>1. /\ drawing \in Drawing /\ UNCHANGED <<jobs, reply>>
          /\ drawing' = [drawing EXCEPT !.picture = Stamp(drawing.request.content)]
      BY <2>4 DEF Rasterize, TypeOK
    <3>2. Stamp(drawing.request.content) \in Nat
      BY DEF TypeOK, Stamp
    <3>3. drawing' \in Drawing /\ drawing'.now = drawing.now
      BY <3>1, <3>2 DEF Drawing
    <3>4. Drawn => Drawn'
      BY <3>3, NoneAssumption DEF Drawn
    <3> QED BY <2>0, <3>1, <3>4 DEF Sought
  <2>5. CASE Deliver
    <3>1. /\ jobs' = jobs /\ drawing \in Drawing /\ drawing.picture # None
          /\ \/ reply' = [request |-> drawing.request, picture |-> drawing.picture]
             \/ ~drawing.now /\ reply' = reply
      BY <2>5 DEF Deliver, TypeOK
    <3>2. [request |-> drawing.request, picture |-> drawing.picture] \in Frame
      BY <3>1 DEF Drawing, PanelRequest, Frame
    <3>3. reply' # None \/ (~Drawn /\ reply' = reply)
      BY <3>1, <3>2, NoneAssumption DEF Drawn
    <3> QED BY <2>0, <3>1, <3>3 DEF Sought
  <2> QED BY <1>2, <2>1, <2>2, <2>3, <2>4, <2>5 DEF Worker
<1>3. ASSUME UNCHANGED <<wait, jobs, drawing, reply>> PROVE Sought'
  BY <1>3 DEF Sought, Drawn
<1>4. CASE Presenter
  BY <1>3, <1>4 DEF Presenter, ApplyCreate, ApplyMove, ApplyResize, ApplyDelete, ApplyUpdatePicture,
         ApplyPaintWallpaper, ApplyShutdown, Received, tickVars, workerVars
<1>5. CASE \E p \in Panel : FloorElapses(p)
  BY <1>3, <1>5 DEF FloorElapses, tickVars
<1>6. CASE UNCHANGED vars
  BY <1>3, <1>6 DEF vars, tickVars, workerVars
<1> QED BY <1>1, <1>2, <1>4, <1>5, <1>6 DEF Next, Stopped

(* The number LastAsked names is the newest one, where there is one.       *)
LEMMA Highest ==
  ASSUME NEW C, \A q \in C : q.seq \in Nat, NEW r \in C, \A q \in C : q.seq <= r.seq
  PROVE  Max({q.seq : q \in C} \cup {-1}) = r.seq
<1>0. PICK S : S = {q.seq : q \in C} \cup {-1}
  OBVIOUS
<1>1. r.seq \in S /\ \A n \in S : n \in Int /\ r.seq >= n
  BY <1>0
<1>2. Max(S) \in S /\ \A n \in S : Max(S) >= n
  BY <1>1 DEF Max
<1>3. Max(S) = r.seq
  BY <1>1, <1>2
<1> QED BY <1>0, <1>3

(* The frame wanted of a panel is on its way to the screen, and before it  *)
(* is drawn, if it is the one the tick thread waits for.                   *)
Newer(p) == JobsOf(jobs, p) \cup Being(p) \cup Answer(p)
Coming(p) ==
  Named(p) => \E r \in Carried(p) :
    /\ Top(p, r) /\ LastAsked(p) = r.seq /\ r.seq \in Nat \ {0}
    /\ ~Settled(p) => r \in Newer(p) /\ r.seq = asked

RInv == IInv /\ SInv /\ NInv /\ Sought /\ \A p \in Panel \ Unreliable : Coming(p)

(* It follows from what is carried in order.                               *)
LEMMA WantedComes == IInv /\ SInv /\ NInv /\ Sought => \A p \in Panel \ Unreliable : Coming(p)
<1> SUFFICES ASSUME IInv, SInv, NInv, Sought, NEW p \in Panel \ Unreliable, Named(p)
             PROVE  \E r \in Carried(p) :
                      /\ Top(p, r) /\ LastAsked(p) = r.seq /\ r.seq \in Nat \ {0}
                      /\ ~Settled(p) => r \in Newer(p) /\ r.seq = asked
  BY DEF Coming
<1>0. /\ TypeOK /\ Blocked /\ Answering /\ Recorded(p) /\ Numbered(p)
  BY DEF IInv, SInv, NInv
<1>1. ASSUME NEW r \in Carried(p), Top(p, r) PROVE LastAsked(p) = r.seq /\ r.seq \in Nat \ {0}
  <2>1. \A q \in Carried(p) : q.seq \in Nat /\ 0 < q.seq
    BY <1>0, CarriedPlaces
  <2> QED BY <1>1, <2>1, Highest DEF LastAsked, Top
<1>2. CASE Settled(p)
  <2>1. PICK r \in Carried(p) : Top(p, r)
    BY <1>0, <1>2 DEF Recorded, Told
  <2> QED BY <1>1, <1>2, <2>1
<1>3. CASE ~Settled(p)
  <2>1. wait # None /\ wait.id = p
    BY <1>3 DEF Settled, Named
  <2>2. \E r \in Newer(p) : r.seq = asked
    <3>1. ASSUME NEW i \in DOMAIN jobs, jobs[i].job = "Now" PROVE \E r \in Newer(p) : r.seq = asked
      <4>1. jobs[i].request.id = p /\ jobs[i].request.seq = asked
        BY <1>0, <2>1, <3>1 DEF Blocked, Awaited, Answering, Answers
      <4>2. jobs[i].request \in JobsOf(jobs, p)
        BY <3>1, <4>1 DEF JobsOf
      <4> QED BY <4>1, <4>2 DEF Newer
    <3>2. ASSUME Drawn PROVE \E r \in Newer(p) : r.seq = asked
      <4>1. drawing # None /\ drawing.request.id = p /\ drawing.request.seq = asked
        BY <1>0, <2>1, <3>2 DEF Blocked, Awaited, Answering, Answers, Drawn
      <4>2. drawing.request \in Being(p)
        BY <4>1 DEF Being
      <4> QED BY <4>1, <4>2 DEF Newer
    <3>3. ASSUME reply # None PROVE \E r \in Newer(p) : r.seq = asked
      <4>1. reply.request.id = p /\ reply.request.seq = asked
        BY <1>0, <2>1, <3>3 DEF Blocked, Awaited, Answering, Answers
      <4>2. reply.request \in Answer(p)
        BY <3>3, <4>1 DEF Answer
      <4> QED BY <4>1, <4>2 DEF Newer
    <3> QED BY <2>1, <3>1, <3>2, <3>3 DEF Sought
  <2>3. PICK r \in Newer(p) : r.seq = asked
    BY <2>2
  <2>4. r \in Carried(p)
    BY <1>0, <2>3, CarriedPlaces DEF Newer
  <2>5. Top(p, r)
    BY <1>0, <2>3 DEF Top, Numbered
  <2> QED BY <1>1, <1>3, <2>3, <2>4, <2>5
<1> QED BY <1>2, <1>3

(* All of it holds in every state.                                         *)
LEMMA RefinementInvariant == Spec => []RInv
<1>1. Init => Sought
  BY DEF Init, Sought
<1> QED BY <1>1, SoughtInductive, WantedComes, NumberedHolds, PTL DEF Spec, RInv

(* What is wanted of p stays the same as long as requests for it only give *)
(* way to later ones, or the tick thread goes on waiting for it.           *)
LEMMA StaysWanted ==
  ASSUME RInv, RInv', NEW p \in Panel \ Unreliable, Named(p)' <=> Named(p),
         Supersedes(p) \/ (~Settled(p) /\ ~Settled(p)' /\ asked' = asked)
  PROVE  Wanted(p)' = Wanted(p)
<1>1. CASE ~Named(p)
  BY <1>1 DEF Wanted
<1>2. CASE Named(p)
  <2>1. PICK r \in Carried(p) : /\ \A q \in Carried(p) : q.seq <= r.seq
                                /\ LastAsked(p) = r.seq /\ r.seq \in Nat /\ (~Settled(p) => r.seq = asked)
    BY <1>2 DEF RInv, Coming, Top
  <2>2. PICK t \in Carried(p)' : /\ \A q \in Carried(p)' : q.seq <= t.seq
                                 /\ LastAsked(p)' = t.seq /\ t.seq \in Nat /\ (~Settled(p)' => t.seq = asked')
    BY <1>2 DEF RInv, Coming, Top
  <2>3. r.seq = t.seq
    <3>1. CASE Supersedes(p)
      <4>1. PICK x \in Carried(p)' : r.seq <= x.seq
        BY <2>1, <3>1 DEF Supersedes
      <4>2. x.seq \in Nat
        BY <3>1, <4>1, CarriedPlaces DEF Supersedes, RInv, IInv
      <4>3. x.seq <= t.seq /\ t.seq <= r.seq
        BY <2>1, <2>2, <3>1, <4>1 DEF Supersedes
      <4> QED BY <2>1, <2>2, <4>1, <4>2, <4>3
    <3>2. CASE ~Settled(p) /\ ~Settled(p)' /\ asked' = asked
      BY <2>1, <2>2, <3>2
    <3> QED BY <3>1, <3>2
  <2> QED BY <1>2, <2>1, <2>2, <2>3 DEF Wanted
<1> QED BY <1>1, <1>2

(* What makes a step one of LatestFrame's, panel by panel.                 *)
LEMMA Steps ==
  ASSUME asked \in Nat
  PROVE  /\ /\ asked' = asked
            /\ \A p \in Panel \ Unreliable : Wanted(p)' = Wanted(p) /\ OnScreen(p)' = OnScreen(p)
            => UNCHANGED Latest!vars
         /\ /\ asked' = asked + 1
            /\ \A p \in Panel \ Unreliable : Wanted(p)' = Wanted(p) /\ OnScreen(p)' = OnScreen(p)
            => Latest!Next
         /\ \A s \in Panel \ Unreliable :
              /\ \A p \in (Panel \ Unreliable) \ {s} : Wanted(p)' = Wanted(p) /\ OnScreen(p)' = OnScreen(p)
              /\ \/ asked' = asked + 1 /\ Wanted(s)' = asked + 1 /\ OnScreen(s)' = OnScreen(s)
                 \/ asked' = asked /\ Wanted(s) # 0 /\ Wanted(s)' = 0 /\ OnScreen(s)' = OnScreen(s)
                 \/ /\ asked' = asked /\ Wanted(s)' = Wanted(s)
                    /\ OnScreen(s)' = 0 /\ OnScreen(s) # 0 /\ OnScreen(s) # Wanted(s)
                 \/ /\ asked' = asked /\ Wanted(s)' = Wanted(s)
                    /\ OnScreen(s)' \in 1..asked /\ OnScreen(s) < OnScreen(s)'
                    /\ OnScreen(s)' <= (IF Wanted(s) = 0 THEN asked ELSE Wanted(s))
              => Latest!Next
<1>1. ASSUME asked' = asked, \A p \in Panel \ Unreliable : Wanted(p)' = Wanted(p) /\ OnScreen(p)' = OnScreen(p)
      PROVE  UNCHANGED Latest!vars
  BY <1>1 DEF Latest!vars
<1>2. ASSUME asked' = asked + 1, \A p \in Panel \ Unreliable : Wanted(p)' = Wanted(p) /\ OnScreen(p)' = OnScreen(p)
      PROVE  Latest!Next
  BY <1>2 DEF Latest!Next, Latest!AskElsewhere
<1>3. ASSUME NEW s \in Panel \ Unreliable,
             \A p \in (Panel \ Unreliable) \ {s} : Wanted(p)' = Wanted(p) /\ OnScreen(p)' = OnScreen(p)
      PROVE  /\ asked' = asked + 1 /\ Wanted(s)' = asked + 1 /\ OnScreen(s)' = OnScreen(s) => Latest!Ask(s)
             /\ asked' = asked /\ Wanted(s) # 0 /\ Wanted(s)' = 0 /\ OnScreen(s)' = OnScreen(s) => Latest!Drop(s)
             /\ /\ asked' = asked /\ Wanted(s)' = Wanted(s)
                /\ OnScreen(s)' = 0 /\ OnScreen(s) # 0 /\ OnScreen(s) # Wanted(s)
                => Latest!Hide(s)
             /\ /\ asked' = asked /\ Wanted(s)' = Wanted(s) /\ OnScreen(s) < OnScreen(s)'
                /\ OnScreen(s)' <= (IF Wanted(s) = 0 THEN asked ELSE Wanted(s))
                => Latest!Show(s, OnScreen(s)')
  <2>1. asked' = asked + 1 /\ Wanted(s)' = asked + 1 /\ OnScreen(s)' = OnScreen(s) => Latest!Ask(s)
    BY <1>3 DEF Latest!Ask
  <2>2. asked' = asked /\ Wanted(s) # 0 /\ Wanted(s)' = 0 /\ OnScreen(s)' = OnScreen(s) => Latest!Drop(s)
    BY <1>3 DEF Latest!Drop
  <2>3. /\ asked' = asked /\ Wanted(s)' = Wanted(s)
        /\ OnScreen(s)' = 0 /\ OnScreen(s) # 0 /\ OnScreen(s) # Wanted(s)
        => Latest!Hide(s)
    BY <1>3 DEF Latest!Hide
  <2>4. /\ asked' = asked /\ Wanted(s)' = Wanted(s) /\ OnScreen(s) < OnScreen(s)'
        /\ OnScreen(s)' <= (IF Wanted(s) = 0 THEN asked ELSE Wanted(s))
        => Latest!Show(s, OnScreen(s)')
    BY <1>3 DEF Latest!Show
  <2> QED BY <2>1, <2>2, <2>3, <2>4
<1>4. \A s \in Panel \ Unreliable :
        /\ Latest!Ask(s) \/ Latest!Drop(s) \/ Latest!Hide(s) => Latest!Next
        /\ \A n \in 1..asked : Latest!Show(s, n) => Latest!Next
  BY DEF Latest!Next
<1> QED BY <1>1, <1>2, <1>3, <1>4

(* A step of the tick thread asks for a frame, drops a panel or stutters.  *)
LEMMA TickRefines ==
  ASSUME RInv, RInv', Tick
  PROVE  Latest!Next \/ UNCHANGED Latest!vars
<1>0. /\ TypeOK /\ Phased /\ Blocked /\ Answering /\ \A p \in Panel : Aged(p) /\ Numbered(p)
      /\ asked \in Nat /\ tracked \in [Surface -> SurfaceState \cup {None}]
      /\ window' = window
  BY TickSteps DEF RInv, IInv, SInv, NInv, TypeOK
<1>1. \A p \in Panel \ Unreliable : OnScreen(p)' = OnScreen(p)
  BY <1>0 DEF OnScreen
<1>2. \A p \in Panel \ Unreliable : Grows(p)
  BY <1>0, TickAhead
<1>3. ASSUME NEW p \in Panel \ Unreliable, Carried(p)' = Carried(p), Named(p)' <=> Named(p)
      PROVE  Wanted(p)' = Wanted(p)
  <2>1. Supersedes(p)
    BY <1>0, <1>3, CarriedPlaces DEF Supersedes
  <2> QED BY <1>3, <2>1, StaysWanted
<1>4. ASSUME NEW p \in Panel \ Unreliable, asked' = asked PROVE Carried(p)' = Carried(p)
  <2>1. ~Asking(p)
    BY <1>0, <1>4 DEF Asking, AskNow
  <2>2. ~(UpdatePanel(p) /\ RenderChanged(p))
    BY <1>0, <1>4 DEF UpdatePanel
  <2> QED BY <1>2, <2>1, <2>2 DEF Grows
<1>5. CASE Idles
  <2>1. asked' = asked /\ UNCHANGED <<wait, tracked>>
    BY <1>5 DEF Idles
  <2> QED BY <1>0, <1>1, <1>3, <1>4, <2>1, Steps DEF Named
<1>6. ASSUME NEW s \in Surface, Exit(s) PROVE Latest!Next \/ UNCHANGED Latest!vars
  <2>1. /\ asked' = asked /\ wait = None /\ wait' = None /\ tracked[s] # None
        /\ tracked' = [tracked EXCEPT ![s] = None]
    BY <1>6 DEF Exit
  <2>2. ASSUME NEW p \in Panel \ Unreliable, p # s PROVE Wanted(p)' = Wanted(p)
    <3>1. tracked'[p] = tracked[p]
      BY <1>0, <2>1, <2>2
    <3> QED BY <1>3, <1>4, <2>1, <3>1 DEF Named
  <2>3. CASE s \notin Panel \ Unreliable
    BY <1>0, <1>1, <2>1, <2>2, <2>3, Steps
  <2>4. CASE s \in Panel \ Unreliable
    <3>1. tracked'[s] = None
      BY <1>0, <2>1
    <3>2. Wanted(s)' = 0
      BY <2>1, <3>1 DEF Wanted, Named
    <3>3. Wanted(s) # 0
      BY <2>1, <2>4 DEF Wanted, RInv, Coming, Named
    <3> QED BY <1>0, <1>1, <2>1, <2>2, <2>4, <3>2, <3>3, Steps
  <2> QED BY <2>3, <2>4
<1>7. ASSUME NEW s \in Surface, Asking(s) PROVE Latest!Next \/ UNCHANGED Latest!vars
  <2>1. asked' = asked + 1 /\ tracked' = tracked /\ wait = None /\ wait' # None /\ wait'.id = s
    <3>1. wait' \in Waiting /\ wait'.id = s
      BY <1>0, <1>7, RequestTyped DEF Asking, AskNow, Waiting
    <3>2. wait' # None
      BY <3>1, NoneAssumption
    <3> QED BY <1>7, <3>1, <3>2 DEF Asking, AskNow
  <2>2. ASSUME NEW p \in Panel \ Unreliable, p # s PROVE Wanted(p)' = Wanted(p)
    <3>1. ~Asking(p) /\ ~UpdatePanel(p)
      BY <2>1, <2>2 DEF Asking, AskNow, UpdatePanel
    <3>2. Carried(p)' = Carried(p)
      BY <1>2, <3>1 DEF Grows
    <3> QED BY <1>3, <2>1, <2>2, <3>2 DEF Named
  <2>3. CASE s \notin Panel \ Unreliable
    BY <1>0, <1>1, <2>1, <2>2, <2>3, Steps
  <2>4. CASE s \in Panel \ Unreliable
    <3>1. Named(s)' /\ ~Settled(s)'
      BY <2>1 DEF Named, Settled
    <3>2. Wanted(s)' = asked'
      BY <2>4, <3>1 DEF Wanted, RInv, Coming
    <3> QED BY <1>0, <1>1, <2>1, <2>2, <2>4, <3>2, Steps
  <2> QED BY <2>3, <2>4
<1>8. ASSUME NEW s \in Panel, UpdatePanel(s) PROVE Latest!Next \/ UNCHANGED Latest!vars
  <2>0. PICK kept : kept = [spec |-> desired[s], backdrop |-> Behind(s, desired[s]), pictures |-> Stamp(desired[s].content)]
    OBVIOUS
  <2>1. /\ wait = None /\ wait' = None /\ tracked[s] # None /\ desired[s] # None
        /\ s \in todo /\ todo' = todo \ {s} /\ tracked' = [tracked EXCEPT ![s] = kept]
    BY <1>8, <2>0 DEF UpdatePanel, Updating, Record
  <2>2. kept # None
    <3>1. desired[s] \in SurfaceSpec /\ Behind(s, desired[s]) \in Nat /\ Stamp(desired[s].content) \in Nat
      BY <1>0, <2>1, RequestTyped
    <3>2. kept \in SurfaceState
      BY <2>0, <3>1 DEF SurfaceState
    <3> QED BY <3>2, NoneAssumption
  <2>3. \A p \in Panel : Named(p)' <=> Named(p)
    <3>1. \A p \in Panel : p # s => tracked'[p] = tracked[p]
      BY <1>0, <2>1
    <3>2. tracked'[s] # None
      BY <1>0, <2>1, <2>2
    <3> QED BY <2>1, <3>1, <3>2 DEF Named
  <2>4. CASE ~RenderChanged(s)
    <3>1. asked' = asked
      BY <1>8, <2>4 DEF UpdatePanel
    <3> QED BY <1>0, <1>1, <1>3, <1>4, <2>3, <3>1, Steps
  <2>5. CASE RenderChanged(s)
    <3>1. asked' = asked + 1
      BY <1>8, <2>5 DEF UpdatePanel
    <3>2. ASSUME NEW p \in Panel \ Unreliable, p # s PROVE Wanted(p)' = Wanted(p)
      <4>1. ~UpdatePanel(p)
        BY <2>1, <3>2 DEF UpdatePanel, Updating
      <4>2. ~Asking(p)
        <5>1. ASSUME Asking(p) PROVE wait' \in Waiting
          <6>1. Behind(p, desired[p]) \in Nat /\ Stamp(desired[p].content) \in Nat
            BY <1>0, <5>1, RequestTyped DEF Asking
          <6> QED BY <5>1, <6>1 DEF Asking, AskNow, Waiting
        <5> QED BY <2>1, <5>1, NoneAssumption
      <4>3. Carried(p)' = Carried(p)
        BY <1>2, <4>1, <4>2 DEF Grows
      <4> QED BY <1>3, <2>3, <4>3
    <3>3. CASE s \in Unreliable
      BY <1>0, <1>1, <3>1, <3>2, <3>3, Steps
    <3>4. CASE s \notin Unreliable
      <4>0. PICK r, e : r = RequestFor(s, desired[s]) /\ e = [job |-> "Repaint", request |-> r]
        OBVIOUS
      <4>1. /\ jobs' = Append(jobs, e) /\ e \in Job /\ e.job = "Repaint" /\ e.request = r
            /\ r.id = s /\ r.seq = asked + 1
        <5>1. r \in PanelRequest
          BY <1>0, <2>1, <4>0, RequestTyped
        <5>2. e \in Job /\ e.job = "Repaint" /\ e.request = r
          BY <4>0, <5>1, JobTyped
        <5>3. jobs' = Append(jobs, e)
          BY <1>8, <2>5, <4>0 DEF UpdatePanel
        <5> QED BY <4>0, <5>2, <5>3 DEF RequestFor
      <4>2. r \in Carried(s)'
        <5>1. jobs \in Seq(Job)
          BY <1>0 DEF TypeOK
        <5>2. Len(jobs) + 1 \in DOMAIN jobs' /\ jobs'[Len(jobs) + 1] = e
          BY <4>1, <5>1, AppendProperties
        <5> QED BY <4>1, <5>2 DEF Carried
      <4>3. Named(s)' /\ Numbered(s)'
        BY <2>1, <2>3 DEF Named, RInv, NInv
      <4>4. PICK t \in Carried(s)' : t.seq \in Nat /\ (\A q \in Carried(s)' : q.seq <= t.seq) /\ LastAsked(s)' = t.seq
        BY <3>4, <4>3 DEF RInv, Coming, Top
      <4>5. t.seq <= asked' /\ r.seq <= t.seq
        BY <4>2, <4>3, <4>4 DEF Numbered
      <4>6. Wanted(s)' = asked + 1
        BY <1>0, <3>1, <4>1, <4>3, <4>4, <4>5 DEF Wanted
      <4> QED BY <1>0, <1>1, <3>1, <3>2, <3>4, <4>6, Steps
    <3> QED BY <3>3, <3>4
  <2> QED BY <2>4, <2>5
<1>9. CASE NowAnswered
  <2>0. PICK s, kept : /\ s = wait.id
                       /\ kept = [spec |-> desired[s], backdrop |-> wait.backdrop, pictures |-> wait.pictures]
    OBVIOUS
  <2>1. asked' = asked /\ wait # None /\ wait' = None /\ tracked' = [tracked EXCEPT ![s] = kept]
    BY <1>9, <2>0 DEF NowAnswered, Record
  <2>2. s \in Surface /\ kept # None
    <3>1. wait \in Waiting /\ s \in Surface /\ desired[s] \in SurfaceSpec
      BY <1>0, <2>0, <2>1 DEF TypeOK, Phased, Waiting
    <3>2. kept \in SurfaceState
      BY <2>0, <3>1 DEF SurfaceState, Waiting
    <3> QED BY <3>1, <3>2, NoneAssumption
  <2>3. \A p \in Panel : Named(p)' <=> Named(p)
    <3>1. \A p \in Panel : p # s => tracked'[p] = tracked[p]
      BY <1>0, <2>1, <2>2
    <3>2. tracked'[s] # None
      BY <1>0, <2>1, <2>2
    <3> QED BY <2>0, <2>1, <3>1, <3>2 DEF Named
  <2> QED BY <1>0, <1>1, <1>3, <1>4, <2>1, <2>3, Steps
<1> QED BY <1>0, <1>5, <1>6, <1>7, <1>8, <1>9, TickSteps

(* The worker is not seen from outside.                                    *)
LEMMA WorkerRefines ==
  ASSUME RInv, RInv', Worker
  PROVE  UNCHANGED Latest!vars
<1>0. /\ TypeOK /\ Blocked /\ Keyed /\ Forgotten /\ \A p \in Panel : Aged(p) /\ Numbered(p)
      /\ asked \in Nat
  BY DEF RInv, IInv, SInv, NInv, TypeOK
<1>1. UNCHANGED <<wait, asked, tracked, window>>
  BY DEF Worker, AcceptRepaint, AcceptNow, AcceptForget, DrawNext, Rasterize, Deliver, tickVars, presenterVars
<1>2. ASSUME NEW p \in Panel \ Unreliable PROVE Wanted(p)' = Wanted(p)
  <2>1. Settled(p) => Supersedes(p)
    BY <1>0, WorkerAhead
  <2> QED BY <1>1, <2>1, StaysWanted DEF Named, Settled
<1>3. \A p \in Panel \ Unreliable : OnScreen(p)' = OnScreen(p)
  BY <1>1 DEF OnScreen
<1> QED BY <1>0, <1>1, <1>2, <1>3, Steps

(* A step of the presenter shows a later frame of one panel, not past the  *)
(* last asked for, or closes a window that no longer shows the frame that  *)
(* is wanted; or nothing is seen of it.                                    *)
LEMMA PresenterRefines ==
  ASSUME RInv, RInv', Presenter
  PROVE  Latest!Next \/ UNCHANGED Latest!vars
<1>0. /\ TypeOK /\ StaleSizeOnlyWhenGone /\ asked \in Nat
      /\ \A p \in Panel : Aged(p) /\ Numbered(p)
      /\ \A p \in Panel \ Unreliable : Recorded(p) /\ Coming(p)
  BY SizesFit DEF RInv, IInv, NInv, TypeOK
<1>1. PICK c : c = Head(commands)
  OBVIOUS
<1>2. UNCHANGED <<wait, asked, tracked, jobs, reply, pending, drawing>> /\ commands # <<>> /\ commands' = Tail(commands)
  BY DEF Presenter, ApplyCreate, ApplyMove, ApplyResize, ApplyDelete, ApplyUpdatePicture,
         ApplyPaintWallpaper, ApplyShutdown, Received, tickVars, workerVars
<1>3. ASSUME NEW p \in Panel \ Unreliable PROVE Wanted(p)' = Wanted(p) /\ (Settled(p) => Supersedes(p))
  <2>1. Settled(p) => Supersedes(p)
    BY <1>0, PresenterAhead
  <2> QED BY <1>2, <2>1, StaysWanted DEF Named, Settled
<1>4. ASSUME NEW p \in Panel
      PROVE  /\ Painted(p)' = Painted(p) => OnScreen(p)' = OnScreen(p)
             /\ Painted(p)' = {} => OnScreen(p)' = 0
             /\ \A f : Painted(p)' = {f} => OnScreen(p)' = f.request.seq
  BY DEF Painted, OnScreen
<1>5. ASSUME NEW p \in Panel, c.id # p PROVE OnScreen(p)' = OnScreen(p)
  BY <1>0, <1>1, <1>4, <1>5, PresenterPaints
<1>6. ASSUME NEW p \in Panel
      PROVE  \/ OnScreen(p) = 0
             \/ \E q \in Of(Painted(p)) : q \in Carried(p) /\ OnScreen(p) = q.seq
  <2>1. window[p] # None => window[p].frame.request \in Of(Painted(p))
    BY DEF Painted, Of
  <2> QED BY <1>0, <2>1, CarriedPlaces DEF OnScreen
<1>7. ASSUME NEW p \in Panel \ Unreliable, c.cmd \in Framed, c.id = p, Painted(p)' = {c.frame}
      PROVE  Latest!Next
  <2>0. PICK n : n = c.frame.request.seq
    OBVIOUS
  <2>1. c.frame.request \in Of(FramesOf(commands, p)) /\ c.frame.request \in Carried(p)
    <3>1. commands \in Seq(Command)
      BY <1>0 DEF TypeOK
    <3>2. 1 \in DOMAIN commands /\ commands[1] = c
      BY <1>1, <1>2, <3>1, Places
    <3>3. c.frame.request \in Of(FramesOf(commands, p))
      BY <1>7, <3>2 DEF Of, FramesOf
    <3> QED BY <1>0, <3>3, CarriedPlaces
  <2>2. n \in Nat /\ 0 < n /\ n <= asked
    BY <1>0, <2>0, <2>1, CarriedPlaces DEF Numbered
  <2>3. OnScreen(p)' = n
    BY <1>4, <1>7, <2>0
  <2>4. OnScreen(p) < n
    BY <1>0, <1>6, <2>0, <2>1, <2>2 DEF Aged, Before
  <2>5. n <= (IF Wanted(p) = 0 THEN asked ELSE Wanted(p))
    BY <1>0, <2>0, <2>1, <2>2 DEF Wanted, Coming, Top
  <2> QED BY <1>0, <1>2, <1>3, <1>5, <1>7, <2>2, <2>3, <2>4, <2>5, Steps
<1>8. ASSUME NEW p \in Panel \ Unreliable, c.cmd = "Delete", c.id = p, Painted(p)' = {}
      PROVE  Latest!Next \/ UNCHANGED Latest!vars
  <2>1. OnScreen(p)' = 0
    BY <1>4, <1>8
  <2>2. CASE OnScreen(p) = 0
    BY <1>0, <1>2, <1>3, <1>5, <1>8, <2>1, <2>2, Steps
  <2>3. CASE OnScreen(p) # 0
    <3>1. PICK q \in Of(Painted(p)) : q \in Carried(p) /\ OnScreen(p) = q.seq
      BY <1>6, <2>3
    <3>2. q.seq \in Nat
      BY <1>0, <3>1, CarriedPlaces
    <3>3. CASE ~Named(p)
      <4>1. Wanted(p) = 0
        BY <3>3 DEF Wanted
      <4> QED BY <1>0, <1>2, <1>3, <1>5, <1>8, <2>1, <2>3, <4>1, Steps
    <3>4. CASE Named(p)
      <4>1. PICK r \in Carried(p) : /\ \A x \in Carried(p) : x.seq <= r.seq
                                    /\ Wanted(p) = r.seq /\ r.seq \in Nat
                                    /\ ~Settled(p) => r \in Newer(p)
        BY <1>0, <3>4 DEF Coming, Top, Wanted
      <4>2. q.seq # r.seq
        <5>1. CASE ~Settled(p)
          <6>1. q.seq < r.seq
            BY <1>0, <3>1, <4>1, <5>1 DEF Aged, Before, Newer
          <6> QED BY <3>2, <4>1, <6>1
        <5>2. CASE Settled(p)
          <6>1. PICK x \in Carried(p)' : q.seq <= x.seq /\ x \in Carried(p) /\ x.seq \in Nat
            BY <1>0, <1>3, <3>1, <5>2, CarriedPlaces DEF Supersedes
          <6>2. x \in Of(FramesOf(commands, p)) \cup Being(p) \cup Answer(p) \cup Slot(p) \cup JobsOf(jobs, p)
            <7>1. Carried(p)' = JobsOf(jobs, p)' \cup Of(FramesOf(commands, p))' \cup Slot(p)' \cup Being(p)'
                                  \cup Answer(p)' \cup Of(Painted(p))'
              BY DEF Carried, JobsOf, FramesOf, Slot, Being, Answer, Painted, Framed, Of
            <7>2. JobsOf(jobs, p)' = JobsOf(jobs, p) /\ Slot(p)' = Slot(p) /\ Being(p)' = Being(p) /\ Answer(p)' = Answer(p)
              BY <1>2 DEF JobsOf, Slot, Being, Answer
            <7>3. Of(Painted(p))' = {}
              BY <1>8 DEF Of
            <7>4. Of(FramesOf(commands, p))' \subseteq Of(FramesOf(commands, p))
              <8>1. commands \in Seq(Command)
                BY <1>0 DEF TypeOK
              <8>2. FramesOf(Tail(commands), p) \subseteq FramesOf(commands, p)
                <9>1. FramesOf(commands, p) = FramesOf(Tail(commands), p) \cup
                        (IF Head(commands).cmd \in Framed /\ Head(commands).id = p THEN {Head(commands).frame} ELSE {})
                  BY <1>2, <8>1, FramesQueue
                <9> QED BY <9>1
              <8>3. FramesOf(commands, p)' = FramesOf(Tail(commands), p)
                BY <1>2 DEF FramesOf
              <8> QED BY <8>2, <8>3 DEF Of
            <7> QED BY <6>1, <7>1, <7>2, <7>3, <7>4
          <6>3. q.seq < x.seq
            BY <1>0, <3>1, <6>2 DEF Aged, Before
          <6> QED BY <3>2, <4>1, <6>1, <6>3
        <5> QED BY <5>1, <5>2
      <4> QED BY <1>0, <1>2, <1>3, <1>5, <1>8, <2>1, <2>3, <3>1, <4>1, <4>2, Steps
    <3> QED BY <3>3, <3>4
  <2> QED BY <2>2, <2>3
<1>9. CASE \A p \in Panel \ Unreliable : OnScreen(p)' = OnScreen(p)
  BY <1>0, <1>2, <1>3, <1>9, Steps
<1>10. ASSUME NEW p \in Panel \ Unreliable, OnScreen(p)' # OnScreen(p)
       PROVE  Latest!Next \/ UNCHANGED Latest!vars
  <2>1. \/ c.cmd \in Framed /\ c.id = p /\ Painted(p)' = {c.frame}
        \/ c.cmd = "Delete" /\ c.id = p /\ Painted(p)' = {}
        \/ Painted(p)' = Painted(p)
    BY <1>0, <1>1, PresenterPaints
  <2> QED BY <1>4, <1>7, <1>8, <1>10, <2>1
<1> QED BY <1>9, <1>10

(* Whatever is asked for, superseded, reordered between the two senders or *)
(* dropped for a dead window, a panel whose calls never fail goes from one *)
(* frame to a later one, never past the last asked for, and closes only on *)
(* a frame that is no longer wanted (worker.rs:184-189,                    *)
(* presentation/mod.rs:227-240).                                           *)
THEOREM ImplementsLatestFrame == Spec => ShowsLatestFrame
<1>1. Init => Latest!Init
  <2> SUFFICES ASSUME Init PROVE Latest!Init
    OBVIOUS
  <2>0. /\ asked = 0 /\ wait = None
        /\ \A p \in Panel : tracked[p] = None /\ window[p] = None
    BY DEF Init
  <2>1. asked = 0 /\ \A p \in Panel : Wanted(p) = 0 /\ OnScreen(p) = 0
    BY <2>0 DEF Wanted, Named, OnScreen
  <2> QED BY <2>1 DEF Latest!Init
<1>2. RInv /\ RInv' /\ [Next]_vars => [Latest!Next]_(Latest!vars)
  <2> SUFFICES ASSUME RInv, RInv', [Next]_vars PROVE Latest!Next \/ UNCHANGED Latest!vars
    OBVIOUS
  <2>1. ASSUME UNCHANGED <<wait, asked, tracked, jobs, reply, pending, drawing, commands, window>>
        PROVE  UNCHANGED Latest!vars
    <3>1. \A p \in Panel : Carried(p)' = Carried(p) /\ (Named(p)' <=> Named(p))
      BY <2>1 DEF Carried, Named
    <3>2. \A p \in Panel : Wanted(p)' = Wanted(p) /\ OnScreen(p)' = OnScreen(p)
      BY <2>1, <3>1 DEF Wanted, LastAsked, OnScreen
    <3>3. asked \in Nat
      BY DEF RInv, IInv, TypeOK
    <3> QED BY <2>1, <3>2, <3>3, Steps
  <2>2. CASE \E p \in Panel : FloorElapses(p)
    BY <2>1, <2>2 DEF FloorElapses, tickVars, presenterVars
  <2>3. CASE UNCHANGED vars
    BY <2>1, <2>3 DEF vars, tickVars, workerVars, presenterVars
  <2> QED BY <2>2, <2>3, TickRefines, WorkerRefines, PresenterRefines DEF Next, Stopped
<1> QED BY <1>1, <1>2, RefinementInvariant, PTL DEF Spec, ShowsLatestFrame, Latest!Spec

-----------------------------------------------------------------------------
(* The worker's turns, on its clock (RepaintScheduler).                    *)
CONSTANTS Floor, Draws
VARIABLES slots, since, drawn, left, passed

Sched == INSTANCE RepaintScheduler WITH Target <- Panel, pending <- slots, drawing <- drawn

(* The panels considered before p.                                         *)
Lower(p) == {q \in Panel : q < p}

(* Of the draws there are, `slow` is the longest.                          *)
Longest(slow) ==
  /\ Floor \in Nat /\ Draws \subseteq Nat \ {0}
  /\ slow \in Draws /\ \A d \in Draws : d <= slow

(* A panel ahead that was drawn since p is due has been at rest for the    *)
(* draws after its own only, and so is not due again.                      *)
Resting(slow, p) ==
  \A q \in passed[p] : q # drawn => since[q] + left <= slow * (Cardinality(passed[p]) - 1)

TurnTypes(slow) ==
  /\ slots \subseteq Panel /\ since \in [Panel -> 0..Floor] /\ drawn \in Panel \cup {None}
  /\ left \in 0..slow /\ (drawn = None => left = 0)
  /\ passed \in [Panel -> SUBSET Panel]

TInv(slow) ==
  /\ TurnTypes(slow)
  /\ \A p \in Panel : /\ passed[p] \subseteq Lower(p)
                      /\ passed[p] # {} => p \in Sched!Due /\ p # drawn
                      /\ p \in Sched!Prompt => Resting(slow, p)

(* There are so many panels before one, and each counts for one.           *)
LEMMA LowerCounts ==
  ASSUME NEW p \in Panel, NEW S \in SUBSET Lower(p)
  PROVE  /\ IsFiniteSet(S) /\ Cardinality(S) \in Nat /\ Cardinality(Lower(p)) \in Nat
         /\ Cardinality(S) <= Cardinality(Lower(p))
         /\ S # {} => Cardinality(S) >= 1
         /\ \A q \in Lower(p) \ S : Cardinality(S \cup {q}) = Cardinality(S) + 1
<1>1. p \in Nat /\ Lower(p) \subseteq 0..p
  <2>1. p \in Nat /\ \A q \in Lower(p) : q \in Nat /\ q < p
    BY SurfacesAssumption, Zenon DEF Lower
  <2>2. \A q \in Nat : q < p => q \in 0..p
    BY <2>1
  <2> QED BY <2>1, <2>2, Zenon
<1>2. IsFiniteSet(Lower(p)) /\ IsFiniteSet(S)
  <2>1. 0 \in Int /\ p \in Int
    BY <1>1
  <2>2. IsFiniteSet(0..p)
    BY <2>1, FS_Interval
  <2>3. IsFiniteSet(Lower(p))
    BY <1>1, <2>2, FS_Subset, Zenon
  <2> QED BY <2>3, FS_Subset, Zenon
<1>3. /\ Cardinality(S) \in Nat /\ Cardinality(Lower(p)) \in Nat
      /\ Cardinality(S) <= Cardinality(Lower(p))
  BY <1>2, FS_CardinalityType, FS_Subset
<1>4. S # {} => Cardinality(S) >= 1
  BY <1>2, <1>3, FS_EmptySet
<1>5. \A q \in Lower(p) \ S : Cardinality(S \cup {q}) = Cardinality(S) + 1
  BY <1>2, FS_AddElement
<1> QED BY <1>2, <1>3, <1>4, <1>5

(* So much for the numbers.                                                *)
LEMMA SlowTimes ==
  ASSUME NEW slow \in Nat, NEW n \in Nat
  PROVE  /\ slow * ((n + 1) - 1) = slow * (n - 1) + slow
         /\ \A m \in Nat : n <= m => slow * (n - 1) <= slow * (m - 1)
         /\ n >= 1 => slow * (n - 1) >= 0
<1>1. slow * ((n + 1) - 1) = slow * (n - 1) + slow
  OBVIOUS
<1>2. ASSUME NEW m \in Nat, n <= m PROVE slow * (n - 1) <= slow * (m - 1)
  <2>1. PICK d \in Nat : m = n + d
    <3>1. m - n \in Nat /\ m = n + (m - n)
      BY <1>2
    <3> QED BY <3>1
  <2>2. slow * (m - 1) = slow * (n - 1) + slow * d /\ slow * d >= 0
    BY <2>1
  <2>3. slow * (n - 1) \in Int /\ slow * d \in Int
    OBVIOUS
  <2> QED BY <2>2, <2>3
<1>3. n >= 1 => slow * (n - 1) >= 0
  <2> SUFFICES ASSUME n >= 1 PROVE slow * (n - 1) >= 0
    OBVIOUS
  <2>1. n - 1 \in Nat
    OBVIOUS
  <2> QED BY <2>1
<1> QED BY <1>1, <1>2, <1>3

(* The next panel drawn comes before one that is due and is not drawn.     *)
LEMMA TurnBefore ==
  ASSUME NEW slow, TInv(slow), Sched!DrawNext, NEW p \in Sched!Due, drawn' # p
  PROVE  drawn' \in Lower(p)
<1>1. PICK r \in Sched!Due, ticks \in Draws :
        /\ \A q \in Sched!Due : r <= q
        /\ drawn' = r
  BY DEF Sched!DrawNext
<1>2. r \in Panel /\ p \in Panel
  BY DEF Sched!Due, TInv, TurnTypes
<1>3. r \in Nat /\ p \in Nat /\ r <= p /\ r # p
  BY <1>1, <1>2, SurfacesAssumption
<1> QED BY <1>1, <1>2, <1>3 DEF Lower

(* It has not passed a prompt one before.                                  *)
LEMMA TurnOnce ==
  ASSUME NEW slow, Longest(slow), TInv(slow), Sched!DrawNext, NEW p \in Sched!Due, drawn' # p,
         p \in Sched!Prompt
  PROVE  drawn' \notin passed[p]
<1>1. PICK r \in Sched!Due, ticks \in Draws : drawn' = r
  BY DEF Sched!DrawNext
<1>2. r \in Panel /\ since[r] >= Floor /\ p \in Panel /\ drawn = None /\ left = 0
  BY DEF Sched!Due, TInv, TurnTypes, Sched!DrawNext
<1>3. ASSUME r \in passed[p] PROVE FALSE
  <2> DEFINE n == Cardinality(passed[p])
             m == Cardinality(Lower(p))
  <2>1. passed[p] \in SUBSET Lower(p)
    BY <1>2 DEF TInv
  <2>2. n \in Nat /\ m \in Nat /\ n <= m
    BY <1>2, <2>1, LowerCounts
  <2>3. r # drawn
    <3>1. None \notin Panel
      BY NoneAssumption, SurfacesAssumption
    <3> QED BY <1>2, <3>1
  <2>4. since[r] + left <= slow * (n - 1)
    BY <1>2, <1>3, <2>3 DEF TInv, Resting
  <2>5. slow * (m - 1) < Floor /\ slow \in Nat /\ Floor \in Nat
    <3>1. slow \in Draws /\ slow \in Nat /\ Floor \in Nat
      BY DEF Longest
    <3>2. m = Cardinality({q \in Panel : q < p})
      BY Zenon DEF Lower
    <3>3. \A d \in Draws : d * (Sched!Cardinality({q \in Panel : q < p}) - 1) < Floor
      BY Zenon DEF Sched!Prompt
    <3>4. ASSUME NEW S PROVE Sched!Cardinality(S) = Cardinality(S)
      BY ZenonT(30) DEF Sched!Cardinality, Cardinality, Sched!IsFiniteSet, IsFiniteSet
    <3> HIDE DEF m
    <3>5. slow * (m - 1) < Floor
      BY <3>1, <3>2, <3>3, <3>4, Zenon
    <3> QED BY <3>1, <3>5
  <2>6. since[r] \in Int
    BY <1>2, <2>5 DEF TInv, TurnTypes
  <2> HIDE DEF n, m
  <2>7. slow * (n - 1) <= slow * (m - 1)
    BY <2>2, <2>5, SlowTimes
  <2> DEFINE a == slow * (n - 1)
             b == slow * (m - 1)
  <2>8. a \in Int /\ b \in Int
    BY <2>2, <2>5
  <2> HIDE DEF a, b
  <2>9. since[r] + 0 <= a /\ a <= b /\ b < Floor
    BY <1>2, <2>4, <2>5, <2>7 DEF a, b
  <2> QED BY <1>2, <2>5, <2>6, <2>8, <2>9
<1> QED BY <1>1, <1>3

(* Each step of the worker and of the clock keeps it.                      *)
LEMMA TurnKept ==
  ASSUME NEW slow, Longest(slow), TInv(slow), [Sched!Next]_(Sched!vars)
  PROVE  TInv(slow)'
<1>0. slow \in Nat /\ Floor \in Nat /\ None \notin Panel
  BY NoneAssumption, SurfacesAssumption DEF Longest
<1> USE DEF TInv, TurnTypes
<1>1. ASSUME NEW p \in Panel, Sched!Ask(p) PROVE TInv(slow)'
  <2>1. UNCHANGED <<since, drawn, left, passed>> /\ slots' = slots \cup {p}
    BY <1>1 DEF Sched!Ask
  <2>2. \A q : q \in Sched!Due => q \in Sched!Due'
    BY <2>1 DEF Sched!Due
  <2> QED BY <2>1, <2>2 DEF Resting
<1>2. ASSUME Sched!DrawNext PROVE TInv(slow)'
  <2>1. PICK r \in Sched!Due, ticks \in Draws :
          /\ \A q \in Sched!Due : r <= q
          /\ slots' = slots \ {r} /\ drawn' = r /\ left' = ticks
          /\ passed' = [q \in Panel |-> IF q \in Sched!Due \ {r} THEN passed[q] \cup {r} ELSE {}]
    BY <1>2 DEF Sched!DrawNext
  <2>2. r \in Panel /\ since' = since /\ drawn = None /\ left = 0 /\ ticks \in 0..slow
    BY <1>0, <1>2, <2>1 DEF Sched!Due, Sched!DrawNext, Longest
  <2>3. TurnTypes(slow)'
    <3>1. passed' \in [Panel -> SUBSET Panel]
      BY <2>1, <2>2
    <3> QED BY <1>0, <2>1, <2>2, <3>1
  <2>4. ASSUME NEW p \in Panel, p \in Sched!Due \ {r}
        PROVE  /\ passed'[p] \subseteq Lower(p)
               /\ p \in Sched!Due' /\ p # drawn'
               /\ p \in Sched!Prompt => Resting(slow, p)'
    <3>1. passed'[p] = passed[p] \cup {r}
      BY <2>1, <2>4
    <3>2. r \in Lower(p)
      BY <1>2, <2>1, <2>4, TurnBefore
    <3>3. passed[p] \in SUBSET Lower(p)
      OBVIOUS
    <3> DEFINE n == Cardinality(passed[p])
    <3>4. p \in Sched!Prompt => n \in Nat /\ Cardinality(passed'[p]) = n + 1
      <4> SUFFICES ASSUME p \in Sched!Prompt PROVE n \in Nat /\ Cardinality(passed'[p]) = n + 1
        OBVIOUS
      <4>1. r \notin passed[p]
        BY <1>2, <2>1, <2>4, TurnOnce
      <4> QED BY <3>1, <3>2, <3>3, <4>1, LowerCounts
    <3>5. p \in Sched!Due' /\ p # drawn'
      BY <2>1, <2>2, <2>4 DEF Sched!Due
    <3>6. ASSUME p \in Sched!Prompt, NEW q \in passed'[p], q # drawn'
          PROVE  since'[q] + left' <= slow * (Cardinality(passed'[p]) - 1)
      <4>1. q \in passed[p] /\ q # drawn
        BY <1>0, <2>1, <2>2, <3>1, <3>6
      <4>2. since[q] + left <= slow * (n - 1) /\ since[q] \in Int
        BY <1>0, <3>6, <4>1 DEF Resting
      <4> HIDE DEF n
      <4>3. slow * ((n + 1) - 1) = slow * (n - 1) + slow /\ slow * (n - 1) \in Int
        BY <1>0, <3>4, <3>6, SlowTimes
      <4> DEFINE a == slow * (n - 1)
      <4>4. a \in Int /\ since[q] <= a /\ slow * (Cardinality(passed'[p]) - 1) = a + slow
        BY <2>2, <3>4, <3>6, <4>2, <4>3
      <4> HIDE DEF a
      <4>5. left' \in 0..slow /\ since'[q] = since[q]
        BY <2>1, <2>2
      <4> QED BY <1>0, <4>2, <4>4, <4>5
    <3> QED BY <3>1, <3>2, <3>3, <3>5, <3>6 DEF Resting
  <2>5. ASSUME NEW p \in Panel, p \notin Sched!Due \ {r}
        PROVE  passed'[p] = {} /\ Resting(slow, p)'
    <3>1. passed'[p] = {}
      BY <2>1, <2>5
    <3> QED BY <3>1 DEF Resting
  <2> QED BY <2>3, <2>4, <2>5
<1>3. ASSUME Sched!Drawn PROVE TInv(slow)'
  <2>1. /\ drawn \in Panel /\ left = 0 /\ left' = 0 /\ drawn' = None /\ slots' = slots /\ passed' = passed
        /\ since' = [since EXCEPT ![drawn] = 0]
    BY <1>3 DEF Sched!Drawn
  <2>2. \A q \in Panel : since'[q] = IF q = drawn THEN 0 ELSE since[q]
    BY <2>1
  <2>3. \A q \in Panel : q # drawn /\ q \in Sched!Due => q \in Sched!Due'
    BY <2>1, <2>2 DEF Sched!Due
  <2>4. ASSUME NEW p \in Panel, p \in Sched!Prompt PROVE Resting(slow, p)'
    <3> DEFINE n == Cardinality(passed[p])
    <3> SUFFICES ASSUME NEW q \in passed[p] PROVE since'[q] + left' <= slow * (n - 1)
      BY <2>1 DEF Resting
    <3>1. passed[p] \in SUBSET Lower(p)
      OBVIOUS
    <3>2. n \in Nat /\ n >= 1
      BY <3>1, LowerCounts
    <3>3. q \in Panel /\ (q # drawn => since[q] + left <= slow * (n - 1))
      BY <2>4, <3>1 DEF Resting, Lower
    <3> HIDE DEF n
    <3>4. slow * (n - 1) >= 0
      BY <1>0, <3>2, SlowTimes
    <3> QED BY <2>1, <2>2, <3>3, <3>4
  <2>5. TurnTypes(slow)'
    <3>1. since' \in [Panel -> 0..Floor]
      BY <1>0, <2>1
    <3> QED BY <1>0, <2>1, <3>1
  <2>6. \A p \in Panel : passed'[p] # {} => p \in Sched!Due' /\ p # drawn'
    BY <1>0, <2>1, <2>3
  <2> QED BY <2>1, <2>4, <2>5, <2>6
<1>4. ASSUME Sched!Clock PROVE TInv(slow)'
  <2>1. /\ UNCHANGED <<slots, drawn, passed>>
        /\ since' = [p \in Panel |-> IF since[p] < Floor THEN since[p] + 1 ELSE Floor]
        /\ \/ drawn # None /\ left > 0 /\ left' = left - 1
           \/ drawn = None /\ Sched!Due = {} /\ left' = left
    BY <1>4 DEF Sched!Clock
  <2>2. \A q \in Panel : /\ since[q] \in 0..Floor /\ since'[q] \in 0..Floor
                         /\ since'[q] = IF since[q] < Floor THEN since[q] + 1 ELSE Floor
    BY <1>0, <2>1
  <2>3. \A q \in Panel : q \in Sched!Due => q \in Sched!Due'
    BY <1>0, <2>1, <2>2 DEF Sched!Due
  <2>4. TurnTypes(slow)'
    BY <1>0, <2>1, <2>2
  <2>5. ASSUME NEW p \in Panel, p \in Sched!Prompt, NEW q \in passed[p], q # drawn
        PROVE  since'[q] + left' <= slow * (Cardinality(passed[p]) - 1)
    <3>1. drawn # None /\ left > 0 /\ left' = left - 1 /\ left \in Int
      BY <1>0, <2>1, <2>5
    <3>2. q \in Panel /\ since[q] + left <= slow * (Cardinality(passed[p]) - 1)
      BY <2>5 DEF Resting
    <3>3. since'[q] <= since[q] + 1 /\ since[q] \in Int /\ since'[q] \in Int
      BY <1>0, <2>2, <3>2
    <3>4. since'[q] + left' <= since[q] + left
      BY <3>1, <3>3
    <3>5. passed[p] \in SUBSET Lower(p)
      OBVIOUS
    <3>6. Cardinality(passed[p]) \in Nat
      BY <3>5, LowerCounts
    <3> DEFINE b == slow * (Cardinality(passed[p]) - 1)
    <3>7. b \in Int /\ since[q] + left <= b
      BY <1>0, <3>2, <3>6
    <3> HIDE DEF b
    <3>8. since'[q] + left' <= b
      BY <3>1, <3>3, <3>4, <3>7
    <3> QED BY <3>8 DEF b
  <2>6. \A p \in Panel : p \in Sched!Prompt => Resting(slow, p)'
    BY <2>1, <2>5 DEF Resting
  <2> QED BY <2>1, <2>3, <2>4, <2>6
<1>5. ASSUME UNCHANGED Sched!vars PROVE TInv(slow)'
  <2>1. Sched!Due' = Sched!Due
    BY <1>5 DEF Sched!vars, Sched!Due
  <2> QED BY <1>5, <2>1 DEF Sched!vars, Resting
<1> QED BY <1>1, <1>2, <1>3, <1>4, <1>5 DEF Sched!Next

(* However many requests keep coming for them, a prompt panel that is due  *)
(* waits for each of those ahead of it once at most, in the order of ids:  *)
(* what is true of "starvation impossible" (worker.rs:17-18).  The first   *)
(* two are prompt however long draws take.                                 *)
THEOREM NobodyPassesTwice ==
  ASSUME NEW slow, Longest(slow)
  PROVE  Sched!Spec => Sched!PassedOnce
<1>1. Sched!Init => TInv(slow)
  <2> SUFFICES ASSUME Sched!Init PROVE TInv(slow)
    OBVIOUS
  <2>1. /\ slots = {} /\ since = [p \in Panel |-> Floor] /\ drawn = None /\ left = 0
        /\ passed = [p \in Panel |-> {}]
    BY DEF Sched!Init
  <2> QED BY <2>1 DEF TInv, TurnTypes, Resting, Longest
<1>2. TInv(slow) /\ [Sched!Next]_(Sched!vars) => TInv(slow)'
  BY TurnKept
<1>3. TInv(slow) /\ [Sched!Next]_(Sched!vars) =>
        [\A p \in Sched!Prompt, q \in Panel : p \in Sched!Due \ {q} /\ drawn # q /\ drawn' = q
           => q < p /\ q \notin passed[p]]_(Sched!vars)
  <2> SUFFICES ASSUME TInv(slow), Sched!Next, NEW p \in Sched!Prompt, NEW q \in Panel,
                      p \in Sched!Due \ {q}, drawn # q, drawn' = q
               PROVE  q < p /\ q \notin passed[p]
    OBVIOUS
  <2>1. Sched!DrawNext
    <3>1. None \notin Panel
      BY NoneAssumption, SurfacesAssumption
    <3> QED BY <3>1 DEF Sched!Next, Sched!Ask, Sched!Drawn, Sched!Clock
  <2> QED BY <2>1, TurnBefore, TurnOnce DEF Lower
<1> QED BY <1>1, <1>2, <1>3, PTL DEF Sched!Spec, Sched!PassedOnce
=============================================================================
