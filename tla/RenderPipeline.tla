--------------------------- MODULE RenderPipeline ---------------------------
(***************************************************************************)
(* From a reconciled layout to pixels on the display.  Three threads take  *)
(* part, joined by channels that never block a sender:                     *)
(*                                                                         *)
(*   tick       src/src/surface/mod.rs    diffs the desired surfaces       *)
(*   worker     src/src/render/worker.rs  the one thread that rasterizes   *)
(*   presenter  src/src/presentation/mod.rs  owns the windows              *)
(*                                                                         *)
(*        tick ---- jobs ---> worker ---- commands ---> presenter          *)
(*          \ <--- reply ---/                            ^                 *)
(*           ------------------- commands ---------------                  *)
(*                                                                         *)
(* Commands have two senders, so what keeps an old frame from landing on a *)
(* newer window is an argument about their order.  A Pass of the tick      *)
(* thread is one reconcile_all: wallpapers first, then panels, one surface *)
(* per step, and a step that needs pixels blocks until the worker replies. *)
(***************************************************************************)
EXTENDS Integers, Sequences, FiniteSets

CONSTANTS
  Panel,      \* panel ids, numbers: the worker draws in the order of ids
  Wall,       \* wallpaper ids
  Output,     \* connected outputs
  Content,    \* layout subtrees, the dpr they are drawn at included
  Figures,    \* the contents that name a Picture
  Size,       \* physical sizes
  Place,      \* resolved positions on the root screen
  Layouts,    \* the desired sets an eval may produce
  MaxPass,    \* bound: reconcile passes
  MaxPicture, \* bound: Pictures stored
  Unreliable, \* the surfaces whose calls on the display server may fail
  None

Surface == Panel \cup Wall

SurfaceSpec == [content : Content, size : Size, place : Place, output : Output]

ASSUME SurfacesAssumption == /\ Panel \subseteq Nat
                             /\ Panel \cap Wall = {}
                             /\ Figures \subseteq Content
ASSUME LayoutsAssumption == Layouts \subseteq [Surface -> SurfaceSpec \cup {None}]
ASSUME BoundsAssumption == /\ MaxPass \in Nat /\ MaxPicture \in Nat
                           /\ Unreliable \subseteq Surface

VARIABLES
  desired,    \* what the eval now being reconciled wants: a spec per surface
  picture,    \* generation of the Picture the Figures contents name
  tracked,    \* the pipeline's SurfaceState per surface, None when not tracked
  registry,   \* the wallpaper generation published per output, 0 for none
  generation, \* the generation last handed out
  phase,      \* where the tick thread is
  todo,       \* the surfaces this phase has not reconciled yet
  wait,       \* the surface whose Now frame the tick thread is blocked on
  passes,     \* reconcile passes begun
  asked,      \* frames asked for so far: numbers the requests, oldest first
  jobs,       \* channel to the worker
  reply,      \* the answer to a Now job, None until there is one
  pending,    \* the worker's slot per panel: the latest unpainted request
  resting,    \* panels drawn less than REPAINT_FLOOR ago
  drawing,    \* the render under way
  commands,   \* channel to the presenter
  window,     \* the presenter's windows
  desktop,    \* the wallpaper generation painted per output, 0 for none
  presenting  \* FALSE once the presenter has seen Shutdown

tickVars == <<desired, picture, tracked, registry, generation, phase, todo,
              wait, passes, asked>>
workerVars == <<pending, resting, drawing>>
presenterVars == <<window, desktop, presenting>>
vars == <<tickVars, jobs, reply, workerVars, commands, presenterVars>>

-----------------------------------------------------------------------------
(* What travels.                                                           *)

Request == [id : Surface, content : Content, size : Size, backdrop : Nat,
            crop : [output : Output, place : Place] \cup {None}, seq : Nat \ {0}]
PanelRequest == {r \in Request : r.id \in Panel}
Frame == [request : Request, picture : Nat]
SurfaceState == [spec : SurfaceSpec, backdrop : Nat, pictures : Nat]

Job == [job : {"Repaint"}, request : PanelRequest]
         \cup [job : {"Now"}, request : Request]
         \cup [job : {"Forget"}, id : Surface]
Command == [cmd : {"Create", "Resize"}, id : Panel, spec : SurfaceSpec, frame : Frame]
             \cup [cmd : {"PaintWallpaper"}, id : Wall, spec : SurfaceSpec,
                  published : Nat] \* a history field: the generation published with it
             \cup [cmd : {"Move"}, id : Panel, spec : SurfaceSpec]
             \cup [cmd : {"Delete"}, id : Surface]
             \cup [cmd : {"UpdatePicture"}, id : Panel, frame : Frame]
             \cup [cmd : {"Shutdown"}]
Window == [size : Size, place : Place, frame : Frame]
Waiting == [id : Surface, backdrop : Nat, pictures : Nat]
Drawing == [request : Request, now : {TRUE}, picture : Nat \cup {None}]
             \cup [request : PanelRequest, now : {FALSE}, picture : Nat \cup {None}]

ASSUME NoneAssumption ==
  None \notin SurfaceSpec \cup SurfaceState \cup Request \cup Frame \cup Window
                \cup Waiting \cup Drawing \cup Place \cup Nat

StampOrNone(content) == IF content \in Figures THEN picture ELSE None

(* The stamp of a content: the generation of the Picture it names.         *)
Stamp(content) == IF content \in Figures THEN picture ELSE 0

(* The generation of the wallpaper behind a surface; a wallpaper has none. *)
Behind(s, spec) == IF s \in Wall THEN 0 ELSE registry[spec.output]

(* The crop travels with the request, so the worker never reads the        *)
(* registry.                                                               *)
RequestFor(s, spec) ==
  [id |-> s, content |-> spec.content, size |-> spec.size,
   backdrop |-> Behind(s, spec),
   crop |-> IF Behind(s, spec) = 0 THEN None
            ELSE [output |-> spec.output, place |-> spec.place],
   seq |-> asked + 1]

Init ==
  /\ desired = [s \in Surface |-> None]
  /\ picture = 0
  /\ tracked = [s \in Surface |-> None]
  /\ registry = [o \in Output |-> 0]
  /\ generation = 0
  /\ phase = "idle" /\ todo = {} /\ wait = None
  /\ passes = 0 /\ asked = 0
  /\ jobs = <<>> /\ reply = None
  /\ pending = [p \in Panel |-> None] /\ resting = {} /\ drawing = None
  /\ commands = <<>>
  /\ window = [p \in Panel |-> None]
  /\ desktop = [o \in Output |-> 0] /\ presenting = TRUE

-----------------------------------------------------------------------------
(* The tick thread.                                                        *)

(* A pass begins: an eval wants `layout`.                                  *)
BeginPass(layout) ==
  /\ phase = "idle" /\ passes < MaxPass
  /\ passes' = passes + 1
  /\ desired' = layout
  /\ phase' = "walls" /\ todo' = Wall
  /\ UNCHANGED <<picture, tracked, registry, generation, wait, asked,
                 jobs, reply, workerVars, commands, presenterVars>>

(* A drawing arrived: its Picture is stored and the latest eval, unchanged,*)
(* is reconciled again.                                                    *)
StoreDrawn ==
  /\ phase = "idle" /\ passes < MaxPass /\ picture < MaxPicture
  /\ passes' = passes + 1
  /\ picture' = picture + 1
  /\ phase' = "walls" /\ todo' = Wall
  /\ UNCHANGED <<desired, tracked, registry, generation, wait, asked,
                 jobs, reply, workerVars, commands, presenterVars>>

(* Wallpapers first, then panels.  Tearing down runs the other way round   *)
(* and ends by telling the presenter to stop.                              *)
NextPhase ==
  /\ todo = {} /\ wait = None
  /\ \/ /\ phase = "walls" /\ phase' = "panels" /\ todo' = Panel
        /\ UNCHANGED commands
     \/ /\ phase = "panels" /\ phase' = "idle"
        /\ UNCHANGED <<todo, commands>>
     \/ /\ phase = "clear panels" /\ phase' = "clear walls" /\ todo' = Wall
        /\ UNCHANGED commands
     \/ /\ phase = "clear walls" /\ phase' = "closed"
        /\ commands' = Append(commands, [cmd |-> "Shutdown"])
        /\ UNCHANGED todo
  /\ UNCHANGED <<desired, picture, tracked, registry, generation, wait, passes,
                 asked, jobs, reply, workerVars, presenterVars>>

(* The Loop ends: App's Drop clears every surface.                         *)
Close ==
  /\ phase = "idle"
  /\ desired' = [s \in Surface |-> None]
  /\ phase' = "clear panels" /\ todo' = Panel
  /\ UNCHANGED <<picture, tracked, registry, generation, wait, passes, asked,
                 jobs, reply, workerVars, commands, presenterVars>>

(* Send a Now job and block: `wait` holds what to record on the reply.     *)
AskNow(s) ==
  /\ jobs' = Append(jobs, [job |-> "Now", request |-> RequestFor(s, desired[s])])
  /\ asked' = asked + 1
  /\ wait' = [id |-> s, backdrop |-> Behind(s, desired[s]),
              pictures |-> Stamp(desired[s].content)]

RecordButBackdrop(s, backdrop, stamp) ==
  tracked' = [tracked EXCEPT ![s] =
    [spec |-> desired[s], backdrop |-> IF @ = None THEN backdrop ELSE @.backdrop,
     pictures |-> stamp]]

Record(s, backdrop, stamp) ==
  tracked' = [tracked EXCEPT ![s] =
    [spec |-> desired[s], backdrop |-> backdrop, pictures |-> stamp]]

(* A surface the layout no longer names.                                   *)
Exit(s) ==
  /\ wait = None /\ s \in todo /\ tracked[s] # None /\ desired[s] = None
  /\ registry' = IF s \in Wall
                   THEN [registry EXCEPT ![tracked[s].spec.output] = 0]
                   ELSE registry
  /\ jobs' = Append(jobs, [job |-> "Forget", id |-> s])
  /\ commands' = Append(commands, [cmd |-> "Delete", id |-> s])
  /\ tracked' = [tracked EXCEPT ![s] = None]
  /\ todo' = todo \ {s}
  /\ UNCHANGED <<desired, picture, generation, phase, wait, passes, asked,
                 reply, workerVars, presenterVars>>

Updating == {s \in todo : tracked[s] # None /\ desired[s] # None}

(* A surface the layout names for the first time, once every surface it    *)
(* already knew has been updated.                                          *)
Enter(s) ==
  /\ wait = None /\ s \in todo /\ tracked[s] = None /\ desired[s] # None
  /\ Updating = {}
  /\ AskNow(s)
  /\ UNCHANGED <<desired, picture, tracked, registry, generation, phase, todo,
                 passes, reply, workerVars, commands, presenterVars>>

Skip(s) ==
  /\ wait = None /\ s \in todo /\ tracked[s] = None /\ desired[s] = None
  /\ todo' = todo \ {s}
  /\ UNCHANGED <<desired, picture, tracked, registry, generation, phase, wait,
                 passes, asked, jobs, reply, workerVars, commands, presenterVars>>

(* A wallpaper repaints on any change, and waits for the pixels.           *)
WallChanged(s) == \/ desired[s] # tracked[s].spec
                  \/ Stamp(desired[s].content) # tracked[s].pictures

UpdateWall(s) ==
  /\ wait = None /\ s \in Updating \cap Wall
  /\ IF WallChanged(s)
       THEN AskNow(s) /\ UNCHANGED <<tracked, todo>>
       ELSE /\ todo' = todo \ {s}
            /\ UNCHANGED <<tracked, wait, asked, jobs>>
  /\ UNCHANGED <<desired, picture, registry, generation, phase, passes,
                 reply, workerVars, commands, presenterVars>>

Resized(p) == desired[p].size # tracked[p].spec.size
Moved(p) == \/ desired[p].place # tracked[p].spec.place
            \/ desired[p].output # tracked[p].spec.output
RenderChangedButBackdrop(p) == \/ desired[p].content # tracked[p].spec.content
                               \/ Stamp(desired[p].content) # tracked[p].pictures
RenderChangedButPictures(p) == \/ desired[p].content # tracked[p].spec.content
                               \/ Behind(p, desired[p]) # tracked[p].backdrop
RenderChanged(p) == \/ desired[p].content # tracked[p].spec.content
                    \/ Behind(p, desired[p]) # tracked[p].backdrop
                    \/ Stamp(desired[p].content) # tracked[p].pictures

(* A resize has to land with a picture of the new size: block for it.      *)
ResizePanel(p) ==
  /\ wait = None /\ p \in Updating \cap Panel /\ Resized(p)
  /\ AskNow(p)
  /\ UNCHANGED <<desired, picture, tracked, registry, generation, phase, todo,
                 passes, reply, workerVars, commands, presenterVars>>

(* Otherwise move the window, ask for a repaint, both or neither.  What is *)
(* recorded is what the repaint will show once it is drawn.                *)
UpdatePanel(p) ==
  /\ wait = None /\ p \in Updating \cap Panel /\ ~Resized(p)
  /\ commands' = IF Moved(p)
                   THEN Append(commands, [cmd |-> "Move", id |-> p, spec |-> desired[p]])
                   ELSE commands
  /\ IF RenderChanged(p)
       THEN /\ jobs' = Append(jobs, [job |-> "Repaint",
                                     request |-> RequestFor(p, desired[p])])
            /\ asked' = asked + 1
       ELSE UNCHANGED <<jobs, asked>>
  /\ Record(p, Behind(p, desired[p]), Stamp(desired[p].content))
  /\ todo' = todo \ {p}
  /\ UNCHANGED <<desired, picture, registry, generation, phase, wait, passes,
                 reply, workerVars, presenterVars>>

WaitingForFirstPixels(s, frame) ==
  IF s \in Wall /\ tracked[s] # None THEN <<>>
  ELSE IF s \in Wall
    THEN <<[cmd |-> "PaintWallpaper", id |-> s, spec |-> desired[s],
            published |-> generation + 1]>>
  ELSE <<[cmd |-> IF tracked[s] = None THEN "Create" ELSE "Resize",
          id |-> s, spec |-> desired[s], frame |-> frame]>>

(* What was waiting for the pixels of surface s, now that they are here.   *)
WaitingForPixels(s, frame) ==
  LET Cmd(c) == [cmd |-> c, id |-> s, spec |-> desired[s], frame |-> frame]
  IN IF s \in Wall
       THEN <<[cmd |-> "PaintWallpaper", id |-> s, spec |-> desired[s],
               published |-> generation + 1]>>
     ELSE IF tracked[s] = None
       THEN <<Cmd("Create")>>
     ELSE <<Cmd("Resize"), [cmd |-> "Move", id |-> s, spec |-> desired[s]]>>

(* The Now frame is here: publish a wallpaper, send the commands, record.  *)
NowAnswered ==
  /\ wait # None /\ reply # None
  /\ commands' = commands \o WaitingForPixels(wait.id, reply)
  /\ IF wait.id \in Wall
       THEN /\ generation' = generation + 1
            /\ registry' = [registry EXCEPT ![desired[wait.id].output] = generation + 1]
       ELSE UNCHANGED <<generation, registry>>
  /\ Record(wait.id, wait.backdrop, wait.pictures)
  /\ todo' = todo \ {wait.id}
  /\ wait' = None /\ reply' = None
  /\ UNCHANGED <<desired, picture, phase, passes, asked, jobs, workerVars,
                 presenterVars>>

Tick ==
  \/ \E layout \in Layouts : BeginPass(layout)
  \/ StoreDrawn
  \/ NextPhase
  \/ Close
  \/ \E s \in Surface : Exit(s) \/ Enter(s) \/ Skip(s)
  \/ \E w \in Wall : UpdateWall(w)
  \/ \E p \in Panel : ResizePanel(p) \/ UpdatePanel(p)
  \/ NowAnswered

-----------------------------------------------------------------------------
(* The render worker.                                                      *)

Take(request, now) ==
  drawing' = [request |-> request, now |-> now, picture |-> None]

AcceptRepaintUnlessPending ==
  /\ drawing = None /\ jobs # <<>> /\ Head(jobs).job = "Repaint"
  /\ LET r == Head(jobs).request
     IN pending' = [pending EXCEPT ![r.id] = IF pending[r.id] = None THEN r ELSE @]
  /\ jobs' = Tail(jobs)
  /\ UNCHANGED <<tickVars, reply, resting, drawing, commands, presenterVars>>

(* Every queued job is taken before anything is chosen to draw.            *)
AcceptRepaint ==
  /\ drawing = None /\ jobs # <<>> /\ Head(jobs).job = "Repaint"
  /\ LET r == Head(jobs).request IN pending' = [pending EXCEPT ![r.id] = r]
  /\ jobs' = Tail(jobs)
  /\ UNCHANGED <<tickVars, reply, resting, drawing, commands, presenterVars>>

AcceptNowDroppingAll ==
  /\ drawing = None /\ jobs # <<>> /\ Head(jobs).job = "Now"
  /\ pending' = [p \in Panel |-> None]
  /\ Take(Head(jobs).request, TRUE)
  /\ jobs' = Tail(jobs)
  /\ UNCHANGED <<tickVars, reply, resting, commands, presenterVars>>

AcceptNowKeepingPending ==
  /\ drawing = None /\ jobs # <<>> /\ Head(jobs).job = "Now"
  /\ Take(Head(jobs).request, TRUE)
  /\ jobs' = Tail(jobs)
  /\ UNCHANGED <<tickVars, reply, pending, resting, commands, presenterVars>>

(* A Now render drops what was pending for its target, which is older.     *)
AcceptNow ==
  /\ drawing = None /\ jobs # <<>> /\ Head(jobs).job = "Now"
  /\ LET r == Head(jobs).request
     IN /\ pending' = [p \in Panel |-> IF p = r.id THEN None ELSE pending[p]]
        /\ Take(r, TRUE)
  /\ jobs' = Tail(jobs)
  /\ UNCHANGED <<tickVars, reply, resting, commands, presenterVars>>

(* The surface is gone, and with it everything remembered about it.        *)
AcceptForget ==
  /\ drawing = None /\ jobs # <<>> /\ Head(jobs).job = "Forget"
  /\ LET s == Head(jobs).id
     IN /\ pending' = [p \in Panel |-> IF p = s THEN None ELSE pending[p]]
        /\ resting' = resting \ {s}
  /\ jobs' = Tail(jobs)
  /\ UNCHANGED <<tickVars, reply, drawing, commands, presenterVars>>

Due == {p \in Panel : pending[p] # None /\ p \notin resting}

(* With nothing left in the channel, the first target that is due.         *)
DrawNext ==
  /\ drawing = None /\ jobs = <<>>
  /\ \E p \in Due :
       /\ \A q \in Due : p <= q
       /\ pending' = [pending EXCEPT ![p] = None]
       /\ Take(pending[p], FALSE)
  /\ UNCHANGED <<tickVars, jobs, reply, resting, commands, presenterVars>>

(* The renderer binds the Picture of the moment: the tick thread may store *)
(* a newer one while a frame is being drawn.                               *)
Rasterize ==
  /\ drawing # None /\ drawing.picture = None
  /\ drawing' = [drawing EXCEPT !.picture = Stamp(drawing.request.content)]
  /\ UNCHANGED <<tickVars, jobs, reply, pending, resting, commands, presenterVars>>

Deliver ==
  /\ drawing # None /\ drawing.picture # None
  /\ LET frame == [request |-> drawing.request, picture |-> drawing.picture]
         id == drawing.request.id
     IN /\ resting' = IF id \in Panel THEN resting \cup {id} ELSE resting
        /\ IF drawing.now
             THEN reply' = frame /\ UNCHANGED commands
             ELSE /\ commands' = Append(commands,
                        [cmd |-> "UpdatePicture", id |-> id, frame |-> frame])
                  /\ UNCHANGED reply
  /\ drawing' = None
  /\ UNCHANGED <<tickVars, jobs, pending, presenterVars>>

Worker == \/ AcceptRepaint \/ AcceptNow \/ AcceptForget
          \/ DrawNext \/ Rasterize \/ Deliver

(* REPAINT_FLOOR has passed since this panel was last drawn.               *)
FloorElapses(p) ==
  /\ p \in resting
  /\ resting' = resting \ {p}
  /\ UNCHANGED <<tickVars, jobs, reply, pending, drawing, commands, presenterVars>>

-----------------------------------------------------------------------------
(* The presenter.  A command is applied, or a call it makes on the display *)
(* fails: on the geometry, which abandons the command, or on the image,    *)
(* which is only logged.                                                   *)

MayFail == commands # <<>> /\ Head(commands).cmd # "Shutdown" /\ Head(commands).id \in Unreliable
Outcome == IF MayFail THEN {"ok", "geometry fails", "image fails"} ELSE {"ok"}

Received(kind) == /\ presenting /\ commands # <<>> /\ Head(commands).cmd = kind
                  /\ commands' = Tail(commands)
                  /\ UNCHANGED <<tickVars, jobs, reply, workerVars>>

ApplyCreate(outcome) ==
  /\ Received("Create")
  /\ LET c == Head(commands)
     IN window' = IF outcome # "ok" THEN window
                  ELSE [window EXCEPT ![c.id] =
                    [size |-> c.frame.request.size, place |-> c.spec.place, frame |-> c.frame]]
  /\ UNCHANGED <<desktop, presenting>>

ApplyMove(outcome) ==
  /\ Received("Move")
  /\ LET c == Head(commands)
     IN window' = IF outcome # "ok" \/ window[c.id] = None THEN window
                  ELSE [window EXCEPT ![c.id].place = c.spec.place]
  /\ UNCHANGED <<desktop, presenting>>

ApplyResize(outcome) ==
  /\ Received("Resize")
  /\ LET c == Head(commands)
     IN window' =
          CASE outcome = "geometry fails" \/ window[c.id] = None -> window
            [] outcome = "image fails" /\ window[c.id] # None ->
                 [window EXCEPT ![c.id].size = c.frame.request.size]
            [] OTHER -> [window EXCEPT ![c.id].size = c.frame.request.size,
                                       ![c.id].frame = c.frame]
  /\ UNCHANGED <<desktop, presenting>>

ApplyDelete ==
  /\ Received("Delete")
  /\ LET c == Head(commands)
     IN window' = [p \in Panel |-> IF p = c.id THEN None ELSE window[p]]
  /\ UNCHANGED <<desktop, presenting>>

FitsAny(c) == window[c.id] # None

(* A repaint for a size the window does not have is dropped.               *)
Fits(c) == window[c.id] # None /\ window[c.id].size = c.frame.request.size

ApplyUpdatePicture(outcome) ==
  /\ Received("UpdatePicture")
  /\ LET c == Head(commands)
     IN window' = IF Fits(c) /\ outcome = "ok"
                    THEN [window EXCEPT ![c.id].frame = c.frame]
                    ELSE window
  /\ UNCHANGED <<desktop, presenting>>

ApplyPaintWallpaper(outcome) ==
  /\ Received("PaintWallpaper")
  /\ LET c == Head(commands)
     IN desktop' = IF outcome = "ok"
                     THEN [desktop EXCEPT ![c.spec.output] = c.published]
                     ELSE desktop
  /\ UNCHANGED <<window, presenting>>

ApplyShutdown ==
  /\ Received("Shutdown")
  /\ presenting' = FALSE
  /\ UNCHANGED <<window, desktop>>

Presenter ==
  \/ \E outcome \in Outcome :
        ApplyCreate(outcome) \/ ApplyMove(outcome) \/ ApplyResize(outcome)
          \/ ApplyUpdatePicture(outcome) \/ ApplyPaintWallpaper(outcome)
  \/ ApplyDelete \/ ApplyShutdown

(* Everything has wound down; nothing is left to run.                      *)
Stopped == ~presenting /\ Due = {} /\ drawing = None /\ jobs = <<>>
             /\ UNCHANGED vars

Next == Tick \/ Worker \/ (\E p \in Panel : FloorElapses(p)) \/ Presenter \/ Stopped

Spec == Init /\ [][Next]_vars

(* The three threads keep running and the clock moves on; which layouts    *)
(* arrive, and whether any do, is up to the outside.                       *)
TickWorks == NextPhase \/ NowAnswered
               \/ (\E s \in Surface : Exit(s) \/ Enter(s) \/ Skip(s))
               \/ (\E w \in Wall : UpdateWall(w))
               \/ (\E p \in Panel : ResizePanel(p) \/ UpdatePanel(p))

Fairness == /\ WF_vars(TickWorks) /\ WF_vars(Worker) /\ WF_vars(Presenter)
            /\ \A p \in Panel : WF_vars(FloorElapses(p))

FairSpec == Spec /\ Fairness

-----------------------------------------------------------------------------
(* Properties.                                                             *)

TypeOK ==
  /\ desired \in [Surface -> SurfaceSpec \cup {None}]
  /\ picture \in Nat
  /\ tracked \in [Surface -> SurfaceState \cup {None}]
  /\ registry \in [Output -> Nat] /\ generation \in Nat
  /\ phase \in {"idle", "walls", "panels", "clear panels", "clear walls", "closed"}
  /\ todo \subseteq Surface
  /\ wait \in Waiting \cup {None}
  /\ passes \in Nat /\ asked \in Nat
  /\ jobs \in Seq(Job) /\ reply \in Frame \cup {None}
  /\ pending \in [Panel -> PanelRequest \cup {None}]
  /\ resting \subseteq Panel
  /\ drawing \in Drawing \cup {None}
  /\ commands \in Seq(Command)
  /\ window \in [Panel -> Window \cup {None}]
  /\ desktop \in [Output -> Nat] /\ presenting \in BOOLEAN

(* Every request for panel p that is still on its way to the screen, or on *)
(* it, and the last one asked for among them.                              *)
Carried(p) ==
  {jobs[i].request : i \in {j \in DOMAIN jobs :
                               jobs[j].job # "Forget" /\ jobs[j].request.id = p}}
  \cup {commands[i].frame.request : i \in {j \in DOMAIN commands :
           commands[j].cmd \in {"Create", "Resize", "UpdatePicture"} /\ commands[j].id = p}}
  \cup {r \in {pending[p]} : r # None}
  \cup (IF drawing # None /\ drawing.request.id = p THEN {drawing.request} ELSE {})
  \cup (IF reply # None /\ reply.request.id = p THEN {reply.request} ELSE {})
  \cup (IF window[p] # None THEN {window[p].frame.request} ELSE {})

Newest(p) == CHOOSE r \in Carried(p) : \A q \in Carried(p) : q.seq <= r.seq

Settled(p) == tracked[p] # None /\ (wait = None \/ wait.id # p)

(* What the pipeline recorded for a panel is what the newest picture still *)
(* on its way to the screen, or already there, shows: a repaint is never   *)
(* lost between asking and painting, so recording it early "is not getting *)
(* ahead of anything" (surface/mod.rs:274-280).  That the calls for another*)
(* window fail changes nothing.                                            *)
NothingGetsAhead ==
  \A p \in Panel \ Unreliable : Settled(p) =>
    /\ Carried(p) # {}
    /\ LET r == Newest(p)
       IN /\ r.content = tracked[p].spec.content
          /\ r.size = tracked[p].spec.size
          /\ r.backdrop = tracked[p].backdrop

(* A frame painted on a live window is never for another size: the window  *)
(* check of UpdatePicture only ever catches frames of a panel already      *)
(* deleted (presentation/mod.rs:227-240, worker.rs:184-189).               *)
StaleSizeOnlyWhenGone ==
  presenting /\ commands # <<>> /\ Head(commands).cmd = "UpdatePicture" =>
    LET c == Head(commands) IN window[c.id] # None /\ c.id \notin Unreliable => Fits(c)

(* A frame is never older than the stamp recorded for it: a shown picture  *)
(* that answers the recorded state shows the Picture recorded, or a newer, *)
(* where no call fails (surface/mod.rs:217-222, render/picture.rs:40-48).  *)
PictureNotOlderThanStamp ==
  \A p \in Panel \ Unreliable :
    Settled(p) /\ window[p] # None /\ window[p].frame.request = Newest(p) =>
      window[p].frame.picture >= tracked[p].pictures

(* When a pass is over, every panel was cropped, or is going to be, from   *)
(* the wallpaper now published for its output, because wallpapers          *)
(* reconcile before the panels that sample them.                           *)
SamplesCurrentWallpaper ==
  phase = "idle" => \A p \in Panel : tracked[p] # None =>
    tracked[p].backdrop = registry[tracked[p].spec.output]

(* No panel shows a slice of a wallpaper the desktop does not show yet:    *)
(* the wallpaper goes to the presenter before any frame cropped from it.   *)
WallpaperBeforePanels ==
  \A p \in Panel : window[p] # None /\ window[p].frame.request.crop # None =>
    window[p].frame.request.backdrop <= desktop[window[p].frame.request.crop.output]

(* Whatever fails on the display, a frame painted on a window has the      *)
(* window's size: painting a mismatched one would garble the panel.        *)
PaintsFit ==
  [][\A p \in Panel :
       window'[p] # None /\ (window[p] = None \/ window[p].frame # window'[p].frame) =>
         window'[p].frame.request.size = window'[p].size]_vars

Shows(p) ==
  IF tracked[p] = None THEN window[p] = None
  ELSE /\ window[p] # None
       /\ window[p].place = tracked[p].spec.place
       /\ window[p].size = tracked[p].spec.size
       /\ window[p].frame.request.content = tracked[p].spec.content
       /\ window[p].frame.request.size = tracked[p].spec.size
       /\ window[p].frame.request.backdrop = tracked[p].backdrop
       /\ window[p].frame.picture >= tracked[p].pictures

(* Nothing of panel p is under way: no command waits for the presenter, no *)
(* pixels for the tick thread, and every request left is on the screen.    *)
Quiet(p) ==
  /\ commands = <<>> /\ (wait = None \/ wait.id # p)
  /\ Carried(p) \subseteq (IF window[p] = None THEN {} ELSE {window[p].frame.request})

(* What Converges comes to rest on, in any state: a panel of which nothing *)
(* is under way is shown as it is tracked, at its place and size, or is    *)
(* gone.  Nothing is repaired later, so nothing may be lost on the way     *)
(* (surface/mod.rs: reconcile_self, presentation/mod.rs: apply).            *)
ShownWhenQuiet == \A p \in Panel \ Unreliable : Quiet(p) => Shows(p)

(* Once nothing more is asked for, the screen comes to show exactly the    *)
(* surfaces the pipeline tracks, as it tracks them, and stays so; but for  *)
(* a window whose calls fail, since nothing tries those again.             *)
Converges == <>[](\A p \in Panel \ Unreliable : Shows(p))

(* tauler:root-bg is the slice of Wallpaper sitting behind the Panel       *)
(* (CONTEXT.md:54): the crop a frame shows was taken where its window is.  *)
CropIsBehindPanel ==
  <>[](\A p \in Panel :
        window[p] # None /\ window[p].frame.request.crop # None =>
          window[p].frame.request.crop.place = window[p].place)

(* "A panel on an output with no <wallpaper> gets no backdrop at all"      *)
(* (docs/src/content/docs/docs/layout-file.md:203).                        *)
NoWallpaperNoBackdrop ==
  phase = "idle" => \A p \in Panel : tracked[p] # None /\ tracked[p].backdrop # 0 =>
    \E w \in Wall : tracked[w] # None /\ tracked[w].spec.output = tracked[p].spec.output

=============================================================================
