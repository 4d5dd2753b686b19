------------------------------- MODULE Wayland -------------------------------
(* The presenter on Wayland (presenter/wayland.rs, windowing/wayland/).    *)
(* A panel is a layer surface.  It may only be painted once the compositor *)
(* has configured it, and asks to be configured anew when the axis it      *)
(* fixes itself changes; the other axis is the compositor's, and is left   *)
(* out.  One thread applies commands, reads configures and dispatches      *)
(* events, in turns; both wires to the compositor keep their order.  Moves *)
(* change nothing here (update_position).                                  *)
EXTENDS Integers, Sequences, FiniteSetsExt

CONSTANTS
  Panel,
  Size,         \* of the fixed axis
  MaxCommands,  \* bound: commands of the pipeline
  MaxEvents,    \* bound: configures nobody asked for, surfaces closed, panels not created,
                \* frames not painted
  None

ASSUME BoundsAssumption == MaxCommands \in Nat \ {0} /\ MaxEvents \in Nat
ASSUME NoneAssumption == None \notin Size \cup Nat

Surface == 1..MaxCommands
Frame == [size : Size, number : 1..MaxCommands]
Request == [req : {"commit"}, surface : Surface, of : Panel, size : Size]
             \cup [req : {"ack", "destroy"}, surface : Surface]
             \cup [req : {"buffer"}, surface : Surface, at : Size, frame : Frame]

VARIABLES
  spec,       \* the size of each panel the pipeline tracks, None if it does not
  asked,      \* commands so far
  commands,   \* channel to the presenter
  at,         \* where the presenter is in its loop
  panels,     \* the presenter's panels
  created,    \* surfaces created so far: each has a number of its own
  configures, \* pending_configures
  applied,    \* history: the last frame of each panel that was applied
  requests,   \* the wire to the compositor
  wire,       \* the wire from it
  server,     \* the compositor's side of each surface
  events

pipeline == <<spec, asked, commands>>
presenter == <<at, panels, created, configures, applied>>
vars == <<pipeline, presenter, requests, wire, server, events>>

WaylandPanel == [surface : Surface, configured : BOOLEAN, size : Size]
Configured == [surface : Surface, size : Size]
LayerSurface == [of : Panel \cup {None}, wanted : Size \cup {None}, owes : BOOLEAN,
                 acked : BOOLEAN, open : BOOLEAN, shows : Frame \cup {None}]

Init ==
  /\ spec = [p \in Panel |-> None] /\ asked = 0 /\ commands = <<>>
  /\ at = "commands" /\ panels = [p \in Panel |-> None] /\ created = 0
  /\ configures = <<>> /\ applied = [p \in Panel |-> None]
  /\ requests = <<>> /\ wire = <<>> /\ events = 0
  /\ server = [s \in Surface |-> [of |-> None, wanted |-> None, owes |-> FALSE,
                                  acked |-> FALSE, open |-> TRUE, shows |-> None]]

Event == events < MaxEvents /\ events' = events + 1

-----------------------------------------------------------------------------
(* The pipeline: see RenderPipeline.  A frame has the size of its panel.   *)

Ask(kind, p, size) ==
  /\ asked < MaxCommands /\ asked' = asked + 1
  /\ commands' = Append(commands, [cmd |-> kind, id |-> p, frame |-> [size |-> size, number |-> asked + 1]])
  /\ UNCHANGED <<presenter, requests, wire, server, events>>

Create(p, size) == spec[p] = None /\ spec' = [spec EXCEPT ![p] = size] /\ Ask("Create", p, size)
Resize(p, size) == spec[p] # None /\ spec' = [spec EXCEPT ![p] = size] /\ Ask("Resize", p, size)
UpdatePicture(p) == spec[p] # None /\ UNCHANGED spec /\ Ask("UpdatePicture", p, spec[p])
Delete(p) == spec[p] # None /\ spec' = [spec EXCEPT ![p] = None] /\ Ask("Delete", p, spec[p])

-----------------------------------------------------------------------------
(* The presenter's thread.                                                 *)

Received(kind) ==
  /\ at = "commands" /\ commands # <<>> /\ Head(commands).cmd = kind
  /\ commands' = Tail(commands)
  /\ UNCHANGED <<spec, asked, at, configures, wire, server>>

Commit(s, p, size) == [req |-> "commit", surface |-> s, of |-> p, size |-> size]
Buffer(panel, frame) == [req |-> "buffer", surface |-> panel.surface, at |-> panel.size, frame |-> frame]

(* WaylandPanel::render: nothing is painted before a configure, and        *)
(* nothing remembers the frame.                                            *)
Render(panel, frame) == IF panel.configured THEN <<Buffer(panel, frame)>> ELSE <<>>

(* What is sent follows what was asked for.  A frame is also dropped for   *)
(* want of a buffer, or where it is too small for one line of the panel.   *)
Paint(panel, frame, sent) ==
  \/ requests' = sent \o Render(panel, frame) /\ UNCHANGED events
  \/ panel.configured /\ requests' = sent /\ Event

ApplyCreate ==
  /\ Received("Create") /\ UNCHANGED events
  /\ LET c == Head(commands)
         panel == [surface |-> created + 1, configured |-> FALSE, size |-> c.frame.size]
     IN /\ created' = created + 1
        /\ panels' = [panels EXCEPT ![c.id] = panel]
        /\ applied' = [applied EXCEPT ![c.id] = c.frame]
        /\ requests' = Append(requests, Commit(created + 1, c.id, c.frame.size)) \o Render(panel, c.frame)

(* There is no memory for its buffers: the surface is dropped again, and   *)
(* what is sent to the panel later is ignored.                             *)
CreateFails ==
  /\ Received("Create") /\ Event
  /\ LET c == Head(commands)
     IN requests' = requests \o <<Commit(created + 1, c.id, c.frame.size), [req |-> "destroy", surface |-> created + 1]>>
  /\ created' = created + 1
  /\ UNCHANGED <<panels, applied>>

UpdateSpecAlways(panel, size) == [panel EXCEPT !.size = size, !.configured = FALSE]

(* update_spec: a new size of the fixed axis is asked for, and the panel   *)
(* is not painted until the compositor has answered.                       *)
UpdateSpec(panel, size) ==
  IF panel.size = size THEN panel ELSE [panel EXCEPT !.size = size, !.configured = FALSE]

ApplyResize ==
  /\ Received("Resize")
  /\ LET c == Head(commands)
         panel == UpdateSpec(panels[c.id], c.frame.size)
     IN IF panels[c.id] = None THEN UNCHANGED <<panels, applied, requests, events>>
        ELSE /\ panels' = [panels EXCEPT ![c.id] = panel]
             /\ applied' = [applied EXCEPT ![c.id] = c.frame]
             /\ Paint(panel, c.frame,
                      IF panel = panels[c.id] THEN requests
                      ELSE Append(requests, Commit(panel.surface, c.id, c.frame.size)))
  /\ UNCHANGED created

ApplyUpdatePicture ==
  /\ Received("UpdatePicture")
  /\ LET c == Head(commands)
     IN IF panels[c.id] = None THEN UNCHANGED <<applied, requests, events>>
        ELSE /\ applied' = [applied EXCEPT ![c.id] = c.frame]
             /\ Paint(panels[c.id], c.frame, requests)
  /\ UNCHANGED <<panels, created>>

(* The frame is not as wide as the panel, for its size was overwritten (see*)
(* TakeConfigures) or the width is the axis left out, and has more pixels  *)
(* than the buffer that is made for it: the copy panics, and the thread    *)
(* ends.                                                                   *)
PaintPanics ==
  /\ at = "commands" /\ at' = "ended" /\ commands # <<>> /\ commands' = Tail(commands) /\ Event
  /\ LET c == Head(commands)
     IN /\ panels[c.id] # None /\ panels[c.id].configured
        /\ c.cmd \in {"Resize", "UpdatePicture"}
        /\ c.cmd = "Resize" => panels[c.id].size = c.frame.size
  /\ UNCHANGED <<spec, asked, panels, created, configures, applied, requests, wire, server>>

(* The panel is dropped, and its surface with it.                          *)
ApplyDelete ==
  /\ Received("Delete")
  /\ LET c == Head(commands)
     IN IF panels[c.id] = None THEN UNCHANGED <<panels, applied, requests>>
        ELSE /\ panels' = [panels EXCEPT ![c.id] = None]
             /\ applied' = [applied EXCEPT ![c.id] = None]
             /\ requests' = Append(requests, [req |-> "destroy", surface |-> panels[c.id].surface])
  /\ UNCHANGED <<created, events>>

Drained ==
  /\ at = "commands" /\ commands = <<>> /\ at' = "configures"
  /\ UNCHANGED <<pipeline, panels, created, configures, applied, requests, wire, server, events>>

MineById(p) == {i \in DOMAIN configures : server[configures[i].surface].of = p}

(* The configures of a panel are those of its surface, not those of a      *)
(* former panel with its id.                                               *)
Mine(p) == {i \in DOMAIN configures : configures[i].surface = panels[p].surface}

(* Each one sets the size, and from the first on the panel can be painted. *)
(* The NeedsRender sent with it is ignored by App::tick.                   *)
TakeConfigures ==
  /\ at = "configures" /\ at' = "dispatch"
  /\ panels' = [p \in Panel |->
       IF panels[p] = None \/ Mine(p) = {} THEN panels[p]
       ELSE [panels[p] EXCEPT !.configured = TRUE, !.size = configures[Max(Mine(p))].size]]
  /\ configures' = <<>>
  /\ UNCHANGED <<pipeline, created, applied, requests, wire, server, events>>

(* dispatch reads what there is, acknowledges the configures and queues    *)
(* them.  That a surface was closed is read, too, and ignored.             *)
Dispatch ==
  /\ at = "dispatch" /\ at' = "commands"
  /\ wire' = <<>> /\ configures' = wire
  /\ requests' = requests \o [i \in DOMAIN wire |-> [req |-> "ack", surface |-> wire[i].surface]]
  /\ UNCHANGED <<pipeline, panels, created, applied, server, events>>

Presenter == \/ ApplyCreate \/ ApplyResize \/ ApplyUpdatePicture \/ ApplyDelete
             \/ Drained \/ TakeConfigures \/ Dispatch

-----------------------------------------------------------------------------
(* The compositor.  It configures a surface when it is first committed and *)
(* when it asks for another size than before, and grants what it asks for. *)

Serve ==
  /\ requests # <<>> /\ requests' = Tail(requests)
  /\ LET r == Head(requests)
         s == r.surface
     IN server' = CASE r.req = "commit" ->
                         [server EXCEPT ![s].of = r.of, ![s].wanted = r.size,
                                        ![s].owes = @ \/ server[s].wanted # r.size]
                    [] r.req = "ack" -> [server EXCEPT ![s].acked = TRUE]
                    [] r.req = "buffer" -> [server EXCEPT ![s].shows = r.frame]
                    [] r.req = "destroy" -> [server EXCEPT ![s].open = FALSE, ![s].shows = None]
  /\ UNCHANGED <<pipeline, presenter, wire, events>>

Send(s) ==
  /\ server[s].open /\ server[s].wanted # None
  /\ wire' = Append(wire, [surface |-> s, size |-> server[s].wanted])
  /\ server' = [server EXCEPT ![s].owes = FALSE]
  /\ UNCHANGED <<pipeline, presenter, requests>>

Configure(s) == server[s].owes /\ Send(s) /\ UNCHANGED events
ConfigureUnasked(s) == ~server[s].owes /\ Event /\ Send(s)

(* Its output went away, for instance; what it then sends is left out.     *)
Close(s) ==
  /\ Event /\ server[s].open /\ server[s].wanted # None
  /\ server' = [server EXCEPT ![s].open = FALSE, ![s].shows = None]
  /\ UNCHANGED <<pipeline, presenter, requests, wire>>

Compositor == Serve \/ \E s \in Surface : Configure(s)

-----------------------------------------------------------------------------
Next ==
  \/ \E p \in Panel, size \in Size : Create(p, size) \/ Resize(p, size)
  \/ \E p \in Panel : UpdatePicture(p) \/ Delete(p)
  \/ Presenter \/ CreateFails \/ PaintPanics \/ Compositor
  \/ \E s \in Surface : ConfigureUnasked(s) \/ Close(s)

Spec == Init /\ [][Next]_vars

(* The presenter's thread and the compositor go on; the pipeline need not. *)
FairSpec == Spec /\ WF_vars(Presenter) /\ WF_vars(Serve) /\ \A s \in Surface : WF_vars(Configure(s))

-----------------------------------------------------------------------------
(* Every variable has its type, and surfaces are numbered as they come.    *)
TypeOK ==
  /\ spec \in [Panel -> Size \cup {None}] /\ asked \in 0..MaxCommands
  /\ commands \in Seq([cmd : {"Create", "Resize", "UpdatePicture", "Delete"}, id : Panel, frame : Frame])
  /\ at \in {"commands", "configures", "dispatch", "ended"}
  /\ panels \in [Panel -> WaylandPanel \cup {None}] /\ created \in Nat /\ created + Len(commands) <= asked
  /\ \A p \in Panel : panels[p] # None => panels[p].surface <= created
  /\ configures \in Seq(Configured) /\ wire \in Seq(Configured) /\ requests \in Seq(Request)
  /\ applied \in [Panel -> Frame \cup {None}]
  /\ server \in [Surface -> LayerSurface] /\ events \in 0..MaxEvents

(* No buffer reaches a surface before its first configure is acknowledged, *)
(* whatever was deleted and created under its id: the compositor would end *)
(* the connection, and every panel with it (WaylandPanel::render, the      *)
(* surface_id of the configures).                                          *)
ProtocolKept ==
  requests # <<>> /\ Head(requests).req = "buffer" => server[Head(requests).surface].acked

(* No panel stays unpaintable: for each new size that is asked for an      *)
(* answer comes, also after a configure for the size before has overwritten*)
(* the panel's own; the surface is else closed, or the thread has panicked *)
(* (update_spec, fixed_axis_changed).                                      *)
PaintableAgain ==
  \A p \in Panel :
    []<>(\/ panels[p] = None \/ panels[p].configured
         \/ ~server[panels[p].surface].open \/ at = "ended")

(* A configure of surface s is on its way to its panel, or will be.        *)
AnswerComing(s) ==
  \/ server[s].owes
  \/ \E i \in DOMAIN requests :
       requests[i].req = "commit" /\ requests[i].surface = s /\ requests[i].size # server[s].wanted
  \/ \E i \in DOMAIN wire : wire[i].surface = s
  \/ \E i \in DOMAIN configures : configures[i].surface = s

(* What PaintableAgain rests on: in any state, a panel that no configure is*)
(* coming for can be painted, and at the size that was asked for last      *)
(* (update_spec: a size is only asked for again when it is another).       *)
NoneForgotten ==
  \A p \in Panel : panels[p] # None =>
    \/ AnswerComing(panels[p].surface)
    \/ panels[p].configured /\ panels[p].size = server[panels[p].surface].wanted

(* "The surface won't render until the compositor sends a configure and    *)
(* `WaylandPanel::render` is called with pixel data" (windowing/wayland/   *)
(* mod.rs:220): in the end a panel shows the last frame there was for it.  *)
(* Not so: the frame of a Create, or of a Resize, is dropped, and the      *)
(* NeedsRender that follows the configure is ignored (app.rs:1635).        *)
ShowsLatest ==
  <>[](\A p \in Panel : panels[p] # None /\ server[panels[p].surface].open =>
         server[panels[p].surface].shows = applied[p])

(* A frame is painted at the size it was drawn for.  Not so: a configure   *)
(* sent before a resize overwrites the size it asked for.                  *)
PaintedAtItsSize ==
  requests # <<>> /\ Head(requests).req = "buffer" => Head(requests).at = Head(requests).frame.size

(* In the end a panel has the size that was asked for last.  Not so: a     *)
(* resize back to the size of a configure that was late asks for nothing   *)
(* (update_spec), and the answer to the resize before it stands.           *)
EndsAtItsSize ==
  <>[](\A p \in Panel : panels[p] # None /\ server[panels[p].surface].open => panels[p].size = applied[p].size)
=============================================================================
