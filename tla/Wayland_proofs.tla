---------------------------- MODULE Wayland_proofs ----------------------------
(* What holds between the presenter and the compositor for every number of *)
(* panels, commands and events.                                            *)
EXTENDS Wayland, SequenceTheorems, WellFoundedInduction, TLAPS

USE BoundsAssumption, NoneAssumption

(* Of a queue, what is left after its head is taken is still in order.     *)
LEMMA QueueTyped ==
  ASSUME NEW T, NEW q \in Seq(T), q # <<>>
  PROVE  /\ Head(q) \in T /\ Tail(q) \in Seq(T) /\ Len(q) \in Nat \ {0} /\ Len(Tail(q)) = Len(q) - 1
         /\ Head(q) = q[1] /\ \A i \in 1..Len(Tail(q)) : Tail(q)[i] = q[i + 1]
BY HeadTailProperties, LenProperties

(* What is sent joins a queue behind what is in it.                        *)
LEMMA SentTyped ==
  ASSUME NEW T, NEW q \in Seq(T), NEW t \in Seq(T)
  PROVE  /\ q \o t \in Seq(T) /\ Len(q) \in Nat /\ Len(t) \in Nat /\ Len(q \o t) = Len(q) + Len(t)
         /\ \A i \in 1..Len(q) : (q \o t)[i] = q[i]
         /\ \A i \in 1..Len(t) : (q \o t)[Len(q) + i] = t[i]
<1>1. /\ q \o t \in Seq(T) /\ Len(q) \in Nat /\ Len(t) \in Nat /\ Len(q \o t) = Len(q) + Len(t)
  BY ConcatProperties, LenProperties
<1>2. \A i \in 1..Len(q) + Len(t) : (q \o t)[i] = IF i <= Len(q) THEN q[i] ELSE t[i - Len(q)]
  BY ConcatProperties
<1>3. ASSUME NEW i \in 1..Len(t) PROVE (q \o t)[Len(q) + i] = t[i]
  <2>1. Len(q) + i \in 1..Len(q) + Len(t) /\ ~(Len(q) + i <= Len(q)) /\ Len(q) + i - Len(q) = i
    BY <1>1
  <2> QED BY <2>1, <1>2
<1> QED BY <1>1, <1>2, <1>3

(* The last of some places in a queue is one of them, none is after it.    *)
LEMMA MaxIsOne ==
  ASSUME NEW n \in Nat, NEW S \in SUBSET (1..n), S # {}
  PROVE  Max(S) \in S /\ \A x \in S : Max(S) >= x
<1> DEFINE T == {n - x : x \in S}
<1>1. T \subseteq Nat /\ T # {}
  <2>1. \A x \in S : n - x \in Nat
    OBVIOUS
  <2> QED BY <2>1
<1>2. PICK t \in T : \A y \in T : ~(<<y, t>> \in OpToRel(<, Nat))
  BY <1>1, WFMin, NatLessThanWellFounded
<1>3. \A y \in T : ~(y < t)
  BY <1>1, <1>2 DEF OpToRel
<1>4. PICK m \in S : t = n - m
  OBVIOUS
<1>5. ASSUME NEW x \in S PROVE m >= x
  <2>1. n - x \in T /\ ~(n - x < n - m)
    BY <1>3, <1>4
  <2> QED BY <2>1
<1> QED BY <1>5 DEF Max

-----------------------------------------------------------------------------
(* Types.                                                                  *)

Command == [cmd : {"Create", "Resize", "UpdatePicture", "Delete"}, id : Panel, frame : Frame]

(* The command that is next, and the surface it would be given.            *)
LEMMA CommandTyped ==
  ASSUME TypeOK, commands # <<>>
  PROVE  /\ Head(commands) \in Command /\ Head(commands).id \in Panel
         /\ Head(commands).frame \in Frame /\ Head(commands).frame.size \in Size
         /\ Tail(commands) \in Seq(Command)
         /\ created \in Nat /\ created + 1 \in Surface /\ created + 1 + Len(Tail(commands)) <= asked
         /\ created + Len(Tail(commands)) <= asked
<1>1. commands \in Seq(Command) /\ created \in Nat /\ asked \in 0..MaxCommands
      /\ created + Len(commands) <= asked
  BY DEF TypeOK, Command
<1>2. /\ Head(commands) \in Command /\ Tail(commands) \in Seq(Command)
      /\ Len(commands) \in Nat \ {0} /\ Len(Tail(commands)) = Len(commands) - 1
  BY <1>1, QueueTyped
<1>3. created + 1 \in 1..MaxCommands /\ created + 1 + Len(Tail(commands)) <= asked
      /\ created + Len(Tail(commands)) <= asked
  BY <1>1, <1>2
<1> QED BY <1>1, <1>2, <1>3 DEF Command, Frame, Surface

(* A panel has a surface, a size and a flag.                               *)
LEMMA PanelTyped ==
  ASSUME TypeOK, NEW p \in Panel, panels[p] # None
  PROVE  /\ panels[p] \in WaylandPanel /\ panels[p].surface \in Surface /\ panels[p].size \in Size
         /\ panels[p].configured \in BOOLEAN /\ panels[p].surface <= created
<1>1. panels[p] \in WaylandPanel /\ panels[p].surface <= created
  BY DEF TypeOK
<1> QED BY <1>1 DEF WaylandPanel

(* What is sent to the compositor is a request.                            *)
LEMMA CommitTyped ==
  ASSUME NEW s \in Surface, NEW p \in Panel, NEW size \in Size
  PROVE  /\ Commit(s, p, size) \in Request /\ Commit(s, p, size).req = "commit"
         /\ [req |-> "destroy", surface |-> s] \in Request
BY DEF Commit, Request

(* What a panel sends when it is painted: nothing before it is configured. *)
LEMMA RenderTyped ==
  ASSUME NEW panel \in WaylandPanel, NEW frame \in Frame
  PROVE  /\ Render(panel, frame) \in Seq(Request)
         /\ ~panel.configured => Render(panel, frame) = <<>>
         /\ \A k \in 1..Len(Render(panel, frame)) :
              panel.configured /\ Render(panel, frame)[k].surface = panel.surface
<1>1. Buffer(panel, frame) \in Request /\ Buffer(panel, frame).surface = panel.surface
  BY DEF Buffer, Request, WaylandPanel
<1>2. CASE panel.configured
  <2>1. Render(panel, frame) = <<Buffer(panel, frame)>>
    BY <1>2 DEF Render
  <2> QED BY <1>1, <1>2, <2>1
<1>3. CASE ~panel.configured
  <2>1. Render(panel, frame) = <<>>
    BY <1>3 DEF Render
  <2> QED BY <1>3, <2>1
<1> QED BY <1>2, <1>3

(* Of what is sent, each buffer is that of a panel that is configured.     *)
OfConfigured(t) ==
  \A k \in 1..Len(t) : t[k].req = "buffer" =>
    \E p \in Panel : panels[p] # None /\ panels[p].configured /\ panels[p].surface = t[k].surface
Sends == \E t \in Seq(Request) : requests' = requests \o t /\ OfConfigured(t)

(* Nothing sent is fine, too, and so is one request that is no buffer.     *)
LEMMA NothingSent ==
  ASSUME TypeOK PROVE requests' = requests => Sends
<1>1. requests \in Seq(Request) /\ <<>> \in Seq(Request) /\ requests \o <<>> = requests
  BY ConcatEmptySeq DEF TypeOK
<1>2. OfConfigured(<<>>)
  BY DEF OfConfigured
<1> QED BY <1>1, <1>2 DEF Sends

(* One request that is no buffer, and what a panel is then painted with.   *)
LEMMA OneSent ==
  ASSUME TypeOK, NEW r \in Request, r.req # "buffer", NEW t \in Seq(Request), OfConfigured(t)
  PROVE  /\ requests' = Append(requests, r) \o t => Sends
         /\ requests' = Append(requests, r) => Sends
<1>0. requests \in Seq(Request) /\ <<r>> \in Seq(Request) /\ Len(<<r>>) = 1 /\ <<r>>[1] = r
  BY DEF TypeOK
<1>1. Append(requests, r) = requests \o <<r>>
  BY <1>0, AppendIsConcat
<1>2. (requests \o <<r>>) \o t = requests \o (<<r>> \o t)
  BY <1>0, ConcatAssociative
<1>3. <<r>> \o t \in Seq(Request) /\ Len(<<r>> \o t) = 1 + Len(t) /\ Len(t) \in Nat
      /\ (<<r>> \o t)[1] = r /\ \A i \in 1..Len(t) : (<<r>> \o t)[1 + i] = t[i]
  BY <1>0, SentTyped
<1>4. OfConfigured(<<r>> \o t)
  <2> SUFFICES ASSUME NEW k \in 1..Len(<<r>> \o t), (<<r>> \o t)[k].req = "buffer"
               PROVE  \E p \in Panel : /\ panels[p] # None /\ panels[p].configured
                                       /\ panels[p].surface = (<<r>> \o t)[k].surface
    BY DEF OfConfigured
  <2>1. k # 1
    BY <1>3
  <2>2. k - 1 \in 1..Len(t) /\ 1 + (k - 1) = k
    BY <2>1, <1>3
  <2>3. (<<r>> \o t)[k] = t[k - 1]
    BY <2>2, <1>3
  <2> QED BY <2>2, <2>3 DEF OfConfigured
<1>5. OfConfigured(<<r>>)
  BY <1>0 DEF OfConfigured
<1> QED BY <1>0, <1>1, <1>2, <1>3, <1>4, <1>5 DEF Sends

(* A panel that is not configured paints nothing, any other only itself.   *)
LEMMA RenderOfConfigured ==
  ASSUME NEW panel \in WaylandPanel, NEW frame \in Frame,
         panel.configured => \E p \in Panel : panels[p] # None /\ panels[p] = panel
  PROVE  Render(panel, frame) \in Seq(Request) /\ OfConfigured(Render(panel, frame))
BY RenderTyped DEF OfConfigured

(* A frame is painted or dropped.                                          *)
LEMMA PaintedOrDropped ==
  ASSUME NEW panel, NEW frame, NEW sent, Paint(panel, frame, sent)
  PROVE  /\ requests' = sent \/ requests' = sent \o Render(panel, frame)
         /\ events \in 0..MaxEvents => events' \in 0..MaxEvents
BY BoundsAssumption DEF Paint, Event

(* The presenter sends buffers of configured panels only.                  *)
LEMMA CreateSends == TypeOK /\ (ApplyCreate \/ CreateFails) => Sends
<1> SUFFICES ASSUME TypeOK, ApplyCreate \/ CreateFails PROVE Sends
  OBVIOUS
<1> DEFINE c == Head(commands)
           panel == [surface |-> created + 1, configured |-> FALSE, size |-> c.frame.size]
           commit == Commit(created + 1, c.id, c.frame.size)
           destroy == [req |-> "destroy", surface |-> created + 1]
<1>1. created + 1 \in Surface /\ c.id \in Panel /\ c.frame \in Frame /\ c.frame.size \in Size
  BY CommandTyped DEF ApplyCreate, CreateFails, Received
<1>2. commit \in Request /\ commit.req # "buffer" /\ destroy \in Request /\ destroy.req # "buffer"
  BY <1>1, CommitTyped
<1>3. panel \in WaylandPanel /\ ~panel.configured
  BY <1>1 DEF WaylandPanel
<1>4. CASE ApplyCreate
  <2>1. requests' = Append(requests, commit) \o Render(panel, c.frame)
    BY <1>4 DEF ApplyCreate
  <2>2. Render(panel, c.frame) \in Seq(Request) /\ OfConfigured(Render(panel, c.frame))
    BY <1>1, <1>3, RenderOfConfigured
  <2> QED BY <1>2, <2>1, <2>2, OneSent
<1>5. CASE CreateFails
  <2> DEFINE t == <<commit, destroy>>
  <2>1. requests' = requests \o t
    BY <1>5 DEF CreateFails
  <2>2. t \in Seq(Request) /\ Len(t) = 2 /\ t[1] = commit /\ t[2] = destroy
    BY <1>2
  <2>3. OfConfigured(t)
    BY <1>2, <2>2 DEF OfConfigured
  <2> QED BY <2>1, <2>2, <2>3 DEF Sends
<1> QED BY <1>4, <1>5

(* A panel asked for another size paints nothing.                          *)
LEMMA ResizeSends == TypeOK /\ ApplyResize => Sends
<1> SUFFICES ASSUME TypeOK, ApplyResize PROVE Sends
  OBVIOUS
<1> DEFINE c == Head(commands)
           panel == UpdateSpec(panels[c.id], c.frame.size)
<1>1. c.id \in Panel /\ c.frame \in Frame /\ c.frame.size \in Size
  BY CommandTyped DEF ApplyResize, Received
<1>2. CASE panels[c.id] = None
  BY <1>2, NothingSent DEF ApplyResize
<1>3. CASE panels[c.id] # None
  <2>1. panels[c.id] \in WaylandPanel /\ panels[c.id].surface \in Surface
    BY <1>1, <1>3, PanelTyped
  <2>2. panel \in WaylandPanel /\ panel.surface \in Surface /\ (panel # panels[c.id] => ~panel.configured)
    BY <1>1, <2>1 DEF UpdateSpec, WaylandPanel
  <2>3. Render(panel, c.frame) \in Seq(Request) /\ OfConfigured(Render(panel, c.frame))
    BY <1>1, <1>3, <2>2, RenderOfConfigured
  <2>4. Paint(panel, c.frame, IF panel = panels[c.id] THEN requests
                              ELSE Append(requests, Commit(panel.surface, c.id, c.frame.size)))
    BY <1>3 DEF ApplyResize
  <2>5. CASE panel = panels[c.id]
    <3>1. requests' = requests \/ requests' = requests \o Render(panel, c.frame)
      BY <2>4, <2>5, PaintedOrDropped
    <3> QED BY <2>3, <3>1, NothingSent DEF Sends
  <2>6. CASE panel # panels[c.id]
    <3>1. \/ requests' = Append(requests, Commit(panel.surface, c.id, c.frame.size))
          \/ requests' = Append(requests, Commit(panel.surface, c.id, c.frame.size)) \o Render(panel, c.frame)
      <4>1. Paint(panel, c.frame, Append(requests, Commit(panel.surface, c.id, c.frame.size)))
        BY <2>4, <2>6
      <4> QED BY <4>1, PaintedOrDropped
    <3>2. /\ Commit(panel.surface, c.id, c.frame.size) \in Request
          /\ Commit(panel.surface, c.id, c.frame.size).req # "buffer"
      BY <1>1, <2>2, CommitTyped
    <3> HIDE DEF panel, c
    <3> QED BY <3>1, <3>2, <2>3, OneSent
  <2> QED BY <2>5, <2>6
<1> QED BY <1>2, <1>3

(* A new picture is painted if the panel is configured.                    *)
LEMMA PictureSends == TypeOK /\ ApplyUpdatePicture => Sends
<1> SUFFICES ASSUME TypeOK, ApplyUpdatePicture PROVE Sends
  OBVIOUS
<1> DEFINE c == Head(commands)
<1>1. c.id \in Panel /\ c.frame \in Frame
  BY CommandTyped DEF ApplyUpdatePicture, Received
<1>2. CASE panels[c.id] = None
  BY <1>2, NothingSent DEF ApplyUpdatePicture
<1>3. CASE panels[c.id] # None
  <2>1. panels[c.id] \in WaylandPanel
    BY <1>1, <1>3, PanelTyped
  <2>2. Render(panels[c.id], c.frame) \in Seq(Request) /\ OfConfigured(Render(panels[c.id], c.frame))
    BY <1>1, <1>3, <2>1, RenderOfConfigured
  <2>3. requests' = requests \/ requests' = requests \o Render(panels[c.id], c.frame)
    BY <1>3 DEF ApplyUpdatePicture, Paint
  <2> QED BY <2>2, <2>3, NothingSent DEF Sends
<1> QED BY <1>2, <1>3

(* A panel that goes destroys its surface.                                 *)
LEMMA DeleteSends == TypeOK /\ ApplyDelete => Sends
<1> SUFFICES ASSUME TypeOK, ApplyDelete PROVE Sends
  OBVIOUS
<1> DEFINE c == Head(commands)
           destroy == [req |-> "destroy", surface |-> panels[c.id].surface]
<1>1. c.id \in Panel
  BY CommandTyped DEF ApplyDelete, Received
<1>2. CASE panels[c.id] = None
  BY <1>2, NothingSent DEF ApplyDelete
<1>3. CASE panels[c.id] # None
  <2>1. panels[c.id].surface \in Surface
    BY <1>1, <1>3, PanelTyped
  <2>2. destroy \in Request /\ destroy.req # "buffer"
    BY <2>1 DEF Request
  <2>3. requests' = Append(requests, destroy)
    BY <1>3 DEF ApplyDelete
  <2>4. <<>> \in Seq(Request) /\ OfConfigured(<<>>)
    BY DEF OfConfigured
  <2> HIDE DEF destroy
  <2> QED BY <2>2, <2>3, <2>4, OneSent
<1> QED BY <1>2, <1>3

(* What it reads it acknowledges, in the same step.                        *)
LEMMA DispatchSends == TypeOK /\ Dispatch => Sends
<1> SUFFICES ASSUME TypeOK, Dispatch PROVE Sends
  OBVIOUS
<1> DEFINE t == [i \in 1..Len(wire) |-> [req |-> "ack", surface |-> wire[i].surface]]
<1>1. wire \in Seq(Configured) /\ DOMAIN wire = 1..Len(wire) /\ Len(wire) \in Nat
  BY LenProperties DEF TypeOK
<1>2. \A i \in 1..Len(wire) : wire[i].surface \in Surface
  <2>1. \A i \in 1..Len(wire) : wire[i] \in Configured
    BY <1>1, ElementOfSeq
  <2> QED BY <2>1 DEF Configured
<1>3. \A i \in 1..Len(wire) : [req |-> "ack", surface |-> wire[i].surface] \in Request
  BY <1>2 DEF Request
<1>4. t \in Seq(Request)
  BY <1>1, <1>3
<1>5. Len(t) = Len(wire)
  BY <1>1, <1>4, LenProperties
<1>6. OfConfigured(t)
  BY <1>5 DEF OfConfigured
<1>7. requests' = requests \o t
  BY <1>1 DEF Dispatch
<1> QED BY <1>4, <1>6, <1>7 DEF Sends

-----------------------------------------------------------------------------
(* The parts of TypeOK.                                                    *)
Numbered ==
  /\ spec \in [Panel -> Size \cup {None}] /\ asked \in 0..MaxCommands
  /\ commands \in Seq(Command) /\ created \in Nat /\ created + Len(commands) <= asked
Panels ==
  /\ at \in {"commands", "configures", "dispatch", "ended"}
  /\ panels \in [Panel -> WaylandPanel \cup {None}]
  /\ \A p \in Panel : panels[p] # None => panels[p].surface <= created
  /\ applied \in [Panel -> Frame \cup {None}]
Wires ==
  /\ configures \in Seq(Configured) /\ wire \in Seq(Configured) /\ requests \in Seq(Request)
  /\ server \in [Surface -> LayerSurface] /\ events \in 0..MaxEvents

(* TypeOK is the three together.                                           *)
LEMMA TypeParts == TypeOK <=> Numbered /\ Panels /\ Wires
BY DEF TypeOK, Numbered, Panels, Wires, Command

(* Initially.                                                              *)
LEMMA InitTyped == Init => TypeOK
<1> SUFFICES ASSUME Init PROVE Numbered /\ Panels /\ Wires
  BY TypeParts
<1>1. Numbered
  BY DEF Init, Numbered
<1>2. Panels
  BY DEF Init, Panels
<1>3. [of |-> None, wanted |-> None, owes |-> FALSE, acked |-> FALSE, open |-> TRUE, shows |-> None] \in LayerSurface
  BY DEF LayerSurface
<1>4. Wires
  BY <1>3 DEF Init, Wires
<1> QED BY <1>1, <1>2, <1>4

(* The pipeline only adds a command.                                       *)
LEMMA AskTyped ==
  ASSUME TypeOK, NEW p \in Panel, NEW size \in Size,
         NEW kind \in {"Create", "Resize", "UpdatePicture", "Delete"},
         Ask(kind, p, size), spec' \in [Panel -> Size \cup {None}]
  PROVE  TypeOK'
<1> SUFFICES Numbered' /\ Panels' /\ Wires'
  BY DEF TypeOK, Numbered, Panels, Wires, Command
<1>0. Numbered /\ Panels /\ Wires
  BY TypeParts
<1> DEFINE c == [cmd |-> kind, id |-> p, frame |-> [size |-> size, number |-> asked + 1]]
<1>1. asked < MaxCommands /\ asked' = asked + 1 /\ commands' = Append(commands, c)
  BY DEF Ask
<1>2. c \in Command
  BY <1>0, <1>1 DEF Numbered, Command, Frame
<1> HIDE DEF c
<1>3. commands' \in Seq(Command) /\ Len(commands') = Len(commands) + 1 /\ Len(commands) \in Nat
  BY <1>0, <1>1, <1>2, AppendProperties, LenProperties DEF Numbered
<1>4. Numbered'
  BY <1>0, <1>1, <1>3 DEF Numbered, Ask, presenter
<1>5. Panels' /\ Wires'
  BY <1>0 DEF Panels, Wires, Ask, presenter
<1> QED BY <1>4, <1>5

(* What a step of the presenter leaves of the queues is typed.             *)
LEMMA SendsTyped == TypeOK /\ Sends => requests' \in Seq(Request)
BY ConcatProperties DEF TypeOK, Sends

(* A command is taken; what is done with it is still open.                 *)
LEMMA ReceivedTyped ==
  ASSUME TypeOK, NEW kind, Received(kind), Sends, events' \in 0..MaxEvents,
         created' \in {created, created + 1},
         panels' \in [Panel -> WaylandPanel \cup {None}],
         \A p \in Panel : panels'[p] # None => panels'[p].surface <= created',
         applied' \in [Panel -> Frame \cup {None}]
  PROVE  TypeOK'
<1> SUFFICES Numbered' /\ Panels' /\ Wires'
  BY DEF TypeOK, Numbered, Panels, Wires, Command
<1>0. Numbered /\ Panels /\ Wires
  BY TypeParts
<1>1. commands # <<>> /\ commands' = Tail(commands) /\ UNCHANGED <<spec, asked, at, configures, wire, server>>
  BY DEF Received
<1>2. commands' \in Seq(Command) /\ created' \in Nat /\ created' + Len(commands') <= asked
  BY <1>1, CommandTyped
<1>3. Numbered'
  BY <1>0, <1>1, <1>2 DEF Numbered
<1>4. Panels'
  BY <1>0, <1>1 DEF Panels
<1>5. Wires'
  BY <1>0, <1>1, SendsTyped DEF Wires
<1> QED BY <1>3, <1>4, <1>5

(* The presenter's steps.                                                  *)
LEMMA CreateTyped == TypeOK /\ (ApplyCreate \/ CreateFails) => TypeOK'
<1> SUFFICES ASSUME TypeOK, ApplyCreate \/ CreateFails PROVE TypeOK'
  OBVIOUS
<1> DEFINE c == Head(commands)
           panel == [surface |-> created + 1, configured |-> FALSE, size |-> c.frame.size]
<1>0. Sends /\ Numbered /\ Panels /\ Wires
  BY CreateSends, TypeParts
<1>1. created + 1 \in Surface /\ c.id \in Panel /\ c.frame \in Frame /\ c.frame.size \in Size /\ created \in Nat
  BY CommandTyped DEF ApplyCreate, CreateFails, Received
<1>2. panel \in WaylandPanel /\ panel.surface = created + 1
  BY <1>1 DEF WaylandPanel
<1>3. \A p \in Panel : panels[p] # None => panels[p].surface \in Nat /\ panels[p].surface <= created
  BY PanelTyped DEF Surface
<1>4. CASE ApplyCreate
  <2>1. /\ created' = created + 1 /\ panels' = [panels EXCEPT ![c.id] = panel]
        /\ applied' = [applied EXCEPT ![c.id] = c.frame] /\ Received("Create") /\ events' = events
    BY <1>4 DEF ApplyCreate
  <2> HIDE DEF panel, c
  <2>2. panels' \in [Panel -> WaylandPanel \cup {None}] /\ applied' \in [Panel -> Frame \cup {None}]
    BY <1>0, <1>1, <1>2, <2>1 DEF Panels
  <2>3. \A p \in Panel : panels'[p] # None => panels'[p].surface <= created'
    BY <1>0, <1>1, <1>2, <1>3, <2>1 DEF Panels
  <2> QED BY <1>0, <2>1, <2>2, <2>3, ReceivedTyped DEF Wires
<1>5. CASE CreateFails
  <2>1. /\ created' = created + 1 /\ panels' = panels /\ applied' = applied
        /\ Received("Create") /\ events' \in 0..MaxEvents
    BY <1>0, <1>5 DEF CreateFails, Event, Wires
  <2>2. \A p \in Panel : panels'[p] # None => panels'[p].surface <= created'
    BY <1>1, <1>3, <2>1
  <2> QED BY <1>0, <2>1, <2>2, ReceivedTyped DEF Panels
<1> QED BY <1>4, <1>5

(* A panel keeps its surface when it is resized.                           *)
LEMMA ResizeTyped == TypeOK /\ ApplyResize => TypeOK'
<1> SUFFICES ASSUME TypeOK, ApplyResize PROVE TypeOK'
  OBVIOUS
<1> DEFINE c == Head(commands)
           panel == UpdateSpec(panels[c.id], c.frame.size)
<1>0. Sends /\ Panels /\ Wires /\ Received("Resize") /\ created' = created
  BY ResizeSends, TypeParts DEF ApplyResize
<1>4. events' \in 0..MaxEvents
  <2>1. events' = events \/ \E sent : Paint(panel, c.frame, sent)
    BY DEF ApplyResize
  <2> QED BY <1>0, <2>1, PaintedOrDropped DEF Wires
<1>1. c.id \in Panel /\ c.frame \in Frame /\ c.frame.size \in Size
  BY <1>0, CommandTyped DEF Received
<1>2. CASE panels[c.id] = None
  <2>1. UNCHANGED <<panels, applied>>
    BY <1>2 DEF ApplyResize
  <2> QED BY <1>0, <1>4, <2>1, ReceivedTyped DEF Panels
<1>3. CASE panels[c.id] # None
  <2>1. panels[c.id] \in WaylandPanel /\ panels[c.id].surface <= created
    BY <1>1, <1>3, PanelTyped
  <2>2. panel \in WaylandPanel /\ panel.surface = panels[c.id].surface
    BY <1>1, <2>1 DEF UpdateSpec, WaylandPanel
  <2>3. panels' = [panels EXCEPT ![c.id] = panel] /\ applied' = [applied EXCEPT ![c.id] = c.frame]
    BY <1>3 DEF ApplyResize
  <2> HIDE DEF panel, c
  <2>4. panels' \in [Panel -> WaylandPanel \cup {None}] /\ applied' \in [Panel -> Frame \cup {None}]
    BY <1>0, <1>1, <2>2, <2>3 DEF Panels
  <2>5. \A p \in Panel : panels'[p] # None => panels'[p].surface <= created'
    BY <1>0, <1>1, <2>1, <2>2, <2>3 DEF Panels
  <2> QED BY <1>0, <1>4, <2>4, <2>5, ReceivedTyped
<1> QED BY <1>2, <1>3

(* A picture changes no panel.                                             *)
LEMMA PictureTyped == TypeOK /\ ApplyUpdatePicture => TypeOK'
<1> SUFFICES ASSUME TypeOK, ApplyUpdatePicture PROVE TypeOK'
  OBVIOUS
<1>0. Sends /\ Panels /\ Wires /\ Received("UpdatePicture") /\ UNCHANGED <<panels, created>>
  BY PictureSends, TypeParts DEF ApplyUpdatePicture
<1>1. Head(commands).id \in Panel /\ Head(commands).frame \in Frame
  BY <1>0, CommandTyped DEF Received
<1>2. applied' \in [Panel -> Frame \cup {None}]
  <2>1. applied' = applied \/ applied' = [applied EXCEPT ![Head(commands).id] = Head(commands).frame]
    BY DEF ApplyUpdatePicture
  <2> QED BY <1>0, <1>1, <2>1 DEF Panels
<1>3. events' \in 0..MaxEvents
  <2>1. events' = events \/ Paint(panels[Head(commands).id], Head(commands).frame, requests)
    BY DEF ApplyUpdatePicture
  <2> QED BY <1>0, <2>1, PaintedOrDropped DEF Wires
<1> QED BY <1>0, <1>2, <1>3, ReceivedTyped DEF Panels

(* A panel that goes leaves None.                                          *)
LEMMA DeleteTyped == TypeOK /\ ApplyDelete => TypeOK'
<1> SUFFICES ASSUME TypeOK, ApplyDelete PROVE TypeOK'
  OBVIOUS
<1>0. Sends /\ Panels /\ Wires /\ Received("Delete") /\ UNCHANGED <<created, events>>
  BY DeleteSends, TypeParts DEF ApplyDelete
<1>1. Head(commands).id \in Panel
  BY <1>0, CommandTyped DEF Received
<1>2. \/ UNCHANGED <<panels, applied>>
      \/ /\ panels' = [panels EXCEPT ![Head(commands).id] = None]
         /\ applied' = [applied EXCEPT ![Head(commands).id] = None]
  BY DEF ApplyDelete
<1>3. /\ panels' \in [Panel -> WaylandPanel \cup {None}] /\ applied' \in [Panel -> Frame \cup {None}]
      /\ \A p \in Panel : panels'[p] # None => panels'[p].surface <= created'
  BY <1>0, <1>1, <1>2 DEF Panels
<1> QED BY <1>0, <1>3, ReceivedTyped DEF Wires

(* An empty channel moves the thread on.                                   *)
LEMMA DrainedTyped == TypeOK /\ Drained => TypeOK'
BY DEF TypeOK, Drained, pipeline

(* A configure read is a configure for one of the panel's own size.        *)
LEMMA TakenTyped ==
  ASSUME TypeOK, NEW p \in Panel, Mine(p) # {}
  PROVE  Max(Mine(p)) \in Mine(p) /\ configures[Max(Mine(p))] \in Configured
<1>1. configures \in Seq(Configured) /\ Len(configures) \in Nat /\ DOMAIN configures = 1..Len(configures)
  BY LenProperties DEF TypeOK
<1>2. Mine(p) \in SUBSET (1..Len(configures))
  BY <1>1 DEF Mine
<1>3. Max(Mine(p)) \in Mine(p)
  BY <1>1, <1>2, MaxIsOne
<1> QED BY <1>1, <1>2, <1>3, ElementOfSeq

(* The last of a panel's configures gives it a size.                       *)
LEMMA TakeTyped == TypeOK /\ TakeConfigures => TypeOK'
<1> SUFFICES ASSUME TypeOK, TakeConfigures PROVE Numbered' /\ Panels' /\ Wires'
  BY DEF TypeOK, Numbered, Panels, Wires, Command
<1>0. Numbered /\ Panels /\ Wires
  BY TypeParts
<1>1. ASSUME NEW p \in Panel, panels[p] # None, Mine(p) # {}
      PROVE  [panels[p] EXCEPT !.configured = TRUE, !.size = configures[Max(Mine(p))].size] \in WaylandPanel
  <2>1. panels[p] \in WaylandPanel /\ configures[Max(Mine(p))].size \in Size
    BY <1>1, PanelTyped, TakenTyped DEF Configured
  <2> QED BY <2>1 DEF WaylandPanel
<1>2. panels' = [p \in Panel |->
        IF panels[p] = None \/ Mine(p) = {} THEN panels[p]
        ELSE [panels[p] EXCEPT !.configured = TRUE, !.size = configures[Max(Mine(p))].size]]
  BY DEF TakeConfigures
<1>3. panels' \in [Panel -> WaylandPanel \cup {None}]
  BY <1>0, <1>1, <1>2 DEF Panels
<1>4. ASSUME NEW p \in Panel, panels'[p] # None
      PROVE  panels[p] # None /\ panels'[p].surface = panels[p].surface
  <2>1. CASE panels[p] = None \/ Mine(p) = {}
    BY <1>2, <1>4, <2>1
  <2>2. CASE ~(panels[p] = None \/ Mine(p) = {})
    <3>1. panels'[p] = [panels[p] EXCEPT !.configured = TRUE, !.size = configures[Max(Mine(p))].size]
      BY <1>2, <2>2
    <3>2. panels[p] \in WaylandPanel
      BY <2>2, PanelTyped
    <3> QED BY <2>2, <3>1, <3>2 DEF WaylandPanel
  <2> QED BY <2>1, <2>2
<1>5. Panels'
  BY <1>0, <1>3, <1>4 DEF Panels, TakeConfigures
<1>6. Numbered'
  BY <1>0 DEF Numbered, TakeConfigures, pipeline
<1>7. configures' = <<>> /\ UNCHANGED <<requests, wire, server, events>>
  BY DEF TakeConfigures
<1>8. Wires'
  BY <1>0, <1>7 DEF Wires
<1> QED BY <1>5, <1>6, <1>8

(* What was on the wire becomes what was read.                             *)
LEMMA DispatchTyped == TypeOK /\ Dispatch => TypeOK'
<1> SUFFICES ASSUME TypeOK, Dispatch PROVE Numbered' /\ Panels' /\ Wires'
  BY DEF TypeOK, Numbered, Panels, Wires, Command
<1>0. Numbered /\ Panels /\ Wires /\ requests' \in Seq(Request)
  BY TypeParts, DispatchSends, SendsTyped
<1> QED BY <1>0 DEF Numbered, Panels, Wires, Dispatch, pipeline

(* The compositor's steps change its side of a surface.                    *)
LEMMA ServeTyped == TypeOK /\ Serve => TypeOK'
<1> SUFFICES ASSUME TypeOK, Serve PROVE Numbered' /\ Panels' /\ Wires'
  BY DEF TypeOK, Numbered, Panels, Wires, Command
<1> DEFINE r == Head(requests)
<1>0. Numbered /\ Panels /\ Wires
  BY TypeParts
<1>1. r \in Request /\ Tail(requests) \in Seq(Request)
  BY <1>0, QueueTyped DEF Serve, Wires
<1>2. r.surface \in Surface /\ server[r.surface] \in LayerSurface
  BY <1>0, <1>1 DEF Request, Wires
<1>3. server' \in [Surface -> LayerSurface]
  <2>1. CASE r.req = "commit"
    <3>1. r.of \in Panel /\ r.size \in Size
      BY <1>1, <2>1 DEF Request
    <3>2. server' = [server EXCEPT ![r.surface].of = r.of, ![r.surface].wanted = r.size,
                                   ![r.surface].owes = @ \/ server[r.surface].wanted # r.size]
      BY <2>1 DEF Serve
    <3> HIDE DEF r
    <3> QED BY <1>0, <1>2, <3>1, <3>2 DEF Wires, LayerSurface
  <2>2. CASE r.req = "ack"
    <3>1. server' = [server EXCEPT ![r.surface].acked = TRUE]
      BY <2>2 DEF Serve
    <3> HIDE DEF r
    <3> QED BY <1>0, <1>2, <3>1 DEF Wires, LayerSurface
  <2>3. CASE r.req = "buffer"
    <3>1. r.frame \in Frame
      BY <1>1, <2>3 DEF Request
    <3>2. server' = [server EXCEPT ![r.surface].shows = r.frame]
      BY <2>3 DEF Serve
    <3> HIDE DEF r
    <3> QED BY <1>0, <1>2, <3>1, <3>2 DEF Wires, LayerSurface
  <2>4. CASE r.req = "destroy"
    <3>1. server' = [server EXCEPT ![r.surface].open = FALSE, ![r.surface].shows = None]
      BY <2>4 DEF Serve
    <3> HIDE DEF r
    <3> QED BY <1>0, <1>2, <3>1 DEF Wires, LayerSurface
  <2>5. r.req \in {"commit", "ack", "buffer", "destroy"}
    BY <1>1 DEF Request
  <2> QED BY <2>1, <2>2, <2>3, <2>4, <2>5
<1>4. Wires'
  BY <1>0, <1>1, <1>3 DEF Wires, Serve, presenter
<1>5. Numbered' /\ Panels'
  BY <1>0 DEF Numbered, Panels, Serve, presenter, pipeline
<1> QED BY <1>4, <1>5

(* A configure that is sent, asked for or not, is one for a size.          *)
LEMMA SendTyped ==
  ASSUME TypeOK, NEW s \in Surface, Send(s), events' \in 0..MaxEvents
  PROVE  TypeOK'
<1> SUFFICES Numbered' /\ Panels' /\ Wires'
  BY DEF TypeOK, Numbered, Panels, Wires, Command
<1>0. Numbered /\ Panels /\ Wires
  BY TypeParts
<1>1. server[s] \in LayerSurface
  BY <1>0 DEF Wires
<1>2. server[s].wanted \in Size
  BY <1>1 DEF Send, LayerSurface
<1>3. [surface |-> s, size |-> server[s].wanted] \in Configured
  BY <1>2 DEF Configured
<1>4. wire' \in Seq(Configured)
  BY <1>0, <1>3, AppendProperties DEF Send, Wires
<1>5. server' \in [Surface -> LayerSurface]
  BY <1>0, <1>1 DEF Send, Wires, LayerSurface
<1>6. Wires'
  BY <1>0, <1>4, <1>5 DEF Wires, Send, presenter
<1>7. Numbered' /\ Panels'
  BY <1>0 DEF Numbered, Panels, Send, presenter, pipeline
<1> QED BY <1>6, <1>7

(* A surface that is closed keeps its type.                                *)
LEMMA CloseTyped ==
  ASSUME TypeOK, NEW s \in Surface, Close(s)
  PROVE  TypeOK'
<1> SUFFICES Numbered' /\ Panels' /\ Wires'
  BY DEF TypeOK, Numbered, Panels, Wires, Command
<1>0. Numbered /\ Panels /\ Wires
  BY TypeParts
<1>1. server[s] \in LayerSurface
  BY <1>0 DEF Wires
<1>2. server' \in [Surface -> LayerSurface]
  BY <1>0, <1>1 DEF Close, Wires, LayerSurface
<1>3. Wires'
  BY <1>0, <1>2 DEF Wires, Close, Event, presenter
<1>4. Numbered' /\ Panels'
  BY <1>0 DEF Numbered, Panels, Close, presenter, pipeline
<1> QED BY <1>3, <1>4

(* A thread that panics takes its command along.                           *)
LEMMA PanicTyped == TypeOK /\ PaintPanics => TypeOK'
<1> SUFFICES ASSUME TypeOK, PaintPanics PROVE TypeOK'
  OBVIOUS
<1>0. Numbered /\ Panels /\ Wires
  BY TypeParts
<1>1. /\ commands' \in Seq(Command) /\ Len(commands') = Len(commands) - 1 /\ Len(commands) \in Nat
  BY <1>0, HeadTailProperties DEF PaintPanics, Numbered
<1>2. Numbered'
  BY <1>0, <1>1 DEF Numbered, PaintPanics
<1>3. Panels' /\ Wires'
  BY <1>0 DEF Panels, Wires, PaintPanics, Event
<1> QED BY <1>2, <1>3 DEF TypeOK, Numbered, Panels, Wires, Command

(* No step breaks a type.                                                  *)
LEMMA StepTyped == TypeOK /\ [Next]_vars => TypeOK'
<1> SUFFICES ASSUME TypeOK, [Next]_vars PROVE TypeOK'
  OBVIOUS
<1>1. ASSUME NEW p \in Panel, NEW size \in Size, Create(p, size) \/ Resize(p, size) PROVE TypeOK'
  <2>1. spec' \in [Panel -> Size \cup {None}]
    BY <1>1 DEF Create, Resize, TypeOK
  <2> QED BY <1>1, <2>1, AskTyped DEF Create, Resize
<1>2. ASSUME NEW p \in Panel, UpdatePicture(p) \/ Delete(p) PROVE TypeOK'
  <2>1. spec' \in [Panel -> Size \cup {None}] /\ spec[p] \in Size
    BY <1>2 DEF UpdatePicture, Delete, TypeOK
  <2> QED BY <1>2, <2>1, AskTyped DEF UpdatePicture, Delete
<1>3. CASE Presenter \/ CreateFails
  BY <1>3, CreateTyped, ResizeTyped, PictureTyped, DeleteTyped, DrainedTyped,
     TakeTyped, DispatchTyped DEF Presenter
<1>4. CASE Serve
  BY <1>4, ServeTyped
<1>5. ASSUME NEW s \in Surface, Configure(s) \/ ConfigureUnasked(s) PROVE TypeOK'
  <2>1. events' \in 0..MaxEvents
    BY <1>5 DEF Configure, ConfigureUnasked, Event, TypeOK
  <2> QED BY <1>5, <2>1, SendTyped DEF Configure, ConfigureUnasked
<1>6. ASSUME NEW s \in Surface, Close(s) PROVE TypeOK'
  BY <1>6, CloseTyped
<1>8. CASE PaintPanics
  BY <1>8, PanicTyped
<1>7. CASE UNCHANGED vars
  BY <1>7 DEF TypeOK, vars, pipeline, presenter
<1> QED BY <1>1, <1>2, <1>3, <1>4, <1>5, <1>6, <1>7, <1>8 DEF Next, Compositor

(* Every variable keeps its type, and each panel's surface is one that was *)
(* created: a surface is never numbered past what the compositor has.      *)
THEOREM TypesHold == Spec => []TypeOK
<1>1. Init => TypeOK
  BY InitTyped
<1>2. TypeOK /\ [Next]_vars => TypeOK'
  BY StepTyped
<1> QED BY <1>1, <1>2, PTL DEF Spec

-----------------------------------------------------------------------------
(* The protocol.                                                           *)

(* A configure of a surface is acknowledged, or the acknowledgement is on  *)
(* its way, before the place i.                                            *)
AckedBefore(srv, q, s, i) ==
  srv[s].acked \/ \E j \in 1..i - 1 : q[j].req = "ack" /\ q[j].surface = s
Acked(srv, q, s) == AckedBefore(srv, q, s, Len(q) + 1)

BuffersAcked == \A i \in 1..Len(requests) : requests[i].req = "buffer" =>
    AckedBefore(server, requests, requests[i].surface, i)
ReadAcked == \A i \in 1..Len(configures) : Acked(server, requests, configures[i].surface)
PanelsAcked == \A p \in Panel : panels[p] # None /\ panels[p].configured =>
    Acked(server, requests, panels[p].surface)

(* Every buffer on its way has the acknowledgement ahead of it, and so will*)
(* the next one of each panel that is configured or about to be.           *)
IInv == BuffersAcked /\ ReadAcked /\ PanelsAcked

(* What is sent does not disturb what was sent before.                     *)
LEMMA SentKept ==
  ASSUME TypeOK, NEW t \in Seq(Request), requests' = requests \o t, server' = server
  PROVE  /\ \A s, i : i \in 1..Len(requests) + 1 /\ AckedBefore(server, requests, s, i) =>
                       AckedBefore(server', requests', s, i)
         /\ \A s : Acked(server, requests, s) =>
              \A i \in Len(requests) + 1..Len(requests') + 1 : AckedBefore(server', requests', s, i)
<1>1. /\ Len(requests) \in Nat /\ Len(t) \in Nat /\ Len(requests') = Len(requests) + Len(t)
      /\ \A i \in 1..Len(requests) : requests'[i] = requests[i]
  BY SentTyped DEF TypeOK
<1>2. ASSUME NEW s, NEW i \in 1..Len(requests) + 1, AckedBefore(server, requests, s, i),
             NEW n \in i..Len(requests') + 1
      PROVE  AckedBefore(server', requests', s, n)
  <2>1. CASE server[s].acked
    BY <2>1 DEF AckedBefore
  <2>2. CASE \E j \in 1..i - 1 : requests[j].req = "ack" /\ requests[j].surface = s
    <3>1. PICK j \in 1..i - 1 : requests[j].req = "ack" /\ requests[j].surface = s
      BY <2>2
    <3>2. j \in 1..Len(requests) /\ j \in 1..n - 1
      BY <1>1
    <3> QED BY <1>1, <3>1, <3>2 DEF AckedBefore
  <2> QED BY <1>2, <2>1, <2>2 DEF AckedBefore
<1>3. ASSUME NEW s, NEW i \in 1..Len(requests) + 1, AckedBefore(server, requests, s, i)
      PROVE  AckedBefore(server', requests', s, i)
  <2>1. i \in i..Len(requests') + 1
    BY <1>1
  <2> QED BY <1>2, <1>3, <2>1
<1>4. ASSUME NEW s, Acked(server, requests, s), NEW i \in Len(requests) + 1..Len(requests') + 1
      PROVE  AckedBefore(server', requests', s, i)
  <2>1. Len(requests) + 1 \in 1..Len(requests) + 1
    BY <1>1
  <2> QED BY <1>2, <1>4, <2>1 DEF Acked
<1> QED BY <1>3, <1>4

(* Where what is sent is found.                                            *)
LEMMA RequestsGrow ==
  ASSUME TypeOK, NEW t \in Seq(Request), requests' = requests \o t
  PROVE  /\ Len(requests) \in Nat /\ Len(t) \in Nat /\ Len(requests') = Len(requests) + Len(t)
         /\ \A i \in 1..Len(requests) : requests'[i] = requests[i]
         /\ \A i \in 1..Len(t) : requests'[Len(requests) + i] = t[i]
BY SentTyped DEF TypeOK

(* Sending buffers of configured panels keeps every buffer behind its      *)
(* acknowledgement.                                                        *)
LEMMA SendsAcked ==
  ASSUME TypeOK, IInv, Sends, server' = server
  PROVE  /\ BuffersAcked'
         /\ \A s : Acked(server, requests, s) => Acked(server', requests', s)
<1>1. PICK t \in Seq(Request) : requests' = requests \o t /\ OfConfigured(t)
  BY DEF Sends
<1>2. /\ Len(requests) \in Nat /\ Len(t) \in Nat /\ Len(requests') = Len(requests) + Len(t)
      /\ \A i \in 1..Len(requests) : requests'[i] = requests[i]
      /\ \A i \in 1..Len(t) : requests'[Len(requests) + i] = t[i]
  BY <1>1, RequestsGrow
<1>3. ASSUME NEW i \in 1..Len(requests'), requests'[i].req = "buffer"
      PROVE  AckedBefore(server', requests', requests'[i].surface, i)
  <2>1. CASE i \in 1..Len(requests)
    <3>1. AckedBefore(server, requests, requests[i].surface, i) /\ requests'[i] = requests[i] /\ i \in 1..Len(requests) + 1
      BY <1>2, <1>3, <2>1 DEF IInv, BuffersAcked
    <3> QED BY <1>1, <3>1, SentKept
  <2>2. CASE i \notin 1..Len(requests)
    <3>1. i - Len(requests) \in 1..Len(t) /\ Len(requests) + (i - Len(requests)) = i
      BY <1>2, <2>2
    <3>2. requests'[i] = t[i - Len(requests)]
      BY <1>2, <3>1
    <3>3. Acked(server, requests, requests'[i].surface)
      BY <1>1, <1>3, <3>1, <3>2 DEF OfConfigured, IInv, PanelsAcked
    <3>4. i \in Len(requests) + 1..Len(requests') + 1
      BY <1>2, <2>2
    <3> QED BY <1>1, <3>3, <3>4, SentKept
  <2> QED BY <2>1, <2>2
<1>4. ASSUME NEW s, Acked(server, requests, s) PROVE Acked(server', requests', s)
  <2>1. Len(requests') + 1 \in Len(requests) + 1..Len(requests') + 1
    BY <1>2
  <2>2. AckedBefore(server', requests', s, Len(requests') + 1)
    BY <1>1, <1>4, <2>1, SentKept
  <2> QED BY <2>2 DEF Acked
<1> QED BY <1>3, <1>4 DEF BuffersAcked

(* A step that reads no configure and configures no panel.                 *)
LEMMA SendsStand ==
  ASSUME TypeOK, IInv, Sends, server' = server, configures' = configures,
         \A p \in Panel : panels'[p] # None /\ panels'[p].configured =>
           panels[p] # None /\ panels[p].configured /\ panels'[p].surface = panels[p].surface
  PROVE  IInv'
<1>1. BuffersAcked' /\ \A s : Acked(server, requests, s) => Acked(server', requests', s)
  BY SendsAcked
<1>2. ReadAcked'
  BY <1>1 DEF IInv, ReadAcked
<1>3. PanelsAcked'
  BY <1>1 DEF IInv, PanelsAcked
<1> QED BY <1>1, <1>2, <1>3 DEF IInv

(* The commands: a new panel, and one that is asked for another size, is   *)
(* not configured.                                                         *)
LEMMA CommandStands ==
  ASSUME TypeOK, IInv, ApplyCreate \/ CreateFails \/ ApplyResize \/ ApplyUpdatePicture \/ ApplyDelete
  PROVE  IInv'
<1> DEFINE c == Head(commands)
<1>1. Sends
  <2>1. CASE ApplyCreate \/ CreateFails
    BY <2>1, CreateSends
  <2>2. CASE ApplyResize
    BY <2>2, ResizeSends
  <2>3. CASE ApplyUpdatePicture
    BY <2>3, PictureSends
  <2>4. CASE ApplyDelete
    BY <2>4, DeleteSends
  <2> QED BY <2>1, <2>2, <2>3, <2>4
<1>2. server' = server /\ configures' = configures /\ commands # <<>>
  BY DEF ApplyCreate, CreateFails, ApplyResize, ApplyUpdatePicture, ApplyDelete, Received
<1>3. c.id \in Panel /\ c.frame.size \in Size /\ panels \in [Panel -> WaylandPanel \cup {None}]
  BY <1>2, CommandTyped DEF TypeOK
<1>4. \/ panels' = panels
      \/ panels' = [panels EXCEPT ![c.id] = None]
      \/ panels' = [panels EXCEPT ![c.id] = [surface |-> created + 1, configured |-> FALSE, size |-> c.frame.size]]
      \/ panels[c.id] # None /\ panels' = [panels EXCEPT ![c.id] = UpdateSpec(panels[c.id], c.frame.size)]
  BY DEF ApplyCreate, CreateFails, ApplyResize, ApplyUpdatePicture, ApplyDelete
<1>5. ASSUME panels[c.id] # None
      PROVE  LET panel == UpdateSpec(panels[c.id], c.frame.size)
             IN  panel.configured => panels[c.id].configured /\ panel.surface = panels[c.id].surface
  <2>1. panels[c.id] \in WaylandPanel
    BY <1>3, <1>5
  <2> QED BY <2>1 DEF UpdateSpec, WaylandPanel
<1> HIDE DEF c
<1>6. \A p \in Panel : panels'[p] # None /\ panels'[p].configured =>
        panels[p] # None /\ panels[p].configured /\ panels'[p].surface = panels[p].surface
  BY <1>3, <1>4, <1>5
<1> QED BY <1>1, <1>2, <1>6, SendsStand

(* A panel is configured by a configure that was read before, and that was *)
(* acknowledged when it was read: for this the configure has to be the     *)
(* panel's own.                                                            *)
LEMMA TakeStands == TypeOK /\ IInv /\ TakeConfigures => IInv'
<1> SUFFICES ASSUME TypeOK, IInv, TakeConfigures PROVE IInv'
  OBVIOUS
<1>1. requests' = requests /\ server' = server /\ configures' = <<>>
  BY DEF TakeConfigures
<1>2. BuffersAcked' /\ ReadAcked'
  BY <1>1 DEF IInv, BuffersAcked, ReadAcked
<1>3. ASSUME NEW p \in Panel, panels'[p] # None, panels'[p].configured
      PROVE  Acked(server', requests', panels'[p].surface)
  <2>0. panels' = [q \in Panel |->
          IF panels[q] = None \/ Mine(q) = {} THEN panels[q]
          ELSE [panels[q] EXCEPT !.configured = TRUE, !.size = configures[Max(Mine(q))].size]]
    BY DEF TakeConfigures
  <2>1. CASE panels[p] = None \/ Mine(p) = {}
    <3>1. panels'[p] = panels[p]
      BY <2>0, <2>1
    <3> QED BY <1>1, <1>3, <3>1 DEF IInv, PanelsAcked
  <2>2. CASE ~(panels[p] = None \/ Mine(p) = {})
    <3>1. panels'[p] = [panels[p] EXCEPT !.configured = TRUE, !.size = configures[Max(Mine(p))].size]
      BY <2>0, <2>2
    <3>2. panels[p] \in WaylandPanel
      BY <2>2, PanelTyped
    <3>3. panels'[p].surface = panels[p].surface
      BY <3>1, <3>2 DEF WaylandPanel
    <3>4. DOMAIN configures = 1..Len(configures)
      BY LenProperties DEF TypeOK
    <3>5. PICK i \in 1..Len(configures) : configures[i].surface = panels[p].surface
      BY <2>2, <3>4 DEF Mine
    <3>6. Acked(server, requests, configures[i].surface)
      BY DEF IInv, ReadAcked
    <3> QED BY <1>1, <3>3, <3>5, <3>6
  <2> QED BY <2>1, <2>2
<1> QED BY <1>2, <1>3 DEF IInv, PanelsAcked

(* What is read is acknowledged in the same step.                          *)
LEMMA DispatchStands == TypeOK /\ IInv /\ Dispatch => IInv'
<1> SUFFICES ASSUME TypeOK, IInv, Dispatch PROVE IInv'
  OBVIOUS
<1> DEFINE t == [i \in 1..Len(wire) |-> [req |-> "ack", surface |-> wire[i].surface]]
<1>1. BuffersAcked' /\ \A s : Acked(server, requests, s) => Acked(server', requests', s)
  BY DispatchSends, SendsAcked DEF Dispatch
<1>2. PanelsAcked'
  BY <1>1 DEF IInv, PanelsAcked, Dispatch
<1>3. wire \in Seq(Configured) /\ DOMAIN wire = 1..Len(wire) /\ Len(wire) \in Nat /\ requests \in Seq(Request)
  BY LenProperties DEF TypeOK
<1>4. \A i \in 1..Len(wire) : wire[i].surface \in Surface
  <2>1. \A i \in 1..Len(wire) : wire[i] \in Configured
    BY <1>3, ElementOfSeq
  <2> QED BY <2>1 DEF Configured
<1>5. t \in Seq(Request) /\ Len(t) = Len(wire)
  <2>1. \A i \in 1..Len(wire) : [req |-> "ack", surface |-> wire[i].surface] \in Request
    BY <1>4 DEF Request
  <2>2. t \in Seq(Request)
    BY <1>3, <2>1
  <2> QED BY <1>3, <2>2, LenProperties
<1>6. requests' = requests \o t /\ configures' = wire
  BY <1>3 DEF Dispatch
<1>7. ASSUME NEW i \in 1..Len(wire) PROVE Acked(server', requests', wire[i].surface)
  <2>1. t[i] = [req |-> "ack", surface |-> wire[i].surface]
    OBVIOUS
  <2> HIDE DEF t
  <2>2. /\ requests'[Len(requests) + i] = t[i] /\ Len(requests') = Len(requests) + Len(wire)
        /\ Len(requests) \in Nat
    BY <1>5, <1>6, RequestsGrow
  <2>3. Len(requests) + i \in 1..(Len(requests') + 1) - 1
    BY <1>3, <2>2
  <2>4. requests'[Len(requests) + i].req = "ack" /\ requests'[Len(requests) + i].surface = wire[i].surface
    BY <2>1, <2>2
  <2> QED BY <2>3, <2>4 DEF Acked, AckedBefore
<1> QED BY <1>1, <1>2, <1>6, <1>7 DEF IInv, ReadAcked

(* The compositor takes the requests in turn; an acknowledgement it takes  *)
(* is known from then on.                                                  *)
LEMMA ServeStands == TypeOK /\ IInv /\ Serve => IInv'
<1> SUFFICES ASSUME TypeOK, IInv, Serve PROVE IInv'
  OBVIOUS
<1> DEFINE r == Head(requests)
<1>1. requests \in Seq(Request) /\ requests # <<>> /\ requests' = Tail(requests)
  BY DEF TypeOK, Serve
<1>2. /\ r \in Request /\ Len(requests) \in Nat \ {0} /\ Len(requests') = Len(requests) - 1
      /\ r = requests[1] /\ \A i \in 1..Len(requests') : requests'[i] = requests[i + 1]
  BY <1>1, QueueTyped
<1>3. r.surface \in Surface /\ r.req \in {"commit", "ack", "buffer", "destroy"}
      /\ server \in [Surface -> LayerSurface]
  BY <1>2 DEF Request, TypeOK
<1>4. ASSUME NEW s \in Surface
      PROVE  /\ server[s].acked => server'[s].acked
             /\ r.req = "ack" /\ r.surface = s => server'[s].acked
  <2> server[s] \in LayerSurface
    BY <1>3
  <2>1. CASE r.req = "commit"
    <3>1. server' = [server EXCEPT ![r.surface].of = r.of, ![r.surface].wanted = r.size,
                                   ![r.surface].owes = @ \/ server[r.surface].wanted # r.size]
      BY <2>1 DEF Serve
    <3> HIDE DEF r
    <3>2. server[r.surface] \in LayerSurface
      BY <1>3
    <3>3. server'[r.surface].acked = server[r.surface].acked
      BY <1>3, <3>1, <3>2 DEF LayerSurface
    <3>4. s # r.surface => server'[s] = server[s]
      BY <1>3, <3>1
    <3> QED BY <2>1, <3>3, <3>4
  <2>2. CASE r.req = "ack"
    <3>1. server' = [server EXCEPT ![r.surface].acked = TRUE]
      BY <2>2 DEF Serve
    <3> HIDE DEF r
    <3>2. server[r.surface] \in LayerSurface
      BY <1>3
    <3>3. server'[r.surface].acked
      BY <1>3, <3>1, <3>2 DEF LayerSurface
    <3>4. s # r.surface => server'[s] = server[s]
      BY <1>3, <3>1
    <3> QED BY <3>3, <3>4
  <2>3. CASE r.req = "buffer"
    <3>1. server' = [server EXCEPT ![r.surface].shows = r.frame]
      BY <2>3 DEF Serve
    <3> HIDE DEF r
    <3> QED BY <1>3, <2>3, <3>1 DEF LayerSurface
  <2>4. CASE r.req = "destroy"
    <3>1. server' = [server EXCEPT ![r.surface].open = FALSE, ![r.surface].shows = None]
      BY <2>4 DEF Serve
    <3> HIDE DEF r
    <3> QED BY <1>3, <2>4, <3>1 DEF LayerSurface
  <2> QED BY <1>3, <2>1, <2>2, <2>3, <2>4
<1> HIDE DEF r
<1>5. ASSUME NEW s \in Surface, NEW i \in 1..Len(requests'), AckedBefore(server, requests, s, i + 1)
      PROVE  AckedBefore(server', requests', s, i)
  <2>1. CASE server[s].acked
    BY <1>4, <2>1 DEF AckedBefore
  <2>2. CASE \E j \in 1..i : requests[j].req = "ack" /\ requests[j].surface = s
    <3>1. PICK j \in 1..i : requests[j].req = "ack" /\ requests[j].surface = s
      BY <2>2
    <3>2. CASE j = 1
      BY <1>2, <1>4, <3>1, <3>2 DEF AckedBefore
    <3>3. CASE j # 1
      <4>1. j - 1 \in 1..i - 1 /\ j - 1 \in 1..Len(requests') /\ (j - 1) + 1 = j
        BY <1>2, <3>3
      <4>2. requests'[j - 1] = requests[j]
        BY <1>2, <4>1
      <4> QED BY <3>1, <4>1, <4>2 DEF AckedBefore
    <3> QED BY <3>2, <3>3
  <2>3. (i + 1) - 1 = i
    BY <1>2
  <2> QED BY <1>5, <2>1, <2>2, <2>3 DEF AckedBefore
<1>6. ASSUME NEW s \in Surface, Acked(server, requests, s)
      PROVE  Acked(server', requests', s)
  <2>1. CASE server[s].acked
    BY <1>4, <2>1 DEF Acked, AckedBefore
  <2>2. CASE \E j \in 1..Len(requests) : requests[j].req = "ack" /\ requests[j].surface = s
    <3>1. PICK j \in 1..Len(requests) : requests[j].req = "ack" /\ requests[j].surface = s
      BY <2>2
    <3>2. CASE j = 1
      BY <1>2, <1>4, <3>1, <3>2 DEF Acked, AckedBefore
    <3>3. CASE j # 1
      <4>1. j - 1 \in 1..(Len(requests') + 1) - 1 /\ j - 1 \in 1..Len(requests') /\ (j - 1) + 1 = j
        BY <1>2, <3>3
      <4>2. requests'[j - 1] = requests[j]
        BY <1>2, <4>1
      <4> QED BY <3>1, <4>1, <4>2 DEF Acked, AckedBefore
    <3> QED BY <3>2, <3>3
  <2>3. (Len(requests) + 1) - 1 = Len(requests)
    BY <1>2
  <2> QED BY <1>6, <2>1, <2>2, <2>3 DEF Acked, AckedBefore
<1>7. ASSUME NEW i \in 1..Len(requests'), requests'[i].req = "buffer"
      PROVE  AckedBefore(server', requests', requests'[i].surface, i)
  <2>1. i + 1 \in 1..Len(requests) /\ requests'[i] = requests[i + 1]
    BY <1>2
  <2>2. requests[i + 1].surface \in Surface
    BY <1>1, <2>1, ElementOfSeq DEF Request
  <2>3. AckedBefore(server, requests, requests[i + 1].surface, i + 1)
    BY <1>7, <2>1 DEF IInv, BuffersAcked
  <2> QED BY <1>5, <2>1, <2>2, <2>3
<1>8. ASSUME NEW i \in 1..Len(configures) PROVE Acked(server', requests', configures[i].surface)
  <2>1. configures[i] \in Configured
    BY ElementOfSeq DEF TypeOK
  <2>2. configures[i].surface \in Surface
    BY <2>1 DEF Configured
  <2> QED BY <1>6, <2>2 DEF IInv, ReadAcked
<1>9. ASSUME NEW p \in Panel, panels[p] # None, panels[p].configured
      PROVE  Acked(server', requests', panels[p].surface)
  BY <1>6, <1>9, PanelTyped DEF IInv, PanelsAcked
<1> QED BY <1>7, <1>8, <1>9 DEF IInv, BuffersAcked, ReadAcked, PanelsAcked, Serve, presenter

(* Whatever else the compositor does, it forgets no acknowledgement.       *)
LEMMA SurfaceStands ==
  ASSUME TypeOK, IInv, NEW s \in Surface, Send(s) \/ Close(s)
  PROVE  IInv'
<1>1. UNCHANGED <<panels, configures, requests>> /\ server \in [Surface -> LayerSurface]
  BY DEF Send, Close, presenter, TypeOK
<1>2. ASSUME NEW u \in Surface PROVE server[u].acked = server'[u].acked
  <2>1. server[u] \in LayerSurface
    BY <1>1
  <2>2. \/ server' = [server EXCEPT ![s].owes = FALSE]
        \/ server' = [server EXCEPT ![s].open = FALSE, ![s].shows = None]
    BY DEF Send, Close
  <2> QED BY <1>1, <2>1, <2>2 DEF LayerSurface
<1>3. ASSUME NEW u \in Surface, NEW i, AckedBefore(server, requests, u, i)
      PROVE  AckedBefore(server', requests', u, i)
  BY <1>1, <1>2, <1>3 DEF AckedBefore
<1>4. ASSUME NEW i \in 1..Len(requests), requests[i].req = "buffer"
      PROVE  AckedBefore(server', requests', requests[i].surface, i)
  <2>1. requests[i] \in Request
    BY ElementOfSeq DEF TypeOK
  <2>2. requests[i].surface \in Surface
    BY <2>1 DEF Request
  <2> QED BY <1>3, <1>4, <2>2 DEF IInv, BuffersAcked
<1>5. ASSUME NEW i \in 1..Len(configures) PROVE Acked(server', requests', configures[i].surface)
  <2>1. configures[i] \in Configured
    BY ElementOfSeq DEF TypeOK
  <2>2. configures[i].surface \in Surface
    BY <2>1 DEF Configured
  <2> QED BY <1>1, <1>3, <2>2 DEF IInv, ReadAcked, Acked
<1>6. ASSUME NEW p \in Panel, panels[p] # None, panels[p].configured
      PROVE  Acked(server', requests', panels[p].surface)
  BY <1>1, <1>3, <1>6, PanelTyped DEF IInv, PanelsAcked, Acked
<1> QED BY <1>1, <1>4, <1>5, <1>6 DEF IInv, BuffersAcked, ReadAcked, PanelsAcked

(* Every step keeps the invariant.                                         *)
LEMMA StepStands == TypeOK /\ IInv /\ [Next]_vars => IInv'
<1> SUFFICES ASSUME TypeOK, IInv, [Next]_vars PROVE IInv'
  OBVIOUS
<1>1. ASSUME UNCHANGED <<server, configures, panels, requests>> PROVE IInv'
  BY <1>1, NothingSent, SendsStand
<1>2. ASSUME NEW p \in Panel,
             UpdatePicture(p) \/ Delete(p) \/ \E size \in Size : Create(p, size) \/ Resize(p, size)
      PROVE  IInv'
  BY <1>1, <1>2 DEF UpdatePicture, Delete, Create, Resize, Ask, presenter
<1>3. CASE Presenter \/ CreateFails
  <2>1. CASE Drained
    BY <1>1, <2>1 DEF Drained
  <2> QED BY <1>3, <2>1, CommandStands, TakeStands, DispatchStands DEF Presenter
<1>4. CASE Serve
  BY <1>4, ServeStands
<1>5. ASSUME NEW s \in Surface, Configure(s) \/ ConfigureUnasked(s) \/ Close(s) PROVE IInv'
  BY <1>5, SurfaceStands DEF Configure, ConfigureUnasked
<1>6. CASE PaintPanics \/ UNCHANGED vars
  BY <1>1, <1>6 DEF PaintPanics, vars, presenter
<1> QED BY <1>2, <1>3, <1>4, <1>5, <1>6 DEF Next, Compositor

(* No buffer reaches a surface before its configure is acknowledged, for   *)
(* any number of panels deleted and created again under one id: the first  *)
(* place in the queue has no acknowledgement before it but those taken.    *)
THEOREM ProtocolStands == Spec => []ProtocolKept
<1>1. Init => IInv
  <2> SUFFICES ASSUME Init PROVE IInv
    OBVIOUS
  <2>1. requests = <<>> /\ configures = <<>> /\ \A p \in Panel : panels[p] = None
    BY DEF Init
  <2> QED BY <2>1 DEF IInv, BuffersAcked, ReadAcked, PanelsAcked
<1>2. TypeOK /\ IInv /\ [Next]_vars => IInv'
  BY StepStands
<1>3. TypeOK /\ IInv => ProtocolKept
  <2> SUFFICES ASSUME TypeOK, IInv, requests # <<>>, Head(requests).req = "buffer"
               PROVE  server[Head(requests).surface].acked
    BY DEF ProtocolKept
  <2>1. Head(requests) = requests[1] /\ 1 \in 1..Len(requests)
    BY QueueTyped DEF TypeOK
  <2>2. AckedBefore(server, requests, requests[1].surface, 1)
    BY <2>1 DEF IInv, BuffersAcked
  <2> QED BY <2>1, <2>2 DEF AckedBefore
<1> QED BY <1>1, <1>2, <1>3, TypesHold, PTL DEF Spec

-----------------------------------------------------------------------------
(* Every new size is answered.                                             *)

(* What is in a queue, wherever it stands there.                           *)
Elems(q) == {q[i] : i \in 1..Len(q)}

LEMMA ElemsJoined ==
  ASSUME NEW T, NEW q \in Seq(T), NEW t \in Seq(T)
  PROVE  Elems(q \o t) = Elems(q) \cup Elems(t)
<1>1. /\ Len(q) \in Nat /\ Len(t) \in Nat /\ Len(q \o t) = Len(q) + Len(t)
      /\ \A i \in 1..Len(q) : (q \o t)[i] = q[i]
      /\ \A i \in 1..Len(t) : (q \o t)[Len(q) + i] = t[i]
  BY SentTyped
<1>2. ASSUME NEW x \in Elems(q \o t) PROVE x \in Elems(q) \cup Elems(t)
  <2>1. PICK i \in 1..Len(q \o t) : x = (q \o t)[i]
    BY DEF Elems
  <2>2. CASE i \in 1..Len(q)
    BY <1>1, <2>1, <2>2 DEF Elems
  <2>3. CASE i \notin 1..Len(q)
    <3>1. i - Len(q) \in 1..Len(t) /\ Len(q) + (i - Len(q)) = i
      BY <1>1, <2>3
    <3>2. x = t[i - Len(q)]
      BY <1>1, <2>1, <3>1
    <3> QED BY <3>1, <3>2 DEF Elems
  <2> QED BY <2>2, <2>3
<1>3. ASSUME NEW x \in Elems(q) PROVE x \in Elems(q \o t)
  <2>1. PICK i \in 1..Len(q) : x = q[i]
    BY DEF Elems
  <2>2. i \in 1..Len(q \o t) /\ x = (q \o t)[i]
    BY <1>1, <2>1
  <2> QED BY <2>2 DEF Elems
<1>4. ASSUME NEW x \in Elems(t) PROVE x \in Elems(q \o t)
  <2>1. PICK i \in 1..Len(t) : x = t[i]
    BY DEF Elems
  <2>2. Len(q) + i \in 1..Len(q \o t) /\ x = (q \o t)[Len(q) + i]
    BY <1>1, <2>1
  <2> QED BY <2>2 DEF Elems
<1> QED BY <1>2, <1>3, <1>4

LEMMA ElemsFew ==
  /\ Elems(<<>>) = {}
  /\ \A a : Elems(<<a>>) = {a}
  /\ \A a, b : Elems(<<a, b>>) = {a, b}
<1>1. Elems(<<>>) = {}
  BY DEF Elems
<1>2. ASSUME NEW a PROVE Elems(<<a>>) = {a}
  <2>1. Len(<<a>>) = 1 /\ <<a>>[1] = a /\ 1..1 = {1}
    OBVIOUS
  <2> QED BY <2>1 DEF Elems
<1>3. ASSUME NEW a, NEW b PROVE Elems(<<a, b>>) = {a, b}
  <2>1. Len(<<a, b>>) = 2 /\ <<a, b>>[1] = a /\ <<a, b>>[2] = b /\ 1..2 = {1, 2}
    OBVIOUS
  <2> QED BY <2>1 DEF Elems
<1> QED BY <1>1, <1>2, <1>3

LEMMA ElemsAppended ==
  ASSUME NEW T, NEW q \in Seq(T), NEW e \in T
  PROVE  Elems(Append(q, e)) = Elems(q) \cup {e} /\ Append(q, e) \in Seq(T)
<1>1. <<e>> \in Seq(T) /\ Append(q, e) = q \o <<e>> /\ Append(q, e) \in Seq(T)
  <2>1. <<e>> \in Seq(T) /\ Append(q, e) \in Seq(T)
    OBVIOUS
  <2> QED BY <2>1, AppendIsConcat
<1>2. Elems(q \o <<e>>) = Elems(q) \cup Elems(<<e>>)
  <2> DEFINE f == <<e>>
  <2>1. f \in Seq(T)
    BY <1>1
  <2> HIDE DEF f
  <2>2. Elems(q \o f) = Elems(q) \cup Elems(f)
    BY <2>1, ElemsJoined
  <2> QED BY <2>2 DEF f
<1>3. Elems(<<e>>) = {e}
  BY ElemsFew
<1>4. Elems(Append(q, e)) = Elems(q \o <<e>>)
  BY <1>1, Zenon
<1> QED BY <1>1, <1>2, <1>3, <1>4, Zenon

LEMMA ElemsTaken ==
  ASSUME NEW T, NEW q \in Seq(T), q # <<>>
  PROVE  Elems(q) = {Head(q)} \cup Elems(Tail(q)) /\ Head(q) \in T /\ Elems(q) \subseteq T
<1>1. /\ Len(q) \in Nat \ {0} /\ Len(Tail(q)) = Len(q) - 1 /\ Head(q) \in T
      /\ Head(q) = q[1] /\ \A i \in 1..Len(Tail(q)) : Tail(q)[i] = q[i + 1]
  BY QueueTyped
<1>2. ASSUME NEW x \in Elems(q) PROVE x \in {Head(q)} \cup Elems(Tail(q))
  <2>1. PICK i \in 1..Len(q) : x = q[i]
    BY DEF Elems
  <2>2. CASE i = 1
    BY <1>1, <2>1, <2>2
  <2>3. CASE i # 1
    <3>1. i - 1 \in 1..Len(Tail(q)) /\ (i - 1) + 1 = i
      BY <1>1, <2>3
    <3>2. x = Tail(q)[i - 1]
      BY <1>1, <2>1, <3>1
    <3> QED BY <3>1, <3>2 DEF Elems
  <2> QED BY <2>2, <2>3
<1>3. ASSUME NEW x \in Elems(Tail(q)) PROVE x \in Elems(q)
  <2>1. PICK i \in 1..Len(Tail(q)) : x = Tail(q)[i]
    BY DEF Elems
  <2>2. i + 1 \in 1..Len(q) /\ x = q[i + 1]
    BY <1>1, <2>1
  <2> QED BY <2>2 DEF Elems
<1>4. Head(q) \in Elems(q)
  <2>1. 1 \in 1..Len(q)
    BY <1>1
  <2> QED BY <1>1, <2>1 DEF Elems
<1>5. Elems(q) \subseteq T
  BY ElementOfSeq DEF Elems
<1> QED BY <1>1, <1>2, <1>3, <1>4, <1>5

(* A surface is asked for a size that it was not asked for before.         *)
Asked(srv, q, s) ==
  \E r \in Elems(q) : r.req = "commit" /\ r.surface = s /\ r.size # srv[s].wanted
On(q, s) == \E i \in 1..Len(q) : q[i].surface = s

(* The last of the configures of surface s in a queue.                     *)
IsLast(q, s, i) == q[i].surface = s /\ \A j \in 1..Len(q) : q[j].surface = s => j <= i
LastSays(q, s, size) == \A i \in 1..Len(q) : IsLast(q, s, i) => q[i].size = size

(* The compositor owes nothing: the configure it sent last, if it is still *)
(* to be taken, says what the surface was asked for last.                  *)
LatestKnown ==
  \A s \in Surface : ~server[s].owes =>
    /\ LastSays(wire, s, server[s].wanted)
    /\ ~On(wire, s) => LastSays(configures, s, server[s].wanted)

(* What is not created yet has never been asked for anything.              *)
Untouched ==
  /\ \A s \in Surface : s > created => server[s].wanted = None
  /\ \A r \in Elems(requests) : r.req = "commit" => r.surface <= created

TakenFirst == at = "dispatch" => configures = <<>>

(* NoneForgotten in these words.                                           *)
Coming(srv, q, w, c, s) == srv[s].owes \/ Asked(srv, q, s) \/ On(w, s) \/ On(c, s)
Painted(panel, srv) == panel.configured /\ panel.size = srv[panel.surface].wanted
Answered == \A p \in Panel : panels[p] # None =>
    \/ Coming(server, requests, wire, configures, panels[p].surface)
    \/ Painted(panels[p], server)

AInv == Answered /\ LatestKnown /\ Untouched /\ TakenFirst

LEMMA ComingMeans == ASSUME TypeOK PROVE \A s : AnswerComing(s) <=> Coming(server, requests, wire, configures, s)
<1>1. DOMAIN requests = 1..Len(requests) /\ DOMAIN wire = 1..Len(wire) /\ DOMAIN configures = 1..Len(configures)
  BY LenProperties DEF TypeOK
<1>2. \A s : Asked(server, requests, s) <=> \E i \in 1..Len(requests) :
        requests[i].req = "commit" /\ requests[i].surface = s /\ requests[i].size # server[s].wanted
  BY DEF Asked, Elems
<1> QED BY <1>1, <1>2 DEF AnswerComing, Coming, On


(* A panel that is painted sends buffers and nothing else.                 *)
LEMMA RenderBuffers ==
  ASSUME NEW panel \in WaylandPanel, NEW frame \in Frame
  PROVE  Render(panel, frame) \in Seq(Request) /\ \A r \in Elems(Render(panel, frame)) : r.req = "buffer"
<1>1. Render(panel, frame) \in Seq(Request)
  BY RenderTyped
<1>2. CASE panel.configured
  BY <1>1, <1>2, ElemsFew DEF Render, Buffer
<1>3. CASE ~panel.configured
  BY <1>1, <1>3, ElemsFew DEF Render
<1> QED BY <1>2, <1>3

(* The command that is applied.                                            *)
Due == Head(commands)

(* What the presenter asks for when it applies a command: a new surface is *)
(* committed, and so is one whose panel is asked for another size.         *)
LEMMA CommandAsks ==
  ASSUME TypeOK, ApplyCreate \/ CreateFails \/ ApplyResize \/ ApplyUpdatePicture \/ ApplyDelete
  PROVE  /\ Elems(requests) \subseteq Elems(requests')
         /\ \A r \in Elems(requests') : r \in Elems(requests) \/ r.req # "commit" \/ r.surface <= created'
         /\ ApplyCreate => Commit(created + 1, Due.id, Due.frame.size) \in Elems(requests')
         /\ ApplyResize /\ panels[Due.id] # None /\ panels[Due.id].size # Due.frame.size =>
              Commit(panels[Due.id].surface, Due.id, Due.frame.size) \in Elems(requests')
<1>0. requests \in Seq(Request) /\ created \in Nat /\ commands # <<>>
  BY DEF TypeOK, ApplyCreate, CreateFails, ApplyResize, ApplyUpdatePicture, ApplyDelete, Received, Due
<1>1. created + 1 \in Surface /\ Due.id \in Panel /\ Due.frame \in Frame /\ Due.frame.size \in Size
      /\ Due \in Command
  BY <1>0, CommandTyped DEF Due
<1>2. Due.cmd \in {"Create", "Resize", "UpdatePicture", "Delete"}
  BY <1>1 DEF Command
<1>3. CASE ApplyCreate
  <2> DEFINE panel == [surface |-> created + 1, configured |-> FALSE, size |-> Due.frame.size]
             commit == Commit(created + 1, Due.id, Due.frame.size)
  <2>1. requests' = Append(requests, commit) \o Render(panel, Due.frame) /\ created' = created + 1
    BY <1>3 DEF ApplyCreate, Due
  <2>2. commit \in Request /\ commit.surface = created + 1
    BY <1>1, CommitTyped DEF Commit
  <2>3. panel \in WaylandPanel
    BY <1>1 DEF WaylandPanel
  <2>4. Render(panel, Due.frame) \in Seq(Request) /\ \A r \in Elems(Render(panel, Due.frame)) : r.req = "buffer"
    BY <1>1, <2>3, RenderBuffers
  <2>5. ~ApplyResize
    BY <1>3 DEF ApplyCreate, ApplyResize, Received, Due
  <2> HIDE DEF panel, commit
  <2>6. /\ Elems(Append(requests, commit)) = Elems(requests) \cup {commit}
        /\ Append(requests, commit) \in Seq(Request)
    BY <1>0, <2>2, ElemsAppended
  <2>7. Elems(requests') = Elems(requests) \cup {commit} \cup Elems(Render(panel, Due.frame))
    <3>1. ASSUME NEW q \in Seq(Request), NEW b \in Seq(Request), Elems(q) = Elems(requests) \cup {commit}
          PROVE  Elems(q \o b) = Elems(requests) \cup {commit} \cup Elems(b)
      BY <3>1, ElemsJoined
    <3>2. requests' = Append(requests, commit) \o Render(panel, Due.frame)
      BY <2>1
    <3>3. Elems(Append(requests, commit) \o Render(panel, Due.frame))
            = Elems(requests) \cup {commit} \cup Elems(Render(panel, Due.frame))
      BY <3>1, <2>6, <2>4, Zenon
    <3> QED BY <3>2, <3>3, Zenon
  <2>8. created + 1 <= created + 1
    BY <1>0
  <2> QED BY <2>1, <2>2, <2>4, <2>5, <2>7, <2>8 DEF commit
<1>4. CASE CreateFails
  <2> DEFINE commit == Commit(created + 1, Due.id, Due.frame.size)
             destroy == [req |-> "destroy", surface |-> created + 1]
  <2>1. requests' = requests \o <<commit, destroy>> /\ created' = created + 1
    BY <1>4 DEF CreateFails, Due
  <2>2. commit \in Request /\ commit.surface = created + 1 /\ destroy \in Request /\ destroy.req # "commit"
    BY <1>1, CommitTyped DEF Commit
  <2>3. ~ApplyResize /\ (ApplyCreate => Commit(created + 1, Due.id, Due.frame.size) = commit)
    BY <1>4 DEF CreateFails, ApplyResize, Received, Due
  <2> HIDE DEF commit, destroy
  <2>4. <<commit, destroy>> \in Seq(Request)
    BY <2>2
  <2>5. Elems(requests') = Elems(requests) \cup {commit, destroy}
    <3>1. Elems(requests \o <<commit, destroy>>) = Elems(requests) \cup Elems(<<commit, destroy>>)
      BY <1>0, <2>4, ElemsJoined
    <3> QED BY <2>1, <3>1, ElemsFew
  <2>6. created + 1 <= created + 1
    BY <1>0
  <2> QED BY <2>1, <2>2, <2>3, <2>5, <2>6 DEF commit
<1>5. CASE ApplyResize
  <2>0. ~ApplyCreate /\ created' = created
    BY <1>5 DEF ApplyCreate, ApplyResize, Received, Due
  <2>1. CASE panels[Due.id] = None
    BY <1>5, <2>0, <2>1 DEF ApplyResize, Due
  <2>2. CASE panels[Due.id] # None
    <3> DEFINE panel == UpdateSpec(panels[Due.id], Due.frame.size)
               commit == Commit(panel.surface, Due.id, Due.frame.size)
    <3>1. /\ panels[Due.id] \in WaylandPanel /\ panels[Due.id].surface \in Surface
          /\ panels[Due.id].surface <= created
      BY <1>1, <2>2, PanelTyped
    <3>2. /\ panel \in WaylandPanel /\ panel.surface = panels[Due.id].surface
          /\ panels[Due.id].size # Due.frame.size => panel # panels[Due.id]
      BY <1>1, <3>1 DEF UpdateSpec, WaylandPanel
    <3>3. Paint(panel, Due.frame, IF panel = panels[Due.id] THEN requests ELSE Append(requests, commit))
      BY <1>5, <2>2 DEF ApplyResize, Due
    <3>4. Render(panel, Due.frame) \in Seq(Request) /\ \A r \in Elems(Render(panel, Due.frame)) : r.req = "buffer"
      BY <1>1, <3>2, RenderBuffers
    <3>5. commit \in Request /\ commit.surface = panel.surface
      BY <1>1, <3>1, <3>2, CommitTyped DEF Commit
    <3> HIDE DEF panel
    <3>6. CASE panel = panels[Due.id]
      <4>1. Elems(requests') \in {Elems(requests), Elems(requests) \cup Elems(Render(panel, Due.frame))}
        <5>1. requests' = requests \/ requests' = requests \o Render(panel, Due.frame)
          <6>1. Paint(panel, Due.frame, requests)
            BY <3>3, <3>6
          <6> HIDE DEF commit
          <6> QED BY <6>1, PaintedOrDropped
        <5> QED BY <1>0, <3>4, <5>1, ElemsJoined
      <4> QED BY <2>0, <3>2, <3>4, <3>6, <4>1
    <3>7. CASE panel # panels[Due.id]
      <4> HIDE DEF commit
      <4>1. /\ Elems(Append(requests, commit)) = Elems(requests) \cup {commit}
            /\ Append(requests, commit) \in Seq(Request)
        BY <1>0, <3>5, ElemsAppended
      <4>2. Elems(requests') \in {Elems(requests) \cup {commit},
                                 Elems(requests) \cup {commit} \cup Elems(Render(panel, Due.frame))}
        <5>1. ASSUME NEW q \in Seq(Request), NEW b \in Seq(Request), Elems(q) = Elems(requests) \cup {commit}
              PROVE  Elems(q \o b) = Elems(requests) \cup {commit} \cup Elems(b)
          BY <5>1, ElemsJoined
        <5>2. \/ requests' = Append(requests, commit)
              \/ requests' = Append(requests, commit) \o Render(panel, Due.frame)
          <6>1. Paint(panel, Due.frame, Append(requests, commit))
            BY <3>3, <3>7
          <6> QED BY <6>1, PaintedOrDropped
        <5>3. Elems(Append(requests, commit) \o Render(panel, Due.frame))
                = Elems(requests) \cup {commit} \cup Elems(Render(panel, Due.frame))
          BY <5>1, <4>1, <3>4, Zenon
        <5> QED BY <4>1, <5>2, <5>3, Zenon
      <4>3. commit = Commit(panels[Due.id].surface, Due.id, Due.frame.size)
        BY <3>2 DEF commit
      <4> QED BY <2>0, <3>1, <3>2, <3>4, <3>5, <4>2, <4>3
    <3> QED BY <3>6, <3>7
  <2> QED BY <2>1, <2>2
<1>6. CASE ApplyUpdatePicture
  <2>0. ~ApplyCreate /\ ~ApplyResize
    BY <1>6 DEF ApplyCreate, ApplyResize, ApplyUpdatePicture, Received, Due
  <2>1. CASE panels[Due.id] = None
    BY <1>6, <2>0, <2>1 DEF ApplyUpdatePicture, Due
  <2>2. CASE panels[Due.id] # None
    <3>1. panels[Due.id] \in WaylandPanel
      BY <1>1, <2>2, PanelTyped
    <3>2. requests' = requests \/ requests' = requests \o Render(panels[Due.id], Due.frame)
      BY <1>6, <2>2, PaintedOrDropped DEF ApplyUpdatePicture, Due
    <3>3. /\ Render(panels[Due.id], Due.frame) \in Seq(Request)
          /\ \A r \in Elems(Render(panels[Due.id], Due.frame)) : r.req = "buffer"
      BY <1>1, <3>1, RenderBuffers
    <3>4. Elems(requests') \in {Elems(requests),
                               Elems(requests) \cup Elems(Render(panels[Due.id], Due.frame))}
      BY <1>0, <3>2, <3>3, ElemsJoined
    <3> QED BY <2>0, <3>3, <3>4
  <2> QED BY <2>1, <2>2
<1>7. CASE ApplyDelete
  <2>0. ~ApplyCreate /\ ~ApplyResize
    BY <1>7 DEF ApplyCreate, ApplyResize, ApplyDelete, Received, Due
  <2>1. CASE panels[Due.id] = None
    BY <1>7, <2>0, <2>1 DEF ApplyDelete, Due
  <2>2. CASE panels[Due.id] # None
    <3> DEFINE destroy == [req |-> "destroy", surface |-> panels[Due.id].surface]
    <3>1. panels[Due.id].surface \in Surface
      BY <1>1, <2>2, PanelTyped
    <3>2. destroy \in Request /\ destroy.req # "commit"
      BY <3>1 DEF Request
    <3>3. requests' = Append(requests, destroy)
      BY <1>7, <2>2 DEF ApplyDelete, Due
    <3> HIDE DEF destroy
    <3>4. Elems(requests') = Elems(requests) \cup {destroy}
      BY <1>0, <3>2, <3>3, ElemsAppended
    <3> QED BY <2>0, <3>2, <3>4
  <2> QED BY <2>1, <2>2
<1> QED BY <1>3, <1>4, <1>5, <1>6, <1>7

(* What is coming keeps coming while nothing is taken.                     *)
LEMMA ComingGrows ==
  ASSUME server' = server, wire' = wire, configures' = configures, Elems(requests) \subseteq Elems(requests')
  PROVE  \A s : Coming(server, requests, wire, configures, s) => Coming(server', requests', wire', configures', s)
BY DEF Coming, Asked

(* A command leaves no panel forgotten: a size that is asked for is not the*)
(* panel's, and if nothing is coming the panel's is what was asked for.    *)
LEMMA CommandAnswered ==
  ASSUME TypeOK, AInv, ApplyCreate \/ CreateFails \/ ApplyResize \/ ApplyUpdatePicture \/ ApplyDelete
  PROVE  AInv'
<1>1. UNCHANGED <<server, wire, configures, at>> /\ commands # <<>>
  BY DEF ApplyCreate, CreateFails, ApplyResize, ApplyUpdatePicture, ApplyDelete, Received, Due
<1>2. created + 1 \in Surface /\ Due.id \in Panel /\ Due.frame.size \in Size
      /\ created \in Nat /\ panels \in [Panel -> WaylandPanel \cup {None}]
  BY <1>1, CommandTyped DEF TypeOK, Due
<1>3. created' \in {created, created + 1}
  BY DEF ApplyCreate, CreateFails, ApplyResize, ApplyUpdatePicture, ApplyDelete, Due
<1>4. LatestKnown' /\ TakenFirst'
  BY <1>1 DEF AInv, LatestKnown, TakenFirst
<1>5. Untouched'
  <2>1. \A s \in Surface : s > created' => server'[s].wanted = None
    <3>1. \A s \in Surface : s > created' => s > created
      BY <1>2, <1>3 DEF Surface
    <3> QED BY <1>1, <3>1 DEF AInv, Untouched
  <2>2. ASSUME NEW r \in Elems(requests'), r.req = "commit" PROVE r.surface <= created'
    <3>1. CASE r \in Elems(requests)
      <4>1. r \in Request /\ r.surface <= created
        <5>1. requests \in Seq(Request)
          BY DEF TypeOK
        <5>2. r \in Request
          BY <3>1, <5>1, ElementOfSeq DEF Elems
        <5> QED BY <2>2, <3>1, <5>2 DEF AInv, Untouched
      <4>2. r.surface \in Nat
        BY <4>1 DEF Request, Surface
      <4> QED BY <1>2, <1>3, <4>1, <4>2
    <3> QED BY <2>2, <3>1, CommandAsks
  <2> QED BY <2>1, <2>2 DEF Untouched
<1>6. \A s : Coming(server, requests, wire, configures, s) => Coming(server', requests', wire', configures', s)
  BY <1>1, CommandAsks, ComingGrows
<1>7. ASSUME NEW p \in Panel, panels'[p] = panels[p], panels'[p] # None
      PROVE  Coming(server', requests', wire', configures', panels'[p].surface) \/ Painted(panels'[p], server')
  <2>1. Coming(server, requests, wire, configures, panels[p].surface) \/ Painted(panels[p], server)
    BY <1>7 DEF AInv, Answered
  <2>2. Painted(panels[p], server) => Painted(panels'[p], server')
    BY <1>1, <1>7 DEF Painted
  <2> QED BY <1>6, <1>7, <2>1, <2>2
<1>8. \A p \in Panel : p # Due.id => panels'[p] = panels[p]
  BY <1>2 DEF ApplyCreate, CreateFails, ApplyResize, ApplyUpdatePicture, ApplyDelete, Due
<1>9. ASSUME panels'[Due.id] # None PROVE Coming(server', requests', wire', configures', panels'[Due.id].surface) \/ Painted(panels'[Due.id], server')
  <2>1. CASE panels'[Due.id] = panels[Due.id]
    BY <1>2, <1>7, <1>9, <2>1
  <2>2. CASE ApplyCreate
    <3> DEFINE r == Commit(created + 1, Due.id, Due.frame.size)
    <3>1. panels'[Due.id].surface = created + 1
      BY <1>2, <2>2 DEF ApplyCreate, Due
    <3>2. r \in Elems(requests') /\ r.req = "commit" /\ r.surface = created + 1 /\ r.size \in Size
      BY <1>2, <2>2, CommandAsks DEF Commit
    <3>3. server'[created + 1].wanted = None
      <4>1. created + 1 > created
        BY <1>2
      <4> QED BY <1>1, <1>2, <4>1 DEF AInv, Untouched
    <3> HIDE DEF r
    <3>4. r.size # None
      BY <3>2
    <3> QED BY <3>1, <3>2, <3>3, <3>4 DEF Coming, Asked
  <2>3. CASE ApplyResize /\ panels'[Due.id] # panels[Due.id]
    <3> DEFINE r == Commit(panels[Due.id].surface, Due.id, Due.frame.size)
    <3>1. panels[Due.id] # None /\ panels'[Due.id] = UpdateSpec(panels[Due.id], Due.frame.size)
      BY <1>2, <2>3 DEF ApplyResize, Due
    <3>2. /\ panels[Due.id].size # Due.frame.size
          /\ panels'[Due.id] = [panels[Due.id] EXCEPT !.size = Due.frame.size, !.configured = FALSE]
      BY <2>3, <3>1 DEF UpdateSpec
    <3>3. panels'[Due.id].surface = panels[Due.id].surface
      BY <1>2, <3>1, <3>2 DEF WaylandPanel
    <3>4. r \in Elems(requests') /\ r.req = "commit" /\ r.surface = panels[Due.id].surface /\ r.size = Due.frame.size
      BY <2>3, <3>1, <3>2, CommandAsks DEF Commit
    <3>5. Coming(server, requests, wire, configures, panels[Due.id].surface) \/ panels[Due.id].size = server[panels[Due.id].surface].wanted
      BY <1>2, <3>1 DEF AInv, Answered, Painted
    <3> HIDE DEF r
    <3>6. CASE Coming(server, requests, wire, configures, panels[Due.id].surface)
      BY <1>6, <3>3, <3>6
    <3>7. CASE panels[Due.id].size = server[panels[Due.id].surface].wanted
      <4>1. r.size # server'[panels[Due.id].surface].wanted
        BY <1>1, <3>2, <3>4, <3>7
      <4>2. Asked(server', requests', panels[Due.id].surface)
        BY <3>4, <4>1 DEF Asked
      <4> QED BY <3>3, <4>2 DEF Coming
    <3> QED BY <3>5, <3>6, <3>7
  <2>4. CASE ApplyDelete /\ panels'[Due.id] # panels[Due.id]
    BY <1>2, <1>9, <2>4 DEF ApplyDelete, Due
  <2>5. CreateFails \/ ApplyUpdatePicture => panels'[Due.id] = panels[Due.id]
    BY DEF CreateFails, ApplyUpdatePicture, Due
  <2> QED BY <2>1, <2>2, <2>3, <2>4, <2>5
<1>10. Answered'
    <2> QED BY <1>7, <1>8, <1>9 DEF Answered
<1> QED BY <1>4, <1>5, <1>10 DEF AInv

(* A configure that is taken is the last one there was, if nothing is      *)
(* coming any more.                                                        *)
LEMMA TakeAnswered == ASSUME TypeOK, AInv, TakeConfigures PROVE AInv'
<1>1. UNCHANGED <<server, wire, requests, created>> /\ at' = "dispatch" /\ configures' = <<>>
  BY DEF TakeConfigures
<1>2. Len(configures') = 0 /\ DOMAIN configures = 1..Len(configures) /\ Len(configures) \in Nat
  BY <1>1, LenProperties DEF TypeOK
<1>3. Untouched' /\ TakenFirst'
  BY <1>1 DEF AInv, Untouched, TakenFirst
<1>4. LatestKnown'
  <2>1. \A s, size : LastSays(configures', s, size)
    BY <1>2 DEF LastSays
  <2> QED BY <1>1, <2>1 DEF AInv, LatestKnown
<1>5. panels' = [q \in Panel |->
        IF panels[q] = None \/ Mine(q) = {} THEN panels[q]
        ELSE [panels[q] EXCEPT !.configured = TRUE, !.size = configures[Max(Mine(q))].size]]
  BY DEF TakeConfigures
<1>6. ASSUME NEW p \in Panel, panels[p] # None
      PROVE  \/ Coming(server', requests', wire', configures', panels'[p].surface)
             \/ Painted(panels'[p], server')
  <2> DEFINE s == panels[p].surface
  <2>1. panels[p] \in WaylandPanel /\ s \in Surface
    BY <1>6, PanelTyped
  <2>2. Coming(server, requests, wire, configures, s) \/ Painted(panels[p], server)
    BY <1>6 DEF AInv, Answered
  <2>3. Coming(server', requests', wire', configures', s) <=> server[s].owes \/ Asked(server, requests, s) \/ On(wire, s)
    BY <1>1, <1>2 DEF Coming, On
  <2>4. CASE Mine(p) = {}
    <3>1. panels'[p] = panels[p] /\ ~On(configures, s)
      BY <1>2, <1>5, <2>4 DEF Mine, On
    <3> QED BY <1>1, <2>2, <2>3, <3>1 DEF Coming
  <2>5. CASE Mine(p) # {}
    <3> DEFINE i == Max(Mine(p))
    <3>1. Mine(p) \in SUBSET (1..Len(configures))
      BY <1>2 DEF Mine
    <3>2. i \in Mine(p) /\ \A j \in Mine(p) : i >= j
      BY <1>2, <2>5, <3>1, MaxIsOne
    <3>3. i \in 1..Len(configures) /\ IsLast(configures, s, i)
      <4>1. i \in 1..Len(configures) /\ configures[i].surface = s
        BY <1>2, <3>2 DEF Mine
      <4>2. \A j \in 1..Len(configures) : configures[j].surface = s => j \in Mine(p)
        BY <1>2 DEF Mine
      <4>3. \A j \in Mine(p) : j <= i
        BY <3>1, <3>2, <4>1
      <4> HIDE DEF i
      <4> QED BY <4>1, <4>2, <4>3 DEF IsLast
    <3>4. panels'[p] = [panels[p] EXCEPT !.configured = TRUE, !.size = configures[i].size]
      BY <1>5, <1>6, <2>5
    <3> HIDE DEF i
    <3>5. panels'[p].surface = s /\ panels'[p].configured /\ panels'[p].size = configures[i].size
      BY <2>1, <3>4 DEF WaylandPanel
    <3>6. ~server[s].owes /\ ~On(wire, s) => configures[i].size = server[s].wanted
      BY <2>1, <3>3 DEF AInv, LatestKnown, LastSays
    <3> QED BY <1>1, <2>3, <3>5, <3>6 DEF Painted
  <2> QED BY <2>4, <2>5
<1>7. \A p \in Panel : panels'[p] # None => panels[p] # None
  BY <1>5
<1> QED BY <1>3, <1>4, <1>6, <1>7 DEF AInv, Answered

(* What is read is still to be taken, and what was read before is taken.   *)
LEMMA DispatchAnswered == ASSUME TypeOK, AInv, Dispatch PROVE AInv'
<1> DEFINE t == [i \in 1..Len(wire) |-> [req |-> "ack", surface |-> wire[i].surface]]
<1>1. UNCHANGED <<server, panels, created>> /\ at = "dispatch" /\ at' = "commands"
      /\ wire' = <<>> /\ configures' = wire /\ configures = <<>>
  BY DEF Dispatch, AInv, TakenFirst
<1>2. wire \in Seq(Configured) /\ DOMAIN wire = 1..Len(wire) /\ Len(wire) \in Nat /\ requests \in Seq(Request)
      /\ Len(wire') = 0 /\ Len(configures) = 0
  BY <1>1, LenProperties DEF TypeOK
<1>3. requests' = requests \o t
  BY <1>2 DEF Dispatch
<1>4. t \in Seq(Request) /\ \A r \in Elems(t) : r.req # "commit"
  <2>1. ASSUME NEW i \in 1..Len(wire) PROVE [req |-> "ack", surface |-> wire[i].surface] \in Request
    <3>1. wire[i] \in Configured
      BY <1>2, ElementOfSeq
    <3> QED BY <3>1 DEF Configured, Request
  <2>2. t \in Seq(Request)
    BY <1>2, <2>1
  <2>3. Len(t) = Len(wire)
    BY <1>2, <2>2, LenProperties
  <2>4. \A i \in 1..Len(wire) : t[i].req = "ack"
    OBVIOUS
  <2> HIDE DEF t
  <2> QED BY <2>2, <2>3, <2>4 DEF Elems
<1> HIDE DEF t
<1>5. Elems(requests') = Elems(requests) \cup Elems(t)
  BY <1>2, <1>3, <1>4, ElemsJoined
<1>6. Untouched' /\ TakenFirst'
  BY <1>1, <1>4, <1>5 DEF AInv, Untouched, TakenFirst
<1>7. LatestKnown'
  <2>1. \A s, size : LastSays(wire', s, size)
    BY <1>2 DEF LastSays
  <2> QED BY <1>1, <2>1 DEF AInv, LatestKnown
<1>8. ASSUME NEW s, Coming(server, requests, wire, configures, s)
      PROVE  Coming(server', requests', wire', configures', s)
  <2>1. ~On(configures, s)
    BY <1>2 DEF On
  <2>2. On(wire, s) => On(configures', s)
    BY <1>1
  <2>3. Asked(server, requests, s) => Asked(server', requests', s)
    BY <1>1, <1>5 DEF Asked
  <2> QED BY <1>1, <1>8, <2>1, <2>2, <2>3 DEF Coming
<1>9. Answered'
  BY <1>1, <1>8 DEF AInv, Answered, Painted
<1> QED BY <1>6, <1>7, <1>9 DEF AInv

(* The compositor owes an answer to each commit that asks for another size.*)
LEMMA Served ==
  ASSUME TypeOK, Serve, NEW u \in Surface
  PROVE  LET r == Head(requests) IN
         \/ /\ server'[u].wanted = server[u].wanted /\ server'[u].owes = server[u].owes
            /\ r.req = "commit" /\ r.surface = u => r.size = server[u].wanted
         \/ r.req = "commit" /\ r.surface = u /\ server'[u].owes
<1> DEFINE r == Head(requests)
<1>1. requests \in Seq(Request) /\ requests # <<>> /\ server \in [Surface -> LayerSurface]
  BY DEF TypeOK, Serve
<1>2. r \in Request
  BY <1>1, QueueTyped
<1>3. r.surface \in Surface /\ r.req \in {"commit", "ack", "buffer", "destroy"}
  BY <1>2 DEF Request
<1>4. server[u] \in LayerSurface /\ server[r.surface] \in LayerSurface
  BY <1>1, <1>3
<1>5. CASE r.req = "commit"
  <2>1. server' = [server EXCEPT ![r.surface].of = r.of, ![r.surface].wanted = r.size,
                                 ![r.surface].owes = @ \/ server[r.surface].wanted # r.size]
    BY <1>5 DEF Serve
  <2> HIDE DEF r
  <2>2. CASE r.surface = u
    <3>1. server'[u].wanted = r.size /\ server'[u].owes = (server[u].owes \/ server[u].wanted # r.size)
      BY <1>1, <1>4, <2>1, <2>2 DEF LayerSurface
    <3>2. server[u].owes \in BOOLEAN
      BY <1>4 DEF LayerSurface
    <3> QED BY <1>5, <2>2, <3>1, <3>2 DEF r
  <2>3. CASE r.surface # u
    <3>1. server'[u] = server[u]
      BY <1>1, <1>3, <2>1, <2>3
    <3> QED BY <2>3, <3>1 DEF r
  <2> QED BY <2>2, <2>3
<1>6. CASE r.req # "commit"
  <2>1. \/ server' = [server EXCEPT ![r.surface].acked = TRUE]
        \/ server' = [server EXCEPT ![r.surface].shows = r.frame]
        \/ server' = [server EXCEPT ![r.surface].open = FALSE, ![r.surface].shows = None]
    BY <1>3, <1>6 DEF Serve
  <2> HIDE DEF r
  <2>2. server'[u].wanted = server[u].wanted /\ server'[u].owes = server[u].owes
    BY <1>1, <1>3, <1>4, <2>1 DEF LayerSurface
  <2> QED BY <1>6, <2>2 DEF r
<1> QED BY <1>5, <1>6

LEMMA ServeAnswered == ASSUME TypeOK, AInv, Serve PROVE AInv'
<1> DEFINE r == Head(requests)
<1>1. requests \in Seq(Request) /\ requests # <<>> /\ requests' = Tail(requests)
      /\ UNCHANGED <<wire, configures, panels, created, at>>
  BY DEF TypeOK, Serve, presenter
<1>2. Elems(requests) = {r} \cup Elems(requests') /\ r \in Request /\ Elems(requests) \subseteq Request
  BY <1>1, ElemsTaken
<1>3. r.surface \in Surface
  BY <1>2 DEF Request
<1>4. \A u \in Surface :
         \/ /\ server'[u].wanted = server[u].wanted /\ server'[u].owes = server[u].owes
            /\ r.req = "commit" /\ r.surface = u => r.size = server[u].wanted
         \/ r.req = "commit" /\ r.surface = u /\ server'[u].owes
  BY Served
<1> HIDE DEF r
<1>5. TakenFirst'
  BY <1>1 DEF AInv, TakenFirst
<1>6. LatestKnown'
  <2> SUFFICES ASSUME NEW u \in Surface, ~server'[u].owes
               PROVE  /\ LastSays(wire, u, server'[u].wanted)
                      /\ ~On(wire, u) => LastSays(configures, u, server'[u].wanted)
    BY <1>1 DEF LatestKnown
  <2>1. server'[u].wanted = server[u].wanted /\ ~server[u].owes
    BY <1>4
  <2> QED BY <2>1 DEF AInv, LatestKnown
<1>7. Untouched'
  <2>1. ASSUME NEW u \in Surface, u > created PROVE server'[u].wanted = None
    <3>1. ~(r.req = "commit" /\ r.surface = u)
      <4>1. r.req = "commit" => r.surface <= created
        BY <1>2 DEF AInv, Untouched
      <4>2. u \in Nat /\ created \in Nat
        BY DEF Surface, TypeOK
      <4> QED BY <2>1, <4>1, <4>2
    <3> QED BY <1>4, <2>1, <3>1 DEF AInv, Untouched
  <2> QED BY <1>1, <1>2, <2>1 DEF AInv, Untouched
<1>8. ASSUME NEW u \in Surface, Coming(server, requests, wire, configures, u)
      PROVE  Coming(server', requests', wire', configures', u)
  <2>1. CASE server'[u].owes
    BY <2>1 DEF Coming
  <2>2. CASE ~server'[u].owes
    <3>1. /\ server'[u].wanted = server[u].wanted /\ ~server[u].owes
          /\ r.req = "commit" /\ r.surface = u => r.size = server[u].wanted
      BY <1>4, <2>2
    <3>2. Asked(server, requests, u) => Asked(server', requests', u)
      BY <1>2, <3>1 DEF Asked
    <3> QED BY <1>1, <1>8, <3>1, <3>2 DEF Coming
  <2> QED BY <2>1, <2>2
<1>9. ASSUME NEW p \in Panel, panels[p] # None
      PROVE  \/ Coming(server', requests', wire', configures', panels[p].surface)
             \/ Painted(panels[p], server')
  <2>1. panels[p].surface \in Surface
    BY <1>9, PanelTyped
  <2>2. Coming(server, requests, wire, configures, panels[p].surface) \/ Painted(panels[p], server)
    BY <1>9 DEF AInv, Answered
  <2>3. server'[panels[p].surface].owes \/ server'[panels[p].surface].wanted = server[panels[p].surface].wanted
    BY <1>4, <2>1
  <2> QED BY <1>8, <2>1, <2>2, <2>3 DEF Painted, Coming
<1>10. Answered'
  BY <1>1, <1>9 DEF Answered
<1> QED BY <1>5, <1>6, <1>7, <1>10 DEF AInv

(* A configure that is sent says what was asked for last.                  *)
LEMMA SendAnswered ==
  ASSUME TypeOK, AInv, NEW s \in Surface, Send(s)
  PROVE  AInv'
<1> DEFINE c == [surface |-> s, size |-> server[s].wanted]
<1>1. UNCHANGED <<requests, configures, panels, created, at>> /\ wire' = Append(wire, c)
      /\ server' = [server EXCEPT ![s].owes = FALSE]
  BY DEF Send, presenter
<1>2. wire \in Seq(Configured) /\ Len(wire) \in Nat /\ server \in [Surface -> LayerSurface]
  BY DEF TypeOK
<1>3. /\ c \in Configured
      /\ \A u \in Surface : server'[u].wanted = server[u].wanted
      /\ \A u \in Surface : u # s => server'[u] = server[u]
      /\ ~server'[s].owes
  <2>1. server[s] \in LayerSurface /\ server[s].wanted # None
    BY <1>2 DEF Send
  <2>2. server[s].wanted \in Size
    BY <2>1 DEF LayerSurface
  <2>3. server'[s].wanted = server[s].wanted /\ ~server'[s].owes
    BY <1>1, <1>2, <2>1 DEF LayerSurface
  <2>4. \A u \in Surface : u # s => server'[u] = server[u]
    BY <1>1, <1>2
  <2> QED BY <2>2, <2>3, <2>4 DEF Configured
<1>4. c.surface = s /\ c.size = server[s].wanted
  OBVIOUS
<1> HIDE DEF c
<1>5. /\ Len(wire') = Len(wire) + 1 /\ wire'[Len(wire) + 1] = c
      /\ \A i \in 1..Len(wire) : wire'[i] = wire[i]
  BY <1>1, <1>2, <1>3, AppendProperties
<1>6. On(wire', s) /\ \A u \in Surface : u # s => (On(wire', u) <=> On(wire, u))
  <2>1. Len(wire) + 1 \in 1..Len(wire')
    BY <1>2, <1>5
  <2>2. \A i \in 1..Len(wire') : i \in 1..Len(wire) \/ i = Len(wire) + 1
    BY <1>2, <1>5
  <2>3. \A i \in 1..Len(wire) : i \in 1..Len(wire')
    BY <1>2, <1>5
  <2> QED BY <1>4, <1>5, <2>1, <2>2, <2>3 DEF On
<1>7. LatestKnown'
  <2>1. LastSays(wire', s, server[s].wanted)
    <3> SUFFICES ASSUME NEW i \in 1..Len(wire'), IsLast(wire', s, i) PROVE wire'[i].size = server[s].wanted
      BY DEF LastSays
    <3>1. Len(wire) + 1 \in 1..Len(wire') /\ wire'[Len(wire) + 1].surface = s
      BY <1>2, <1>4, <1>5
    <3>2. Len(wire) + 1 <= i
      BY <3>1 DEF IsLast
    <3>3. i = Len(wire) + 1
      BY <1>2, <1>5, <3>2
    <3> QED BY <1>4, <1>5, <3>3
  <2>2. ASSUME NEW u \in Surface, u # s, NEW size, LastSays(wire, u, size) PROVE LastSays(wire', u, size)
    <3> SUFFICES ASSUME NEW i \in 1..Len(wire'), IsLast(wire', u, i) PROVE wire'[i].size = size
      BY DEF LastSays
    <3>1. i # Len(wire) + 1
      BY <1>4, <1>5, <2>2 DEF IsLast
    <3>2. i \in 1..Len(wire) /\ \A j \in 1..Len(wire) : j \in 1..Len(wire')
      BY <1>2, <1>5, <3>1
    <3>3. IsLast(wire, u, i)
      BY <1>5, <3>2 DEF IsLast
    <3> QED BY <1>5, <2>2, <3>2, <3>3 DEF LastSays
  <2>3. ASSUME NEW u \in Surface, ~server'[u].owes
        PROVE  /\ LastSays(wire', u, server'[u].wanted)
               /\ ~On(wire', u) => LastSays(configures', u, server'[u].wanted)
    <3>1. CASE u = s
      BY <1>3, <1>6, <2>1, <3>1
    <3>2. CASE u # s
      BY <1>1, <1>3, <1>6, <2>2, <2>3, <3>2 DEF AInv, LatestKnown
    <3> QED BY <3>1, <3>2
  <2> QED BY <2>3 DEF LatestKnown
<1>8. Untouched' /\ TakenFirst'
  BY <1>1, <1>3 DEF AInv, Untouched, TakenFirst
<1>9. ASSUME NEW u \in Surface, Coming(server, requests, wire, configures, u)
      PROVE  Coming(server', requests', wire', configures', u)
  BY <1>1, <1>3, <1>6, <1>9 DEF Coming, Asked
<1>10. Answered'
  <2> SUFFICES ASSUME NEW p \in Panel, panels[p] # None
               PROVE  \/ Coming(server', requests', wire', configures', panels[p].surface)
                      \/ Painted(panels[p], server')
    BY <1>1 DEF Answered
  <2>1. panels[p].surface \in Surface
    BY PanelTyped
  <2>2. Coming(server, requests, wire, configures, panels[p].surface) \/ Painted(panels[p], server)
    BY DEF AInv, Answered
  <2> QED BY <1>3, <1>9, <2>1, <2>2 DEF Painted
<1> QED BY <1>7, <1>8, <1>10 DEF AInv

(* Every step leaves no panel forgotten.                                   *)
LEMMA StepAnswered == ASSUME TypeOK, AInv, [Next]_vars PROVE AInv'
<1>1. ASSUME UNCHANGED <<wire, configures, panels, created, requests>>, at' # "dispatch" \/ at' = at,
             \A u \in Surface : server'[u].wanted = server[u].wanted /\ server'[u].owes = server[u].owes
      PROVE  AInv'
  <2>1. \A u \in Surface : Coming(server, requests, wire, configures, u)
                             => Coming(server', requests', wire', configures', u)
    BY <1>1 DEF Coming, Asked
  <2>2. \A p \in Panel : panels[p] # None => panels[p].surface \in Surface
    BY PanelTyped
  <2>3. Answered'
    BY <1>1, <2>1, <2>2 DEF AInv, Answered, Painted
  <2>4. LatestKnown'
    BY <1>1 DEF AInv, LatestKnown
  <2>5. Untouched' /\ TakenFirst'
    BY <1>1 DEF AInv, Untouched, TakenFirst
  <2> QED BY <2>3, <2>4, <2>5 DEF AInv
<1>2. ASSUME NEW p \in Panel,
             UpdatePicture(p) \/ Delete(p) \/ \E size \in Size : Create(p, size) \/ Resize(p, size)
      PROVE  AInv'
  BY <1>1, <1>2 DEF UpdatePicture, Delete, Create, Resize, Ask, presenter
<1>3. CASE Presenter \/ CreateFails
  <2>1. CASE Drained
    BY <1>1, <2>1 DEF Drained
  <2> QED BY <1>3, <2>1, CommandAnswered, TakeAnswered, DispatchAnswered DEF Presenter
<1>4. CASE Serve
  BY <1>4, ServeAnswered
<1>5. ASSUME NEW s \in Surface, Configure(s) \/ ConfigureUnasked(s) \/ Close(s) PROVE AInv'
  <2>1. CASE Close(s)
    <3>1. server \in [Surface -> LayerSurface] /\ server' = [server EXCEPT ![s].open = FALSE, ![s].shows = None]
      BY <2>1 DEF TypeOK, Close
    <3>2. server[s] \in LayerSurface
      BY <3>1
    <3>3. \A u \in Surface : server'[u].wanted = server[u].wanted /\ server'[u].owes = server[u].owes
      BY <3>1, <3>2 DEF LayerSurface
    <3> QED BY <1>1, <2>1, <3>3 DEF Close, presenter
  <2> QED BY <1>5, <2>1, SendAnswered DEF Configure, ConfigureUnasked
<1>6. CASE PaintPanics \/ UNCHANGED vars
  BY <1>1, <1>6 DEF PaintPanics, vars, presenter
<1> QED BY <1>2, <1>3, <1>4, <1>5, <1>6 DEF Next, Compositor

(* No panel is left unpaintable with nothing on its way that would end it, *)
(* for any number of panels, sizes and commands, whatever the compositor   *)
(* sends unasked and however the two wires and the commands interleave:    *)
(* what PaintableAgain adds is that the threads go on (update_spec,        *)
(* fixed_axis_changed).                                                    *)
THEOREM NoPanelIsForgotten == Spec => []NoneForgotten
<1>1. Init => AInv
  <2> SUFFICES ASSUME Init PROVE AInv
    OBVIOUS
  <2>1. /\ requests = <<>> /\ configures = <<>> /\ wire = <<>> /\ \A p \in Panel : panels[p] = None
        /\ \A s \in Surface : server[s].wanted = None
    BY DEF Init
  <2>2. Elems(requests) = {} /\ Len(wire) = 0 /\ Len(configures) = 0
    BY <2>1, ElemsFew
  <2> QED BY <2>1, <2>2 DEF AInv, Answered, LatestKnown, LastSays, Untouched, TakenFirst
<1>2. TypeOK /\ AInv /\ [Next]_vars => AInv'
  BY StepAnswered
<1>3. TypeOK /\ AInv => NoneForgotten
  BY ComingMeans DEF AInv, Answered, Painted, NoneForgotten
<1> QED BY <1>1, <1>2, <1>3, TypesHold, PTL DEF Spec
=============================================================================
