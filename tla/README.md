# A TLA+ model of tauler

tauler draws status bars, wallpapers and widgets from a layout file written in
JSX. Subprocesses print lines; each line is a value of the layout; each value
that changes causes an evaluation; the tree it returns becomes surfaces with
windows and processes to run; pointer events on a surface become intents
written to a process's stdin. This directory holds TLA+ modules translated
from that code, the TLC runs that check them, and proofs checked by TLAPS.

Paths below are relative to the repository; `src/x.rs` is `src/src/x.rs` in
`PROJECT.json`, where the repository itself sits in a directory `src`.

## 1. The system

### Threads and channels

| thread | code | owns |
|---|---|---|
| Loop ("tick thread") | `data/data_loop/mod.rs`, `app.rs` | the evaluator, `stream_values`, the desired set, the surface pipeline, the outbox, the capture of a drag |
| render worker | `render/worker.rs` | the renderer, one pending request per surface, when each was last drawn |
| presenter | `presentation/mod.rs`, `presenter/*.rs` | windows, the display connection |
| bridges | `data_loop/mod.rs` (`spawn_bridge`) | nothing; they forward lines of subprocesses and built-in sources, and ping |
| watchers | `main.rs` (`setup_file_watchers`) | the paths they watch |
| draw runtime | `d3_figure/draw.rs` | a second evaluator, a queue of drawings |
| reconciler | `units.rs` | a third evaluator |
| fetch threads | `pkg/fetch_manager.rs`, `d3_figure/fetch.rs` | nothing; they place files and ask for a reload |

All channels are unbounded and never block a sender, except the notifier of
the Loop: capacity one, written with `try_send`, read with a timeout (ADR
0024). The Loop blocks on two things, the answer of the worker to a
synchronous render (`RenderJob::Now`) and, when a reload drops the reconciler,
a hook still running (`units.rs:411`).

### The components

**Surface pipeline** (`surface/mod.rs`, `render/worker.rs`,
`presentation/mod.rs`, `backdrop/mod.rs`). State: a `SurfaceState` per surface
(the spec, the wallpaper generation and the Picture stamp it was last drawn
for), the wallpapers published per output, the worker's pending map, the
windows. Operations: enter, update, exit of a surface, in two passes
(wallpapers, then panels); repaint, synchronous render, forget; create, move,
resize, delete, update picture, paint wallpaper, shut down. Hard: two senders
feed the presenter, repaints are superseded, surfaces die and come back under
their id, a frame is drawn while what it depends on changes. Correct when what
was recorded as drawn is what ends on the screen, never backwards, never a
frame of another size, and wallpapers reach the desktop before the panels that
show a slice of them.

**Repaint scheduling** (`worker.rs` again, `repaint_decision`, `draw_next`).
State: a time per surface. Hard: the worker takes the lowest surface that is
due, so long draws make the floor elapse before those behind have a turn.
Correct when every surface asked for is drawn.

**Pointer, outbox, intents** (`pointer.rs`, `outbox.rs`, `app.rs`). State: the
capture of a drag, an intent in flight and one waiting per channel. Hard:
answers race with a grace period, unprompted lines look like answers, motions
are compressed. Correct when no press is lost and the module ends on the last
intent.

**Loop** (`app.rs`, `data_loop/mod.rs`, `main.rs`). State: values, desired set,
processes, evaluator, watched paths. Operations: a pass (take desired sets,
supervise, hear lines, evaluate, check the binary, reload, handle events,
wait), and everything that other threads send. Hard: wake-ups that get lost, a
reload that half succeeds, crashes nobody reports, files that change while they
are read, `exec` with children alive. Correct when nothing waits for the timer
that could be done now, when processes, values and screen belong to one eval,
and when everything settles on the newest files and lines.

**Gestures and accessibility** (`app.rs`, `pointer.rs`, `jsx.rs`,
`a11y/mod.rs`). State: the registry of handlers in JavaScript, which every
evaluation empties and refills, the function a drag holds, and the
accessibility tree shared with a thread of the platform. Hard: a click is
resolved to an index in one evaluation and run in another; an element made at
module scope registers once, when the module loads; a screen reader activates
what it saw a while ago. Correct when a gesture runs the function of what it hit, a drag the
one it began with, and the platform is neither left waiting nor with an old
tree.

**D3 figures** (`d3_figure/*`, `render/picture.rs`). State: the keys of the last
plan, a queue of requests, a Picture per key and fallbacks, a download with
back-off. Hard: a dropped runtime still delivers, keys leave and return, a
figure that fails. Correct when every figure on screen ends with the drawing of
its own key and layout.

**Packages** (`pkg/*`). State: keys in flight, a cache directory, the Lockfile.
Hard: several fetches and processes write one Lockfile; a request is dropped
while its key is being released. Correct when the cache only holds whole
checkouts, pins survive each other, and the layout ends up on its pins.

**Units** (`units.rs`, `tauler-core/src/units_reconcile.rs`). State: what was
last observed. Hard: the world is changed by others, hooks block for long, a
reload joins them. Correct when each Sweep moves what is observed towards what
is declared, and an idle reconciler has nothing to do.

**Presenter on Wayland** (`presenter/wayland.rs`, `windowing/wayland/mod.rs`).
State: the layer surface of each panel, the configures read and not yet
handled. Hard: surfaces die and come back under a panel's id while what is
about the old one is still on its way. Correct when no buffer is sent for a
surface before its configure is acknowledged (the compositor would end the
connection), and every panel can be painted in the end.

**tauler-notify**. State: notifications with generations, ids by tag. Hard:
calls overlap in an `await`, timers outlive what they were set for. Correct when
an expiry closes only its own notification, clients hear once of each that is
gone, and a tag has one popup.

**tauler-i3**. State: a tree cache, the gaps set, a refresh schedule. Hard:
i3 restarts, events come in bursts. Correct when what is published is stale for
no longer than the debounce, and the gaps are as the props say.

**tauler-aerospace**. State: nothing but a queue of hints. Hard: one refresh is
two queries, and AeroSpace changes between them. Correct when the strip it last
printed is AeroSpace's whenever it waits.

**`<I3Layout>`, `<Workspaces>`** (`tauler-core/src/ui/components/i3_layout.rs`,
`workspaces.rs`). State: what each edge of the screen has given up. Hard:
unsigned lengths that wrap, fractions that are rounded on the way to i3. Correct
when panels and the rest tile the screen, and windows are where their frame is.

**tauler-accumulate**. State: a window of lines. Correct when it prints the last
lines, for any count.

**The rest** is pure or outside of what a model says something about: the JSX
interpreter, layout and rasterising, window system calls, themes and
components, generators, test harnesses. `PROJECT.json` lists each with the
reason.

## 2. What is modelled

| module | models | checked by |
|---|---|---|
| `RenderPipeline` | surface passes, worker, presenter | `render`, TLAPS |
| `LatestFrame` | what a viewer is promised: windows skip forward only | (abstract) |
| `RenderRefinement` | `RenderPipeline` implements `LatestFrame` | `render_live`, TLAPS |
| `RepaintScheduler` | the worker's choice, on a clock | `sched_fast`, TLAPS |
| `Delivery` | the queues between a press and its reader, and `PressesDelivered`; extended by `Intents` | `intents`, TLAPS |
| `Intents` | pointer events, outbox, a module | `intents`, TLAPS |
| `Gestures` | from a press or an activation to a function; the accessibility tree | `gestures`, TLAPS |
| `Loop` | passes, supervision, reloads, watchers, exec | `loop`, TLAPS |
| `Pictures` | the Picture store, and what is promised of it; extended by `Figures` | `figures`, TLAPS |
| `Figures` | plans, draw runtimes, downloads | `figures`, TLAPS |
| `Packages` | imports, cache, Lockfile, fetch threads, `pkg update` | `packages`, TLAPS |
| `Units` | Sweeps against a world others change | `units`, TLAPS |
| `Wayland` | layer surfaces between presenter and compositor | `wayland`, TLAPS |
| `Notify` | tauler-notify | `notify`, TLAPS |
| `I3Bridge` | tauler-i3 | `i3`, TLAPS |
| `Aerospace` | tauler-aerospace | TLAPS, `aerospace.cfg` |
| `EdgeLayout` | `<I3Layout>` and the frame of `<Workspaces>` | TLAPS, `edge.cfg` |
| `Accumulate` | tauler-accumulate | TLAPS |
| `*_proofs` | theorems about the module of that name; `RenderPipeline_proofs`: about `RepaintScheduler`, too; `Loop_proofs`: about `Figures` and `Intents`; `Bridges_proofs`: about `I3Bridge`, `Aerospace`, `Accumulate`, `EdgeLayout` | TLAPS |
| `MC*` | constants and symmetry of the runs | |

`Loop` and the other modules meet where threads hand something over. What an
eval shows (`shown` in `Loop`) is the desired layout of a pass in
`RenderPipeline` (`BeginPass`); the figures it names are an `Eval` of
`Figures`, the imports it resolves a load of `Packages`, the Units it declares
the `Declares` of `Units`. The lines a module prints in `Intents`, `I3Bridge`,
`Notify`, `Aerospace` and `Accumulate` are lines of `Loop`; what a function of
`Gestures` sends is an event of `Intents`; what `RenderPipeline` commands is
applied by `Wayland`. Each module takes from its neighbour any sequence of
inputs, which is more than the neighbour can send, so they are not composed
into one state space. What a property needs of the neighbour is said at its
definition.

### RenderPipeline

| model | code |
|---|---|
| `tracked` | the `SurfaceState`s of the two `OptativeSet`s |
| `registry`, `generation` | `backdrop::publish_wallpaper`, `generation_for` |
| `picture` | the stamp of the Pictures a content names |
| `phase`, `todo`, `wait` | where `reconcile_all` is, and its blocking `render_now` |
| `jobs`, `reply`, `commands` | the three channels |
| `pending`, `resting`, `drawing` | `Worker` |
| `window`, `desktop`, `presenting` | `Presenter` and the server behind it |

A step of a pass is one surface: `Exit`, `UpdateWall`, `ResizePanel`,
`UpdatePanel`, `Enter`, in the order of `OptativeSet::reconcile` (existing
before new), in any order among surfaces. A step that needs pixels is split at
the blocking call (`AskNow`, `NowAnswered`), since the worker and the presenter
go on meanwhile. Drawing is split where the renderer reads the Picture
(`Rasterize`), since the Loop may store a new one before or after. A display
call fails in two ways, on the geometry, which returns early from
`Presenter::apply`, and on the image, which is logged.

Pixels are abstracted to what decides them: the request (content, size,
backdrop generation, crop) and the Picture bound. `seq` numbers requests for
the properties only.

Windows whose calls may fail are the constant `Unreliable`. `PaintsFit` is
stated for all windows. The others are stated for the reliable ones, because
nothing in the code retries a creation that failed; that they hold beside an
unreliable window is part of what they say.

### RepaintScheduler

The floor in `RenderPipeline` elapses at any time. Fairness among surfaces
depends on how long it is against the time a draw takes, so that choice has a
module with a clock. `passed` is history: per surface that is due, those drawn
since.

Which surfaces are sure of a turn depends on how many come before them: `Prompt`
are those before which there is time, within a floor, to draw all that are ahead,
short of one. `PromptIsServed` says that these are drawn whatever else is asked
for, `PassedOnce` how long they wait: for those before them, and for none of them
twice. The first two surfaces are prompt however long draws take. By the code's own
figures, 40 to 90 ms for a draw (`worker.rs:56`) and a floor of 12.5 ms
(`worker.rs:58`), only these two are, and a third may starve (section 6).

### Intents

`incoming` is the presenter's channel, `batch` what the pass drained, `busy` the
channels with an intent younger than `REPLY_GRACE`, `waiting` the outbox,
`stdin` the pipe, `lines` what a module has printed. `BeginPass` is the whole
item phase of a pass for each channel: a line releases the channel and sends
what waits, a second line releases it again. `SlowPass` says whether the grace
may run out in the middle of a pass.

### Loop

`at` is the program counter of `DataLoop::run` with `App::tick` inlined. Channels
carry their messages; the notifier is `ping`, and a thread that has sent and
not pinged yet is in `pinging`, the gap where a wake-up could be lost.
`pool[k].start` counts starts, so that a restart can be told from a survivor.
An evaluator is what it was built from: the two files and the `ctx`. What a
layout runs on given values is the constant `Wants`, which may be `None` for an
eval that throws; `Misshapen` are the layouts that evaluate to a tree no
surfaces can be read from (a panel without a width). `unseen`, `said` and
`before` are history.

Not in `Loop`: the built-in sources (threads under the same reconcile), macOS
(where the presenter owns the main thread and the Loop is a worker of it), the
debounce of the watchers, more than one file of either kind.

### Gestures

| model | code |
|---|---|
| `registry`, `captured` | `__tauler_handlers`, `__tauler_captured` in the evaluator |
| `shown` | the panel the pipeline holds, with the indices its tree carries |
| `capture` | the `Capture` of `App` |
| `adapter`, `state`, `reading`, `tree` | the accesskit adapter, `A11yState` behind its lock, what the platform's thread is building, what it presents |
| `actions`, `events`, `line`, `reloads`, `ping` | the channels of the Loop |

A function is the evaluation that made it and the element it was made for; that
is what the properties tell apart. `Renders` are the trees a layout may return,
what the evaluation registered (`made`), be it before it threw, and the indices
that elements made at module scope still carry in its tree (`kept`): these were
registered once, when the module was loaded, and the registry has been emptied
since. A pass takes one reload request of those that wait (`app.rs:1228`), and a
fetch thread asks for a reload without a ping (`Fetched`). Left out: elements with
a click and a drag of their own at once, and more than one panel, so that the
press is always on the panel the capture looks up (`app.rs:1473`). Elements with
intents instead of a function for their drag (`Track`) capture nothing. An activation names a place
in the tree, and what is there when the Loop gets to it is pressed (ADR 0038).
The adapter is a library: it is taken to hold its own lock while it builds its
first tree, and to serialise that with `update_if_active`.

### Figures

`calls` is `App::last_eval` reduced to its keys, `previous` the keys of
`Requests`, `entries` and `fallback` the Picture store, `thread[g]` the thread
of a draw runtime with its kept batch, `files` the assets in the cache. A round
of a runtime is split where it waits (`StartRound`, `NotReady`, `Ready`,
`StartDraw`, `FinishDraw`) and where it is interrupted by its own drop
(`Stopped`). A drawing is who drew it and for which key. `Reload` is one action
up to the eval of the new layout, `SpawnDrawRuntime` the rest of the load,
since drawings of the old runtime arrive in between. The look at the files and
the claim of a download (`fetch.rs:166`) are one step: a download that ends between
them is followed by one that finds everything there, and asks for one more reload.

### Packages

`cache` is a set of checkouts, a path and what lies there; `lockfile` with
`torn` the file between truncation and write; `thread` the fetch thread of each
key in flight; `lock` the holder of `lockfile_writes`; `update` the process
`tauler pkg update`. A load resolves the imports one after another, with the
read of the Lockfile and the look at the cache as steps of their own
(`ReadLockfile`, `ResolveCold`, `ResolveWarm`). Abstracted: two processes that
write the very same bytes at the same time, the reaping of temporary
directories, and `git` children that survive an `exec` (what they place has a
path of its own). A Lockfile that does not parse is modelled where a pin is
recorded (`FetchFails`), which it prevents; that the write fails after the
truncation is left out.

### Units

`sweeper[n]` is the reconciler thread of load `n`: where it is in a Sweep, what
it evaluated, what it observed of the Unit at hand and which hooks are left.
`world` is a set of Items whoever made them. `Declares` says what a layout
evaluates to on data and globals, or that it throws; `Claims` are keys only one
Item can have (a port), so that the order of hooks matters. What hooks do
besides and how they conflict is the world's, and left out. The first Sweep
after a load sees no data, since a reload empties the values. The code empties them
shortly before it stops the old reconciler (`app.rs:1308`, `1315`), which may sweep
once more on no data: here that is a `Tick` without data before `Reload`.

### Wayland

`commands` is the presenter's channel, `panels` its panels, `configures` the
configures read and not handled, `requests` and `wire` the two directions of
the connection, `server` the compositor's side of each surface. Surfaces are
numbered as they are created, as the code does to tell a former panel of the
same id from the present one. A panel that only moves sends nothing on Wayland.
A frame for a panel that can be painted is painted, or dropped (no buffer, less
than one line of pixels: `Paint`), or makes the presenter's thread panic: the height
is computed from the bytes, with a width that a late configure has overwritten or
that the width axis leaves out, and the copy into the canvas is longer than the
canvas (`windowing/wayland/mod.rs:108`; `PaintPanics`). What becomes of the
connection after that is left out, and so are clicks, changes of outputs, the pool of buffers, a scale other
than 1, the loss of the connection.

### Notify

`calls` are the calls of `Notify` so far: their id is resolved under the lock
of the tags (`Resolve`), then the sender is looked up in an `await`, and only
then the event sent (`Send`), so that calls overtake each other. `items`,
`generation`, `nextGen` are the store, `timers` the expiry tasks. `Restart` is
a new process: ids begin at 1 again, clients keep theirs. An expiry that is
negative and not -1 is cast to so large an unsigned number that it never comes,
as in `expire_ms`.

### I3Bridge

The threads are `ReadEvent` (subscribe), `TakeCommand` to `CommandFails`
(command worker, with the second attempt of `with_retry`), `ReceiveHint`,
`Fetch` and `Publish` (refresh worker), `NewProps` and `Click` (stdin). Time is
in ticks, and threads do what they can before the next one. The tree of i3 is
the number of its changes; gaps are a single value.

### Aerospace, EdgeLayout, Accumulate

`Aerospace` follows the three threads of the module and the two queries of a
refresh (`ListWorkspaces`, `ListWindows`), with AeroSpace changing between any
two steps, clicks on stdin, and the module killed and started again.
`EdgeLayout` places panels one by one, in `u32` that wraps at `Word`; `<Workspaces>`
may come last, with `<Contents>` anywhere inside of its picture, in quarters of
a pixel where the code has `f32`. `Accumulate` is its `main` loop.

## 3. Runs

Each run says what its name says in `PROJECT.json`; here is why its bounds are
enough.

**render**: two panels, one wallpaper, eight layouts that differ in content,
size, place, presence of each, three passes, one Picture; the calls for one of
the panels may fail. Three passes are what it takes to create a surface,
supersede a repaint and delete it, or delete it and create it again while the
first is being drawn. Two panels are what it takes for one to drop what the
other still needs. 2.9 million states. With one panel, `Unreliable = {1, bg}`
checks the faults of the desktop, too.

**render_live**: one panel, fair threads. Checks that the pipeline implements
`LatestFrame` with its liveness, and `Converges`. The layouts are the repaints,
resizes and moves of a panel, and a wallpaper changing under it.

**sched_fast**: four targets asked for without end, draws of 1 or 2 ticks, a floor
of 3. The first three are prompt and are drawn; the fourth is not, and with
`NoStarvation` in the place of `PromptIsServed` TLC finds it starving, so the run
has both sides of the bound. 10,000 states.

**intents**: a slider and a button on one module, four pointer events of which
two presses, one line that answers nothing, passes slow or fast: enough for a
drag with an intent in flight, one waiting and one superseded, and a press in
between.

**loop**: four layouts (one that runs a module inside a branch and throws on a
line, one with an import, one that does not compile, one that evaluates to a tree
no surfaces can be read from), two contents of the
import of which one does not compile, two streams, three outside events in any
order between any two steps, from every initial content of the disk. Three
events allow a save during a reload during another, a crash between a save and
its reload, a new binary with work queued. 303,000 states.

**figures**: three keys, evals that show one, another, or two of them, one
asset, two loads, two events. One figure that changes its key needs a fallback,
one that comes and goes releases it; two loads let the drawings of the first
arrive in the second; the events are failures and saves. 128,000 states.

**packages**: two imports, two commits of each remote, two events. Two fetches
are what it takes to lose a pin of the Lockfile; a push and a restart, or a
save and an update, fit. 127,000 states.

**units**: a layout whose Unit moves a port from one service to another with
the data, beside a light that a click switches on; one with the light alone,
that throws for some data; two loads, four events. 127,000 states.

**notify**: a tag, five requests (with the tag, an id, both or neither, and
each kind of timeout), three calls, and a closing or a restart:
one call replaced by another while a third is on its way. 404,000 states.

**i3**: two workspaces, two outputs, gaps 0 to 2, a heartbeat of 3 ticks over a
debounce of 1, three events: a change during a fetch and another during the
debounce, or a restart between a question and its command. 1.2 million states.

**gestures**: two trees, of a mute button with intents, a play button, a slider of
volume and one of intents (dim), and of the volume beside a bell made at module
scope, and one without the panel; four inputs: a press, a motion and a release with a
reload or a hotplug between any two, or an activation of a place that has
changed. 7.4 million states; safety only.

**wayland**: one panel of two sizes, five commands, one configure nobody asked
for, a closing, or a frame that is not painted: two lives of a panel under one id,
and a resize back and forth. 1.08 million states.

Beside the listed runs, `aerospace.cfg` (two workspaces, four events, 87,000
states; safety and liveness) and `edge.cfg` (a screen of four by three pixels,
two panels of size 1, 2 or 5 on each anchor, every quarter of a pixel that
rounds differently; 238,000 states) check what the theorems of `Aerospace` and
`EdgeLayout` in `Bridges_proofs` say, and pass. Further configurations beside the listed
runs are in section 6.

### Fairness

`RenderPipeline`: weak fairness of each thread's steps and of the floor's
timer; none for evals, Pictures or the shutdown. Threads run, and each blocks
on a channel whose other end is not waiting for it: the worker never waits for
the Loop. `Intents`: passes keep coming because lines and events ping the Loop
and its timer fires anyway; a module keeps reading; it need never answer.
`Loop`: the Loop's own thread (its timer included) and the pings of threads that
have sent; nothing outside has to happen. `RepaintScheduler`: the worker and the
clock. `Figures`: the Loop, the thread of each draw runtime, and the end of a
download and of a back-off; data and saves need not come. `Packages`: loads,
fetch threads and a `pkg update` that has begun; a `git` that hangs is left
out, pushes and saves are not owed. `Units`: the Sweeps of each reconciler,
whose hooks return, and the load that waits for one to end. `Notify`: the loop,
calls that have an id, and timers. `I3Bridge`: the subscriber and the command
worker, for i3 answers; the refresh worker needs none, since time does not
pass before it has done its work. `Wayland`: the presenter's thread and a
compositor that handles requests and answers those that want a configure.
`Aerospace`: its three threads. Strong fairness is not used anywhere.

### Safety halves

"In the end" has two halves: that nothing is lost on the way, which is an
invariant, and that the threads go on. For each property that speaks of the end,
the module has the first half as a definition of its own, right before or after
it; section 4 says what is proved of them. They are no runs of their own, but
each was checked by TLC, added to the configuration named, before it was proved:
`ShownWhenQuiet` (`render`), `NewestIsKept` (`intents`), `NoneForgotten`
(`wayland`), `TimersKept` (`notify`), `PassedOnce` (`sched_fast`),
`NoDrawingIsLost` (`figures`), `NoPinIsMissed` (`packages`, with three events),
`GapsAreComing` (`i3`), `RestsOnNothing` (`units`), and `NoSaveIsMissed`,
`RunsTheWanted` and `LinesAreKept` (`loop`, with three events and with four).

## 4. Proofs

TLAPS checks, for every value of the constants under the named assumptions
(which TLC evaluates in the runs):

`RenderPipeline_proofs`
- `TypesHold`: `Spec => []TypeOK`.
- `SamplesCurrent`: `SamplesCurrentWallpaper`, for any number of panels,
  wallpapers and outputs. Not inductive by itself, since in the middle of a
  pass panels lag behind. `IInv` adds `Phased` (no phase mixes the two kinds of
  surface; the one awaited is among those to do) and `Sampled` (in the panel
  phase, those already done, and the one being drawn, are from the wallpapers
  now published). It holds because wallpapers cannot be published in that phase.
- `NothingGarbled`: `PaintsFit`, an action property, from `TypeOK` and one case
  per command; display faults included.
- `WallpapersComeFirst`: `WallpaperBeforePanels`, under `Unreliable ∩ Wall = {}`
  (with a wallpaper whose painting fails it is plainly false, and the code does
  not try again). The channel to the presenter has two senders, so the invariant
  `WInv` is about places in that queue: `InOrder`, wallpapers travel in the order
  of their generations, and `AllBacked`, whatever was cropped from a generation,
  be it in a job, a slot, a render, a reply, a command or a window, comes behind
  the command that paints this generation or a later one on its output.
- `SizesAgree`: `StaleSizeOnlyWhenGone`, with display faults on any other surface.
  `SInv` adds `Blocked` (while the tick thread waits for a frame, nothing older of
  that panel is left with the worker, since a Now job drops what was pending) and
  `Measured` (by the time each repaint is applied, queued or still to be drawn,
  the commands ahead of it have given the window the size it was drawn for).
- `RepaintsReach`: `NothingGetsAhead`, and `PicturesFresh`: `PictureNotOlderThanStamp`,
  for every panel the display takes. Both need to know which of all that is carried
  for a panel is the newest, over two queues, a slot, a render, a reply and a
  window, so `NInv` adds to `SInv`: `Aged`, per panel the older a request is the
  nearer it is to the screen (window, commands, then render or reply, slot, jobs,
  each queue sorted); `Numbered`, a number names one request and none exceeds the
  counter; `Answering`, the tick thread waits for the newest request of all, with
  the Picture it is about to record; `Forgotten`, nothing tracked is about to be
  forgotten; and `Recorded`, what is tracked has a window or a Create behind the
  last Delete (`Lives`), and once settled its newest request matches the record
  (`Told`), with no older Picture (`Fresh`). A step of the presenter may drop a
  request only when something newer is behind it; that the check of the size drops
  none that counts is `StaleSizeOnlyWhenGone`, which is why these rest on `SInv`.
- `ImplementsLatestFrame`: `ShowsLatestFrame`, the safety half of the refinement. What
  `LatestFrame` wants of a panel is its newest request still carried anywhere, as long
  as the panel is tracked or awaited (`Wanted`), what it shows the frame in the window
  (`OnScreen`). Steps of a pass map to `Ask`, `AskElsewhere` and `Drop`, those of the
  presenter to `Show` and `Hide`, the rest to stutters. `RInv` adds to `NInv` that what
  the tick thread waits for is on its way (`Sought`) and that what is wanted is carried,
  newest of all and nearest to its recording (`Coming`), which follows from the order
  `NInv` keeps (`WantedComes`). Panels the display may refuse are left out, as in
  `NothingGetsAhead`.
- `QuietIsShown`: `ShownWhenQuiet`, the safety half of `Converges`: a panel of which
  nothing is under way is shown as it is tracked, or is gone. `NInv` has it for the
  pixels; places are in no request, so `PInv` adds that the commands still queued for
  a panel lead its window from where it is to where it is tracked (`Situated`: a
  function along the queue).
- `NobodyPassesTwice`: `PassedOnce` of `RepaintScheduler`, for any targets, floor and
  draws of which one is the longest (`Longest`). `TInv` says that what passed a prompt
  panel has been at rest only for the draws after its own (`Resting`), so it is not due
  again. It is the bound behind `PromptIsServed`, which is left to TLC.

`Loop_proofs`
- `TypesHold`.
- `NothingLeftSleeping`: `NothingSleeps`, from `Roused`: each message has its ping
  in the notifier, its sender still about to ping, or its reader still ahead in
  this pass.
- `RunsWhatTheBarShows`: `RunsWhatIsShown`, from `Tried` (what is being installed has
  passed its trial eval): what is wanted is what the eval on screen runs, unless the
  layout in use has no readable surfaces, when it is nothing. That the second case
  is none of what `app.rs:1256` promises is `KeepsWhatIsShown`, and `loop_misshapen`.
- `ShowsAllItKnows`: `ShowsWhatItKnows`, inductive as it stands together with
  the types.
- `ReloadsAreColdStarts`: `ReloadRestarts`, from `Restarting`: whatever ran before
  a reload and is up is left out of a desired set still to be taken.
- `NoSaveIsForgotten`: `NoSaveIsMissed`, the safety half of `CatchesUp`, inductive with
  the types: a request is used up only by a load that reads the files after it, and
  what loads is what gets installed.
- `OnlyTheWantedRuns`: `RunsTheWanted`, inductive with the types: what runs or has
  crashed is what is wanted, and nothing is left when the new binary is run. The
  safety half of `BinaryIsReplaced`, and one of the two of `Settles`.
- `LinesAreHeard`: `LinesAreKept`, the other one, from `Speaking` (a kill forgets what a
  process said): the last line of a process is its value, or the last of its key to be
  heard, or a set without the key is still to be taken. Processes that write to
  stderr are left out (section 6).

Also in `Loop_proofs`, of the instances `Fig` (`Figures`) and `Box` (`Intents`):
- `StoresCurrent`: `StoresOnlyCurrent`, inductive with `Listed` (the drawings on
  their way are a queue).
- `NeverBlank`: `NeverBlankAgain`, under `Structured`: a key stands for one figure at
  one place, and a figure whose key changes is there in every eval. Without it the
  property is false (section 6). `FiguresInv` says what the store owes the plan:
  `InPlace`, a key falls back to keys of the same figure; `AsRecorded`, what the frame
  last asked for shows can still be lent; `Lasting`, if a figure shows something under
  any of its keys, then under the one last planned. The fallbacks of a plan are a
  recursive function over its figures, whose values `FallbacksUnfold` gives.
  The layouts of the run `figures` are `Structured`.
- `Delivered`: `PressesDelivered`, for any elements, modules and positions, if every
  element that can be hit has a handler (`hit_test` finds no other). `DeliveryInv`
  adds the types and `MotionsWait`: events are drained into a batch that is empty,
  and what is held back is of a motion. Each step moves a press between two ends of
  one row (incoming, batch, pipe, read), which `Account` counts. `Compressing` is the
  lemma that matters: compressing motions keeps the presses of a queue of any length,
  and their order.
- `LastIntentIsKept`: `NewestIsKept`, the safety half of `NewestIsRead`, from the types
  and `AllKept`: the outbox replaces what waits only by what is newer, and lets it go
  only to the pipe.
- `RequestsAreKept`: `NoDrawingIsLost`, the safety half of `DrawnInTheEnd`, for any
  figures, `Structured` or not. `RequestsInv` is the types (`LoopTyped`,
  `RuntimesTyped`), `NoneNewer` (no drawing is of a runtime that is not there),
  `FrameTakesNewest` (where the store has a drawing by the newest runtime, the frame
  last asked for shows it) and `AllAsked` (each key on screen is lost, stored by the newest runtime,
  or `OnItsWay`). The work is in that last word: a key survives later batches, which
  drop what they do not name, a round that fails and keeps what it was asked
  (`RoundFailsKeeps`), and one that waits for a download (`NotReadyKeeps`).
  What the code filters is written with recursive functions (`Planned`, `Retained`)
  and not with `SelectSeq`, of which `tlapm` knows nothing.
- `NeverBlank` and `Delivered` rest on `Counting` and `Unfolding`: induction on the numbers up to `N` over a
  set, from the well-foundedness of `<`, and the existence of a recursive function.
  The induction theorems of the library take an operator, which the provers cannot
  instantiate; over a set the argument is first-order.

`Packages_proofs`
- `TypesHold`, in two halves (`Threads`, which ties the lock to who writes, and
  `Rest`).
- `CacheStaysWhole`: `CacheIsWhole`, inductive with the types, since the cache
  only grows, by `Placed`, and a thread places what it checked out.
- `PinsArePlaced`: `PinnedIsPlaced`. Not inductive by itself: a pin is carried in
  the memory of whoever read the file and writes it back. `Origin` says so of
  everything read and not yet written.
- `PinsAreKept`: `ThreadsKeepPins`. From `Keeping`: before `pkg update` has run, the
  file is torn only under a thread that is writing it, and whoever writes it
  knows every pin in it, because it read the file under the same lock.
- `NoPinIsLeftBehind`: `NoPinIsMissed`, the safety half of `SettlesOnPins`. On top of
  `Keeping`: `Done` (a thread whose key still blocks requests has placed or pinned what
  it was for, so the request it drops is not needed), `Pinning` (what it writes has its
  pin) and `Followed` (what a load has read or picked so far is what the Lockfile says,
  unless a reload or a thread that ends in one is there, `Behind`).

`Wayland_proofs`
- `TypesHold`. Commands name a kind and a panel, surfaces are numbered by a
  maximum, whose uniqueness is a lemma (`MaxIsOne`).
- `ProtocolStands`: `ProtocolKept`. Its invariant `IInv` follows the right to
  paint backwards: a buffer on its way has the acknowledgement ahead of it on the
  same wire, and so has every configure that is read and every panel that counts
  as configured. That holds across panels that return under an id because
  surfaces are numbered.
- `NoPanelIsForgotten`: `NoneForgotten`, the safety half of `PaintableAgain`. `AInv` has
  `Answered` (a panel can be painted at the size last asked for, or something is on one
  of the wires, or owed, that leads to a configure for its surface), which needs that
  the newest configure on its way tells the size wanted last (`LatestKnown`), that a
  surface that is not created yet was never asked for anything (`Untouched`), and that
  the presenter takes what it has read before it reads again (`TakenFirst`).

`Notify_proofs`
- `TypesHold`: types, and no id twice in the list. `InTurn` (an id for each call,
  given out in turn) keeps fresh ids within their bound.
- `AnnouncedOnceHolds`: `AnnouncedOnce`, inductive with the types, over two
  lemmas on what adding (`Putting`) and taking away (`Taking`) leave in the list.
- `ExpiryHitsItsOwnHolds`: `ExpiryHitsItsOwn`, from `Stamped`: a timer under way
  whose generation is still that of its id was set for what has the id. It holds
  because generations are never given out twice by a process, and a removal
  takes the stamp away.
- `OnePopupPerTagHolds`: `OnePopupPerTag`, from `Tagged`: as long as no call with a
  tag names an id, all that is alive of the tag (still to be sent, on its way, or
  in the list) has the id of the tag.
- `NoTimerIsLost`: `TimersKept`, the safety half of `TimedGo`, from `Timely`: whatever in
  the list has a timeout has a timer, or the message that it fired, for the generation
  its id has now. A replacement makes the old timer void and sets another.

`Gestures_proofs`
- `GesturesTyped`: `TypeOK`, in three parts (`AppOK`, `PassOK`, `AdapterOK`).
- `NoGestureIsLeft`: `NobodyWaits`, from `Announced`: what is in a channel has its
  ping in the notifier, its sender still about to ping, or its reader still ahead
  in this pass. Reload requests are none of it (section 6).
- `ScreenReaderSeesThePanel`: `TreeIsShown`, from `Followed`: from the moment the
  content is shared with the platform's thread it is the panel's, and but for the
  moment before it is pushed the tree presented, or being built, is the content's.
- `PressRunsItsOwn`: `RunsItsOwn`, an action property about the elements made by the
  evaluation on screen, from `Filled`: unless an evaluation threw, the registry is the
  one that evaluation filled. The trees may have elements made before it, too, of
  which nothing of the kind is true (`KeptRunsItsOwn`, section 6).
- `DragRunsItsOwn`: `DragKeepsItsOwn`, from `Kept`: the slot of a drag holds the
  function of its press, or nothing since a reload.

`Units_proofs`
- `UnitsTyped`: `TypeOK`; `OneActsAtATime`: `OneSweeper`.
- `SettledIsQuiet`: `QuietWhenSettled`, from `Untouched`: in a world that was as
  declared, a sweep observes what it declared, so that every batch is empty and
  the world is still as declared after the hook.
- `OneSweepDoes`: `OneSweepIsEnough`. `Progress` says what each stage of a Unit has
  achieved (`Stage`: strangers gone, then what was seen as declared) and that the
  Units done with stay `Right` while others are swept. Keys that only one Item can
  hold are where this could fail, so it is proved under `Claimable`: such keys are
  wanted by Items of one Unit, one at a time, and that Unit manages `exit`. The
  instance TLC checks satisfies it; without it a Unit may find a thing taken by
  another and a sweep is not enough.
- `RestsOnNothingElse`: `RestsOnNothing`, from `Rested`: the thread of the load in use is
  there, and what it rests on declared nothing or threw. With `OneSweepDoes` this is
  the safety half of the `Converges` of `Units`.

`Bridges_proofs`. `Aerospace`, `Accumulate` and `EdgeLayout` are instances in it.
- `I3Typed`: `TypeOK` of `I3Bridge`, in two parts (`TimingOK`, `CommandOK`).
- `NeverStaleForLong`: `StaleForABit`, from `Timed`: nothing is stale for longer than
  since the last refresh nor, unless a change was lost, for longer than the oldest
  change received has waited; and a change that was not lost is on its way to the
  worker or waits there. Time does not pass before the threads have done what they
  can, which is where the bound comes from.
- `NoLookIsMissed`: `GapsAreComing`, the safety half of `GapsSettle`, from `LastUpdate`
  (once the requests that wait are taken, the worker goes by the props declared last).
- `AerospaceTyped`; `StripStaysCurrent`: `StripIsCurrent`, with `HalfIsCurrent`, the
  same between the two queries.
- `HistoryStaysTrue`: `HistoryIsTrue` of `Accumulate`, for any count.
- `PanelsTile`: `Tiled`, under `Lengths` (the screen and the panels are `u32`). From
  `EdgesApart`: as long as everything fits, opposite edges have not met, so no sum
  has wrapped; `Slices` says of each anchor which pixels it takes from the rest.
- `WindowsAreThere`: `WindowsMeetContents`, by arithmetic on the rounding
  (`HalfAPixel`), under `Lengths` as well.

Every invariant and every action property of the runs is proved, and so is the safety
half of every property that speaks of the end: that whatever would have to happen is
always still to come, and what would have to be kept is never lost. Only checked by TLC
is the other half, that it does come, since TLAPS reasons neither about fairness nor
about ENABLED: the fairness half of `EndsOnLatestFrame`, both `Converges`,
`PromptIsServed`, `NewestIsRead`, `CatchesUp`, `Settles`, `BinaryIsReplaced`,
`DrawnInTheEnd`, `SettlesOnPins`, `TimedGo`, `GapsSettle` and `PaintableAgain`.

## 5. What is not modelled

Most of the source is not control. The JSX interpreter and transpiler, layout
(taffy), rasterising and the d3 calls, fonts, themes, the components of
`tauler-core`, and the parsers of configurations, Lockfiles and i3's tree are
functions without state of their own; a model would repeat them. What they do
to the state around them is modelled, though: the handler registry and the
Picture store, an evaluation that throws half way, a Lockfile read while it is
being written. X11 and AppKit are calls that fail or not. The generators,
`taulerbox`, the web preview and the test harnesses are not part of the running
program, and tests make up a large part of the remaining lines.

Left out inside of what is modelled: time, except in `RepaintScheduler` and
`I3Bridge`; the presenter's own events on macOS; the frame cache of the
renderer, which is keyed by everything a frame depends on, so that `Rasterize`
draws as if there were none; what is named at each module in section 2.

Limits of properties worth knowing:

- `SettlesOnPins` speaks of a Lockfile nobody leaves torn, no failed fetch and no
  edit or `pkg update` since the last load.
- `RunsItsOwn` excludes the time after an evaluation that threw half way, and
  elements made at module scope (`gestures_throw`, below).
- `PaintableAgain` excuses a presenter that has panicked, and surfaces that closed.
- `PromptIsServed` leaves out targets with too many before them; by the code's own
  figures that is all but the first two.
- `NeverBlankAgain` speaks of layouts that are `Structured` (in `Figures`); the others
  are in section 6.
- `PanelsTile` holds while the panels fit; beyond, sums wrap or saturate. A panel
  with a misspelt anchor covers all that is free and reserves nothing.
  `WindowsAreThere` needs `<Contents>` inside of the area of its picture, which
  nothing enforces.
- `StripIsCurrent` excludes a failed refresh: `tauler-aerospace` does not retry it
  until the next event.

## 6. Where the code and its documents disagree

Found while modelling. Most have a configuration beside the listed runs, the others a
variant of a listed one; under it TLC shows a behaviour that violates the property
named.

1. `render_crop` (`CropIsBehindPanel`): a panel that only moves is not repainted,
   so it keeps the slice of wallpaper of where it was (`surface/mod.rs:269`;
   `layout-file.md:171`).
2. `render_bare_output` (`NoWallpaperNoBackdrop`): when a wallpaper changes
   outputs, panels of the old output keep a backdrop (`surface/mod.rs:227`;
   `layout-file.md:203`).
3. `loop_import` (`HotReloads`): an import that does not load is not watched, so repairing it
   reloads nothing (`app.rs:1165`).
4. `loop_import` with `CtxIsCurrent` in the place of `HotReloads`: after a hotplug the layout is evaluated with the old `ctx`
   (`jsx.rs:1254`; `data.md:281`).
5. `loop_misshapen` (`KeepsWhatIsShown`): a layout that evaluates but has no readable surfaces stops
   the processes of the bar that stays (`app.rs:1307`; the comment at
   `app.rs:1256` promises the opposite).
6. `intents.cfg` with `SPECIFICATION Spec`, `MaxUnprompted = 0`, `SlowPass = FALSE` and
   the invariant `NeverOlder`: a press goes out ahead of a drag's intent that
   is still waiting, and is followed by it: the module reads an older intent
   after a newer one (`outbox.rs:126`).
7. `figures.cfg` with `SPECIFICATION Spec`, `MaxEvents = 1` and the property
   `KeepsShowing`: a reload that changes the key of a figure
   blanks it. The runtime is dropped before the new eval is reconciled, without a
   runtime nothing is planned, and so the frame is asked for before the fallback
   of the new key is set (`app.rs:1311`; `d3_figure/mod.rs:64`: "A layout reload
   is no exception").
8. `packages_pins` (`PinsMoveOnRequest`): a load that reads the Lockfile while a
   fetch thread writes it finds no pins, and what it fetches for the first time
   then is pinned to HEAD (`jsx.rs`, `resolve_package`, reads without the lock of
   the writers; `packages.md:34`: "Nothing updates a pin on its own").
9. `units_click` (`ClicksConverge`): a click is not followed by a Sweep if the last
   evaluation declared no Item or threw (`units.rs:350`; `units.md:523`).
10. `units_warm` (`WarmStart`): the first Sweep after a start has no data, so an
    Item declared for the data is exited and entered again (`app.rs:1300`; ADR
    0035).
11. `notify_foreign` (`UntaggedStack`): a client that kept an id over a restart
    makes a fresh notification replace its own later (`server.rs:116`; the test
    at `server.rs:228`).
12. `gestures_throw` (`KeptRunsItsOwn`): an element made at module scope is registered
    once, when the module loads (`tauler-core/src/globals.rs:172`), and every evaluation
    empties the registry (`jsx.rs:1401`; "Rebuilt every tick", `globals.rs:160`), so a
    click on it runs another element's function, or none.
    With `RunsItsOwnAlways` in its place: after an evaluation that
    throws half way, or has no readable surfaces, the registry is not that of the
    panel on the screen, with the same effect.
13. `wayland_blank` (`ShowsLatest`): the frame of a Create or a Resize is dropped
    while the surface is not configured, and the `NeedsRender` that follows is
    ignored, so a panel stays blank until its content changes
    (`windowing/wayland/mod.rs:220`, `app.rs:1635`).
14. `wayland_blank` under `Spec`, with the invariant `PaintedAtItsSize` in the place of
    `ShowsLatest`: a configure sent before a resize
    overwrites the size asked for, and a frame is painted at another stride. It may
    not fit into the buffer made for it, and then the presenter's thread panics
    (`windowing/wayland/mod.rs:108`).
15. `wayland_blank` with the property `EndsAtItsSize` in the place of `ShowsLatest`: after
    such a configure a resize back to the size it tells is no change to the code
    (`update_spec`), so nothing is asked for, and the answer to the resize before it
    leaves the panel at the wrong size.

Variants of the configurations show six more:

- `sched_fast.cfg` with `NoStarvation` in the place of `PromptIsServed`: a target before
  which others take longer to draw than the floor starves (`worker.rs:212`; the comment
  at `worker.rs:17` calls that impossible). With `Floor = 1` and `Draws = {4}`, closer to
  the code's own figures, it is the third.
- `intents.cfg` with `MaxEvents = 5`, `MaxPresses = 1`, `SlowPass = TRUE`
  (`NeverOlder`): if the grace runs out in the middle of a pass, a motion is sent
  ahead of the older one that waits (`outbox.rs:75`).
- The same with `SlowPass = FALSE` (`QueueOneDeep`): a module slower than the grace
  collects positions in its pipe (`outbox.rs:34`; ADR 0025).
- `loop.cfg` with `Noisy = {"clock"}` and `MaxEvents = 2` (`Settles`): a line on
  stderr becomes the value of a stream (`main.rs:413` and `main.rs:439` send
  `item.line` whatever `item.stream` is; `data.md:33` says stdout).

- `figures.cfg` with `Calls <- ChangingPlaces` (`NeverBlankAgain`): when two figures
  change keys with each other while one of them is shown by a fallback, it goes blank
  until its drawing arrives (`d3_figure/requests.rs:13`: when the structure changes a
  figure may show its neighbour's Picture, "briefly wrong, never blank").
- `figures.cfg` with `Calls <- ComesAndGoes`, the key `"dusk"` beside the others and
  `MaxEvents = 4` (`NeverBlankAgain`): a figure that goes, comes back and changes its
  key across a reload is shown by the fallback an earlier key left behind, and goes
  blank with the next key.

More show in the models without a property of their own. A second reload queued
behind the first is taken a pass later, and nothing pings for that pass, so it
waits out the interval; `NothingSleeps` leaves `reloads` out for this reason.
Threads that ask for a reload without a ping (the fetchers) wait for the
interval, too. That a Wayland
surface was closed is read and ignored, so a panel whose output went away does
not return with it. The presenter on Wayland returns when its connection is lost,
while the rest of tauler runs on without one. Frames are in physical pixels
while a panel's size on Wayland is logical, which differ on a scaled output.

## 7. Plan

Done: the render core with its abstract specification, intents and gestures,
the Loop, figures, packages, Units, the Wayland presenter, the notification,
i3 and AeroSpace modules, edge layout, accumulation. Proved: every
safety property of the runs, and the safety half of every liveness property. Next, in
this order:

1. Built-in sources and `event_txs` by bin, in `Loop`; the X11 presenter's event
   side, as `Wayland` has it.
2. Bounded checks of pure algorithms against reference definitions: hit testing,
   flatten, motion compression, the walk over i3's tree.
3. Proofs: the safety of what these add; that the walk and the compression compute
   what their reference definitions say, along the lines of `Compressing`.

## 8. Running

    tlc -workers 2 -config render.cfg MCRenderPipeline
    tlapm Loop_proofs.tla

`PROJECT.json` names the module and configuration of every run, the source
lines of every definition, and for every property of a passing run a mutated
definition that breaks it (`of` replaced by `as`).
