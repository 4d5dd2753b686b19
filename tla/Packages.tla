------------------------------ MODULE Packages ------------------------------
(* Packages (src/src/pkg/, GitPackageResolver in src/src/jsx.rs): a layout *)
(* that imports @gh/owner/repo is resolved against the Lockfile and the    *)
(* cache; what is missing is fetched by a thread, which pins it if it had  *)
(* no pin, and asks for a reload.  `tauler pkg update` is another process. *)
EXTENDS Integers, Sequences

CONSTANTS
  Pkg,        \* what is imported
  Imports,    \* the imports of the layout, in the order they are resolved
  MaxCommit,  \* bound: commits of a remote
  MaxEvents,  \* bound: pushes, saves, edits, restarts, updates and failures
  First,       \* the ref of a first fetch
  Dev,        \* the ref of a Package in Development mode
  Unread,     \* the Lockfile has not been read yet
  None

Commit == 1..MaxCommit
Ref == Commit \cup {Dev}
Lockfile == [Pkg -> Ref \cup {None}]
Key == Pkg \X (Ref \cup {First})

ASSUME ImportsAssumption == Imports \in Seq(Pkg) /\ Imports # <<>>
ASSUME BoundsAssumption == MaxCommit \in Nat \ {0} /\ MaxEvents \in Nat
ASSUME RefAssumption == First \notin Ref /\ Dev \notin Commit /\ {Unread, None} \cap (Ref \cup {First} \cup Key) = {} /\ Unread # None
ASSUME InUseAssumption == None \notin Lockfile

VARIABLES
  head,      \* the commit each remote is at
  given,     \* history: the Lockfile tauler was started with
  lockfile,  \* what was last written to the Lockfile
  torn,      \* is it being written: truncated, and still empty
  cache,     \* the checkouts in the cache: path and contents
  thread,    \* the fetch thread of each key, "none" if it is not in flight
  lock,      \* who holds lockfile_writes
  reloads,   \* channel: the reloads asked for
  at,        \* the import being resolved, 0 while nothing is loaded
  seen,      \* what the Lockfile said of it, once it is read
  picked,    \* the refs of the imports resolved so far
  inUse,     \* the refs of the layout in use, None before the first load
  update,    \* pkg update: what it does, its Lockfile, the Packages left
  failed,    \* history: has a fetch failed since the last load began
  touched,   \* history: has it been edited since
  updated,   \* history: has pkg update been run
  events     \* pushes, saves, edits, restarts, updates and failures so far

disk == <<lockfile, torn>>
fetching == <<thread, lock>>
loading == <<at, seen, picked, inUse>>
history == <<failed, touched>>
vars == <<head, given, disk, cache, fetching, reloads, loading, update, history, updated, events>>

Checkout == [path : Pkg \X Ref, holds : Commit]
Fetch == [at : {"none", "fetching", "cloned", "pinning", "write", "writing", "notify", "done", "failed"},
          holds : Commit \cup {None}, copy : Lockfile \cup {None}]
NoFetch == [at |-> "none", holds |-> None, copy |-> None]
NoUpdate == [at |-> "none", copy |-> None, left |-> {}]
NoPins == [p \in Pkg |-> None]

(* A read that finds the file truncated finds a Lockfile with no entries.  *)
Read == IF torn THEN NoPins ELSE lockfile

Cached(path) == \E c \in cache : c.path = path

(* place: a rename, which leaves what is there alone.                      *)
Placed(path, holds) == IF Cached(path) THEN cache ELSE cache \cup {[path |-> path, holds |-> holds]}

Event == events < MaxEvents /\ events' = events + 1

Init ==
  /\ head = [p \in Pkg |-> 1]
  /\ given \in {[p \in Pkg |-> 1], NoPins}
  /\ lockfile = given /\ torn = FALSE /\ cache = {}
  /\ thread = [k \in Key |-> NoFetch] /\ lock = None
  /\ reloads = 0 /\ at = 1 /\ seen = Unread /\ picked = NoPins /\ inUse = None
  /\ update = NoUpdate /\ failed = FALSE /\ touched = FALSE /\ updated = FALSE /\ events = 0

-----------------------------------------------------------------------------
(* A load on the Loop's thread.                                            *)

others == <<head, given, disk, cache, update, updated>>

Save ==
  /\ Event /\ reloads' = reloads + 1
  /\ UNCHANGED <<others, fetching, loading, history>>

StartLoad ==
  /\ at = 0 /\ reloads > 0 /\ reloads' = reloads - 1
  /\ at' = 1 /\ seen' = Unread /\ picked' = NoPins
  /\ failed' = FALSE /\ touched' = FALSE
  /\ UNCHANGED <<others, fetching, inUse, events>>

ReadLockfile ==
  /\ at > 0 /\ seen = Unread /\ seen' = Read[Imports[at]]
  /\ UNCHANGED <<others, fetching, reloads, at, picked, inUse, history, events>>

(* try_start: a key in flight is not fetched twice.                        *)
Start(key) ==
  thread' = IF thread[key].at # "none" THEN thread
            ELSE [thread EXCEPT ![key] = [NoFetch EXCEPT !.at = "fetching"]]

(* No entry, or no checkout: it is fetched, and the load fails, which      *)
(* keeps the layout in use.                                                *)
ResolveCold ==
  /\ at > 0 /\ seen # Unread
  /\ ~Cached(<<Imports[at], seen>>)
  /\ Start(<<Imports[at], IF seen = None THEN First ELSE seen>>)
  /\ at' = 0 /\ seen' = Unread
  /\ UNCHANGED <<others, lock, reloads, picked, inUse, history, events>>

ResolveWarm ==
  /\ at > 0 /\ seen # Unread
  /\ Cached(<<Imports[at], seen>>)
  /\ picked' = [picked EXCEPT ![Imports[at]] = seen] /\ seen' = Unread
  /\ IF at < Len(Imports) THEN at' = at + 1 /\ UNCHANGED inUse
     ELSE at' = 0 /\ inUse' = picked'
  /\ UNCHANGED <<others, fetching, reloads, history, events>>

(* The binary was replaced: exec ends every thread where it is, and the    *)
(* new process loads the layout.                                           *)
Restart ==
  /\ Event /\ at = 0
  /\ thread' = [k \in Key |-> NoFetch] /\ lock' = None
  /\ IF \E k \in Key : thread[k].at = "writing"
     THEN lockfile' = Read /\ torn' = (update.at = "writing") ELSE UNCHANGED disk
  /\ reloads' = 0 /\ at' = 1 /\ seen' = Unread /\ picked' = NoPins /\ inUse' = None
  /\ failed' = FALSE /\ touched' = FALSE
  /\ UNCHANGED <<head, given, cache, update, updated>>

-----------------------------------------------------------------------------
(* A fetch thread.                                                         *)

fetched == <<head, given, loading, update, history, updated>>

AlreadyPresent(k) ==
  /\ thread[k].at = "fetching" /\ k[2] # First /\ Cached(k)
  /\ thread' = [thread EXCEPT ![k].at = "notify"]
  /\ UNCHANGED <<fetched, disk, cache, lock, reloads, events>>

CloneOnly(k) ==
  /\ thread[k].at = "fetching"
  /\ k[2] = First \/ ~Cached(k)
  /\ thread' = [thread EXCEPT ![k].at = "cloned", ![k].holds = head[k[1]]]
  /\ UNCHANGED <<fetched, disk, cache, lock, reloads, events>>

(* A clone is at HEAD until a pinned commit is checked out.                *)
Clone(k) ==
  /\ thread[k].at = "fetching"
  /\ k[2] = First \/ ~Cached(k)
  /\ thread' = [thread EXCEPT ![k].at = "cloned",
                              ![k].holds = IF k[2] \in Commit THEN k[2] ELSE head[k[1]]]
  /\ UNCHANGED <<fetched, disk, cache, lock, reloads, events>>

(* git fails, or the Lockfile to pin in does not parse or open: it is      *)
(* logged, and nobody is woken.                                            *)
FetchFails(k) ==
  /\ Event
  /\ thread[k].at \in {"fetching", "pinning"}
  /\ thread' = [thread EXCEPT ![k].at = "failed"]
  /\ UNCHANGED <<fetched, disk, cache, lock, reloads>>

PinFirst(k) ==
  /\ thread[k].at = "cloned"
  /\ thread' = [thread EXCEPT ![k].at = IF k[2] = First THEN "pinning" ELSE "notify"]
  /\ UNCHANGED <<fetched, disk, cache, lock, reloads, events>>

(* A first fetch is placed by the commit it found, and pinned next.        *)
Place(k) ==
  /\ thread[k].at = "cloned"
  /\ cache' = Placed(IF k[2] = First THEN <<k[1], thread[k].holds>> ELSE k, thread[k].holds)
  /\ thread' = [thread EXCEPT ![k].at = IF k[2] = First THEN "pinning" ELSE "notify"]
  /\ UNCHANGED <<fetched, disk, lock, reloads, events>>

ReadToPinUnlocked(k) ==
  /\ thread[k].at = "pinning" /\ lock' = k
  /\ thread' = [thread EXCEPT ![k].at = "write",
                              ![k].copy = [Read EXCEPT ![k[1]] = thread[k].holds]]
  /\ UNCHANGED <<fetched, disk, cache, reloads, events>>

(* record_new_pin, under lockfile_writes: read, change, truncate, write.   *)
ReadToPin(k) ==
  /\ thread[k].at = "pinning" /\ lock = None /\ lock' = k
  /\ thread' = [thread EXCEPT ![k].at = "write",
                              ![k].copy = [Read EXCEPT ![k[1]] = thread[k].holds]]
  /\ UNCHANGED <<fetched, disk, cache, reloads, events>>

Truncate(k) ==
  /\ thread[k].at = "write"
  /\ torn' = TRUE /\ thread' = [thread EXCEPT ![k].at = "writing"]
  /\ UNCHANGED <<fetched, lockfile, cache, lock, reloads, events>>

Write(k) ==
  /\ thread[k].at = "writing"
  /\ lockfile' = thread[k].copy /\ torn' = FALSE /\ lock' = None
  /\ thread' = [thread EXCEPT ![k].at = "notify", ![k].copy = None]
  /\ UNCHANGED <<fetched, cache, reloads, events>>

NotifyNobody(k) ==
  /\ thread[k].at = "notify"
  /\ thread' = [thread EXCEPT ![k].at = "done"]
  /\ UNCHANGED <<fetched, disk, cache, lock, reloads, events>>

Notify(k) ==
  /\ thread[k].at = "notify" /\ reloads' = reloads + 1
  /\ thread' = [thread EXCEPT ![k].at = "done"]
  /\ UNCHANGED <<fetched, disk, cache, lock, events>>

(* in_flight.finish: from here on the key may be fetched again.            *)
Finish(k) ==
  /\ thread[k].at \in {"done", "failed"}
  /\ failed' = (failed \/ thread[k].at = "failed")
  /\ thread' = [thread EXCEPT ![k] = NoFetch]
  /\ UNCHANGED <<head, given, loading, update, touched, updated, disk, cache, lock, reloads, events>>

-----------------------------------------------------------------------------
(* Other processes, and people.                                            *)

outside == <<given, fetching, reloads, loading, failed>>

Push(p) ==
  /\ Event /\ head[p] < MaxCommit /\ head' = [head EXCEPT ![p] = @ + 1]
  /\ UNCHANGED <<outside, disk, cache, update, touched, updated>>

(* The Lockfile is edited to put a Package in Development mode.            *)
Develop(p) ==
  /\ Event /\ ~torn /\ lockfile[p] \in Commit
  /\ lockfile' = [lockfile EXCEPT ![p] = Dev] /\ touched' = TRUE
  /\ UNCHANGED <<outside, head, torn, cache, update, updated>>

UpdateLoad ==
  /\ update.at = "none" /\ Event /\ updated' = TRUE
  /\ update' = [at |-> "fetching", copy |-> Read, left |-> {p \in Pkg : Read[p] \in Commit}]
  /\ UNCHANGED <<outside, head, disk, cache, touched>>

(* The pin moves to HEAD, or stays if the fetch fails.                     *)
UpdateFetch(p) ==
  /\ update.at = "fetching" /\ p \in update.left
  /\ \/ /\ cache' = Placed(<<p, head[p]>>, head[p])
        /\ update' = [update EXCEPT !.copy[p] = head[p], !.left = @ \ {p}]
        /\ UNCHANGED events
     \/ /\ Event /\ update' = [update EXCEPT !.left = @ \ {p}] /\ UNCHANGED cache
  /\ UNCHANGED <<outside, head, disk, touched, updated>>

UpdateTruncate ==
  /\ update.at = "fetching" /\ update.left = {}
  /\ torn' = TRUE /\ update' = [update EXCEPT !.at = "writing"]
  /\ UNCHANGED <<outside, head, lockfile, cache, touched, updated, events>>

UpdateWrite ==
  /\ update.at = "writing"
  /\ lockfile' = update.copy /\ torn' = FALSE
  /\ update' = NoUpdate
  /\ UNCHANGED <<outside, head, cache, touched, updated, events>>

-----------------------------------------------------------------------------
Load == StartLoad \/ ReadLockfile \/ ResolveCold \/ ResolveWarm
Run(k) == \/ AlreadyPresent(k) \/ Clone(k) \/ Place(k) \/ ReadToPin(k)
          \/ Truncate(k) \/ Write(k) \/ Notify(k) \/ Finish(k)
Update == (\E p \in Pkg : UpdateFetch(p)) \/ UpdateTruncate \/ UpdateWrite

Next ==
  \/ Load \/ Save \/ Restart
  \/ \E k \in Key : Run(k) \/ FetchFails(k)
  \/ \E p \in Pkg : Push(p) \/ Develop(p)
  \/ UpdateLoad \/ Update

Spec == Init /\ [][Next]_vars

(* Loads and fetches go on; a git that neither fails nor ends, pushes,     *)
(* saves and updates are not owed.                                         *)
FairSpec == /\ Spec /\ WF_vars(Load) /\ WF_vars(Update)
            /\ \A k \in Key : WF_vars(Run(k))

-----------------------------------------------------------------------------
(* Every variable has its type; the lock is held exactly by who writes.    *)
TypeOK ==
  /\ head \in [Pkg -> Commit] /\ given \in Lockfile
  /\ lockfile \in Lockfile /\ torn \in BOOLEAN /\ cache \subseteq Checkout
  /\ thread \in [Key -> Fetch] /\ lock \in Key \cup {None}
  /\ \A k \in Key :
       /\ thread[k].at \in {"cloned", "pinning", "write", "writing"} => thread[k].holds \in Commit
       /\ thread[k].at \in {"write", "writing"} => lock = k /\ thread[k].copy \in Lockfile
       /\ thread[k].at \in {"pinning", "write", "writing"} => k[2] = First
       /\ thread[k].at = "cloned" /\ k[2] \in Commit => thread[k].holds = k[2]
  /\ reloads \in Nat /\ at \in 0..Len(Imports)
  /\ seen \in Ref \cup {None, Unread} /\ picked \in Lockfile /\ inUse \in Lockfile \cup {None}
  /\ update \in [at : {"none", "fetching", "writing"}, copy : Lockfile \cup {None}, left : SUBSET Pkg]
  /\ update.at # "none" => update.copy \in Lockfile
  /\ failed \in BOOLEAN /\ touched \in BOOLEAN
  /\ updated \in BOOLEAN /\ events \in 0..MaxEvents

(* A checkout by a commit holds that commit, and a path has one checkout,  *)
(* whoever placed it and whoever raced: the resolver's test that the path  *)
(* exists is enough (git.rs place, jsx.rs resolve_package).                *)
CacheIsWhole ==
  /\ \A c \in cache : c.path[2] \in Commit => c.holds = c.path[2]
  /\ \A c, d \in cache : c.path = d.path => c = d

(* A pin tauler or pkg update wrote has its checkout: nothing is pinned    *)
(* that was not fetched first (request_first_fetch, update_all).           *)
PinnedIsPlaced ==
  \A p \in Pkg : lockfile[p] \in Commit /\ lockfile[p] # given[p] => Cached(<<p, lockfile[p]>>)

(* The threads of one process never drop a pin from the Lockfile, however  *)
(* their first fetches overlap, as long as none dies in the middle of its  *)
(* write and no other process writes (fetch_manager.rs: lockfile_writes).  *)
ThreadsKeepPins ==
  [][\A p \in Pkg :
       /\ ~updated /\ ~(torn /\ \A k \in Key : thread'[k].at = "none")
       /\ lockfile[p] # None
       => lockfile'[p] # None]_lockfile

(* Once pins are no longer being written, the layout in use imports what   *)
(* the Lockfile pins, unless a fetch failed or someone else wrote the      *)
(* file: no request dropped by the in-flight table leaves a Package        *)
(* unfetched, and every fetch is followed by a load that finds it          *)
(* (spawn_fetch, request_first_fetch).                                     *)
OnPins == /\ inUse # None
          /\ \A i \in DOMAIN Imports : inUse[Imports[i]] = lockfile[Imports[i]]
SettlesOnPins == <>[]~torn => <>[](failed \/ touched \/ updated \/ OnPins)

(* A reload is asked for, or a thread is under way that ends in one, or in *)
(* a failure.                                                              *)
ReloadComing == reloads > 0 \/ \E k \in Key : thread[k].at \notin {"none", "done"}

(* What that rests on, in any state: between two loads the layout in use is*)
(* on its pins or a reload is coming, although a request for a key still in*)
(* flight is dropped, and a Lockfile may be read while it is torn, or move *)
(* in the middle of a load (fetch_manager.rs: try_start, record_new_pin).  *)
NoPinIsMissed == at = 0 => failed \/ touched \/ updated \/ ReloadComing \/ OnPins

(* "Nothing updates a pin on its own - a Package only ever moves when you  *)
(* run this" (docs/src/content/docs/docs/packages.md:34, of pkg update).   *)
(* The code breaks it.                                                     *)
PinsMoveOnRequest ==
  [][\A p \in Pkg : lockfile[p] \in Commit /\ ~updated => lockfile'[p] \in {lockfile[p], Dev, None}]_lockfile
=============================================================================
