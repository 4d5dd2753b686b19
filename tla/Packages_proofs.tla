--------------------------- MODULE Packages_proofs ---------------------------
(* What holds of the cache and the Lockfile for every number of Packages,  *)
(* imports and commits, however loads, fetches, restarts and pkg update    *)
(* overlap.                                                                *)
EXTENDS Packages, TLAPS

USE RefAssumption, BoundsAssumption

(* What is read of the Lockfile, torn or not, is a Lockfile.               *)
LEMMA ReadTyped == ASSUME TypeOK PROVE Read \in Lockfile /\ NoPins \in Lockfile
BY DEF TypeOK, Read, NoPins, Lockfile

(* Each import is a Package.                                               *)
LEMMA ImportTyped == ASSUME NEW i \in 1..Len(Imports) PROVE Imports[i] \in Pkg
BY ImportsAssumption

(* There is an import to resolve.                                          *)
LEMMA ImportsThere == Len(Imports) \in Nat /\ 1 \in 0..Len(Imports)
<1>1. Len(Imports) \in Nat /\ Len(Imports) # 0
  BY ImportsAssumption
<1> QED BY <1>1

(* No thread is at work on two things, and none is lost.                   *)
LEMMA ThreadTyped ==
  ASSUME TypeOK, NEW k \in Key
  PROVE  /\ thread[k] \in Fetch
         /\ thread[k].at \in {"none", "fetching", "cloned", "pinning", "write", "writing", "notify", "done", "failed"}
         /\ thread[k].holds \in Commit \cup {None} /\ thread[k].copy \in Lockfile \cup {None}
BY DEF TypeOK, Fetch

(* What TypeOK says of the threads and the lock.                           *)
Threads ==
  /\ thread \in [Key -> Fetch] /\ lock \in Key \cup {None}
  /\ \A k \in Key :
       /\ thread[k].at \in {"cloned", "pinning", "write", "writing"} => thread[k].holds \in Commit
       /\ thread[k].at \in {"write", "writing"} => lock = k /\ thread[k].copy \in Lockfile
       /\ thread[k].at \in {"pinning", "write", "writing"} => k[2] = First
       /\ thread[k].at = "cloned" /\ k[2] \in Commit => thread[k].holds = k[2]

(* And of the rest.                                                        *)
Rest ==
  /\ head \in [Pkg -> Commit] /\ given \in Lockfile
  /\ lockfile \in Lockfile /\ torn \in BOOLEAN /\ cache \subseteq Checkout
  /\ reloads \in Nat /\ at \in 0..Len(Imports)
  /\ seen \in Ref \cup {None, Unread} /\ picked \in Lockfile /\ inUse \in Lockfile \cup {None}
  /\ update \in [at : {"none", "fetching", "writing"}, copy : Lockfile \cup {None}, left : SUBSET Pkg]
  /\ update.at # "none" => update.copy \in Lockfile
  /\ failed \in BOOLEAN /\ touched \in BOOLEAN
  /\ updated \in BOOLEAN /\ events \in 0..MaxEvents

(* TypeOK is the two together.                                             *)
LEMMA TypeParts == TypeOK <=> Threads /\ Rest
BY DEF TypeOK, Threads, Rest

(* The state starts with its types.                                        *)
LEMMA InitTyped == Init => TypeOK
<1> SUFFICES ASSUME Init PROVE Threads /\ Rest
  BY TypeParts
<1>1. NoPins \in Lockfile /\ [p \in Pkg |-> 1] \in Lockfile
  BY DEF NoPins, Lockfile, Ref, Commit
<1>2. NoFetch \in Fetch
  BY DEF NoFetch, Fetch
<1>3. Threads
  BY <1>2 DEF Init, Threads, NoFetch
<1>4. Rest
  <2>1. at \in 0..Len(Imports) /\ reloads \in Nat /\ events \in 0..MaxEvents
    BY ImportsThere DEF Init
  <2>2. given \in Lockfile /\ lockfile \in Lockfile /\ picked \in Lockfile /\ inUse \in Lockfile \cup {None}
    BY <1>1 DEF Init
  <2>3. head \in [Pkg -> Commit] /\ cache \subseteq Checkout /\ seen \in Ref \cup {None, Unread}
    BY DEF Init, Commit
  <2>4. update = NoUpdate /\ torn \in BOOLEAN /\ failed \in BOOLEAN /\ touched \in BOOLEAN /\ updated \in BOOLEAN
    BY DEF Init
  <2> QED BY <2>1, <2>2, <2>3, <2>4 DEF Rest, NoUpdate
<1> QED BY <1>3, <1>4

(* A load only starts threads.                                             *)
LEMMA LoadTyped == TypeOK /\ Load => TypeOK'
<1> SUFFICES ASSUME TypeOK, Load PROVE Threads' /\ Rest'
  BY DEF TypeOK, Threads, Rest
<1> USE DEF others, disk, fetching, loading, history
<1>0. Threads /\ Rest /\ Read \in Lockfile /\ NoPins \in Lockfile
  BY TypeParts, ReadTyped
<1>1. CASE StartLoad
  <2>1. Threads'
    BY <1>0, <1>1 DEF Threads, StartLoad
  <2>2. Rest'
    <3>1. at' \in 0..Len(Imports)
      BY <1>0, <1>1, ImportsThere DEF Rest, StartLoad
    <3>2. reloads' \in Nat
      BY <1>0, <1>1 DEF Rest, StartLoad
    <3>3. seen' \in Ref \cup {None, Unread} /\ picked' \in Lockfile
      BY <1>0, <1>1 DEF Rest, StartLoad
    <3>4. failed' \in BOOLEAN /\ touched' \in BOOLEAN
      BY <1>0, <1>1 DEF Rest, StartLoad
    <3>5. UNCHANGED <<head, given, lockfile, torn, cache, inUse, update, updated, events>>
      BY <1>0, <1>1 DEF Rest, StartLoad
    <3> QED BY <1>0, <3>1, <3>2, <3>3, <3>4, <3>5 DEF Rest
  <2> QED BY <2>1, <2>2
<1>2. CASE ReadLockfile
  <2>1. Read[Imports[at]] \in Ref \cup {None}
    BY <1>0, <1>2, ImportTyped DEF Rest, ReadLockfile, Lockfile
  <2>2. Threads'
    BY <1>0, <1>2 DEF Threads, ReadLockfile
  <2>3. Rest'
    BY <1>0, <1>2, <2>1 DEF Rest, ReadLockfile
  <2> QED BY <2>2, <2>3
<1>3. CASE ResolveCold
  <2> DEFINE key == <<Imports[at], IF seen = None THEN First ELSE seen>>
  <2>1. key \in Key
    BY <1>0, <1>3, ImportTyped DEF Rest, ResolveCold, Key
  <2>2. [NoFetch EXCEPT !.at = "fetching"] \in Fetch
    BY DEF NoFetch, Fetch
  <2>3. Start(key) /\ UNCHANGED lock
    BY <1>3 DEF ResolveCold
  <2> HIDE DEF key
  <2>4. Threads'
    BY <1>0, <2>1, <2>2, <2>3 DEF Threads, Start, NoFetch
  <2>5. Rest'
    BY <1>0, <1>3 DEF Rest, ResolveCold
  <2> QED BY <2>4, <2>5
<1>4. CASE ResolveWarm
  <2>1. seen \in Ref /\ Imports[at] \in Pkg
    BY <1>0, <1>4, ImportTyped DEF Rest, ResolveWarm, Cached, Checkout
  <2>2. picked' \in Lockfile
    BY <1>0, <1>4, <2>1 DEF Rest, ResolveWarm, Lockfile
  <2>3. Threads'
    BY <1>0, <1>4 DEF Threads, ResolveWarm
  <2>4. Rest'
    <3>1. at' \in 0..Len(Imports)
      BY <1>0, <1>4, ImportsThere DEF Rest, ResolveWarm
    <3>2. seen' = Unread /\ (inUse' = inUse \/ inUse' = picked')
      BY <1>4 DEF ResolveWarm
    <3>3. UNCHANGED <<others, fetching, reloads, history, events>>
      BY <1>4 DEF ResolveWarm
    <3> QED BY <1>0, <2>2, <3>1, <3>2, <3>3 DEF Rest
  <2> QED BY <2>3, <2>4
<1> QED BY <1>1, <1>2, <1>3, <1>4 DEF Load

(* A thread only writes what it may.                                       *)
LEMMA RunTyped == ASSUME NEW k \in Key PROVE TypeOK /\ (Run(k) \/ FetchFails(k)) => TypeOK'
<1> SUFFICES ASSUME TypeOK, Run(k) \/ FetchFails(k) PROVE Threads' /\ Rest'
  BY DEF TypeOK, Threads, Rest
<1> USE DEF fetched, disk, loading, history
<1>0. /\ Threads /\ Rest /\ Read \in Lockfile
      /\ thread[k] \in Fetch /\ k[1] \in Pkg /\ k[2] \in Ref \cup {First} /\ k = <<k[1], k[2]>>
  BY TypeParts, ReadTyped, ThreadTyped DEF Key
<1>1. CASE AlreadyPresent(k) \/ Notify(k) \/ FetchFails(k)
  <2>1. Threads'
    BY <1>0, <1>1 DEF Threads, AlreadyPresent, Notify, FetchFails, Fetch
  <2>2. Rest'
    BY <1>0, <1>1 DEF Rest, AlreadyPresent, Notify, FetchFails, Event
  <2> QED BY <2>1, <2>2
<1>2. CASE Clone(k)
  <2>1. head[k[1]] \in Commit
    BY <1>0 DEF Rest
  <2>2. Threads'
    BY <1>0, <1>2, <2>1 DEF Threads, Clone, Fetch
  <2>3. Rest'
    BY <1>0, <1>2 DEF Rest, Clone
  <2> QED BY <2>2, <2>3
<1>3. CASE Place(k)
  <2>1. Threads'
    BY <1>0, <1>3 DEF Threads, Place, Fetch
  <2>2. thread[k].holds \in Commit
    BY <1>0, <1>3 DEF Threads, Place
  <2> DEFINE path == IF k[2] = First THEN <<k[1], thread[k].holds>> ELSE k
  <2>3. path \in Pkg \X Ref
    BY <1>0, <2>2 DEF Ref
  <2>4. cache' = Placed(path, thread[k].holds)
    BY <1>3 DEF Place
  <2> HIDE DEF path
  <2>5. cache' \subseteq Checkout
    BY <1>0, <2>2, <2>3, <2>4 DEF Rest, Placed, Checkout
  <2>6. Rest'
    BY <1>0, <1>3, <2>5 DEF Rest, Place
  <2> QED BY <2>1, <2>6
<1>4. CASE ReadToPin(k)
  <2>1. [Read EXCEPT ![k[1]] = thread[k].holds] \in Lockfile
    BY <1>0, <1>4 DEF Threads, ReadToPin, Lockfile, Ref
  <2>2. Threads'
    BY <1>0, <1>4, <2>1 DEF Threads, ReadToPin, Fetch
  <2>3. Rest'
    BY <1>0, <1>4 DEF Rest, ReadToPin
  <2> QED BY <2>2, <2>3
<1>5. CASE Truncate(k)
  <2>1. Threads'
    BY <1>0, <1>5 DEF Threads, Truncate, Fetch
  <2>2. Rest'
    BY <1>0, <1>5 DEF Rest, Truncate
  <2> QED BY <2>1, <2>2
<1>6. CASE Write(k)
  <2>1. Threads'
    BY <1>0, <1>6 DEF Threads, Write, Fetch
  <2>2. Rest'
    BY <1>0, <1>6 DEF Rest, Threads, Write
  <2> QED BY <2>1, <2>2
<1>7. CASE Finish(k)
  <2>1. NoFetch \in Fetch
    BY DEF NoFetch, Fetch
  <2>2. Threads'
    BY <1>0, <1>7, <2>1 DEF Threads, Finish, NoFetch
  <2>3. Rest'
    BY <1>0, <1>7 DEF Rest, Finish
  <2> QED BY <2>2, <2>3
<1> QED BY <1>1, <1>2, <1>3, <1>4, <1>5, <1>6, <1>7 DEF Run

(* Nor does anything from outside, or a restart, break a type.             *)
LEMMA OutsideTyped ==
  TypeOK /\ (Save \/ Restart \/ UpdateLoad \/ Update \/ \E p \in Pkg : Push(p) \/ Develop(p)) => TypeOK'
<1> SUFFICES ASSUME TypeOK, Save \/ Restart \/ UpdateLoad \/ Update \/ \E p \in Pkg : Push(p) \/ Develop(p)
             PROVE  Threads' /\ Rest'
  BY DEF TypeOK, Threads, Rest
<1> USE DEF others, outside, disk, fetching, loading, history, Event
<1>0. Threads /\ Rest /\ Read \in Lockfile /\ NoPins \in Lockfile
  BY TypeParts, ReadTyped
<1>1. CASE Save
  BY <1>0, <1>1 DEF Threads, Rest, Save
<1>2. CASE Restart
  <2>1. NoFetch \in Fetch
    BY DEF NoFetch, Fetch
  <2>2. Threads'
    BY <1>2, <2>1 DEF Threads, Restart, NoFetch
  <2>3. Rest'
    <3>1. at' \in 0..Len(Imports) /\ reloads' \in Nat /\ events' \in 0..MaxEvents
      BY <1>0, <1>2, ImportsThere DEF Rest, Restart
    <3>2. lockfile' \in Lockfile /\ torn' \in BOOLEAN
      BY <1>0, <1>2 DEF Rest, Restart
    <3>3. seen' = Unread /\ picked' \in Lockfile /\ inUse' = None /\ failed' = FALSE /\ touched' = FALSE
      BY <1>0, <1>2 DEF Rest, Restart
    <3>4. UNCHANGED <<head, given, cache, update, updated>>
      BY <1>2 DEF Restart
    <3> QED BY <1>0, <3>1, <3>2, <3>3, <3>4 DEF Rest
  <2> QED BY <2>2, <2>3
<1>3. ASSUME NEW p \in Pkg, Push(p) PROVE Threads' /\ Rest'
  <2>1. head' \in [Pkg -> Commit]
    BY <1>0, <1>3 DEF Push, Rest, Commit
  <2>2. Rest'
    BY <1>0, <1>3, <2>1 DEF Rest, Push
  <2>3. Threads'
    BY <1>0, <1>3 DEF Threads, Push
  <2> QED BY <2>2, <2>3
<1>4. ASSUME NEW p \in Pkg, Develop(p) PROVE Threads' /\ Rest'
  <2>1. lockfile' \in Lockfile
    BY <1>0, <1>4 DEF Develop, Rest, Lockfile, Ref
  <2>2. /\ touched' = TRUE /\ events' = events + 1 /\ events < MaxEvents
        /\ UNCHANGED <<head, given, torn, cache, reloads, loading, update, failed, updated>>
    BY <1>4 DEF Develop
  <2>4. Rest'
    BY <1>0, <2>1, <2>2 DEF Rest
  <2>3. Threads'
    BY <1>0, <1>4 DEF Threads, Develop
  <2> QED BY <2>3, <2>4
<1>5. CASE UpdateLoad
  BY <1>0, <1>5 DEF Threads, Rest, UpdateLoad
<1>6. ASSUME NEW p \in Pkg, UpdateFetch(p) PROVE Threads' /\ Rest'
  <2>1. head[p] \in Commit /\ head[p] \in Ref
    BY <1>0, <1>6 DEF Rest, Ref
  <2>2. <<p, head[p]>> \in Pkg \X Ref
    BY <2>1
  <2>3. cache' \subseteq Checkout
    BY <1>0, <1>6, <2>1, <2>2 DEF UpdateFetch, Rest, Placed, Checkout
  <2>4. /\ update' \in [at : {"none", "fetching", "writing"}, copy : Lockfile \cup {None}, left : SUBSET Pkg]
        /\ update'.copy \in Lockfile
    <3> DEFINE left == [update EXCEPT !.left = @ \ {p}]
               moved == [update.copy EXCEPT ![p] = head[p]]
    <3>1. /\ update \in [at : {"none", "fetching", "writing"}, copy : Lockfile \cup {None}, left : SUBSET Pkg]
          /\ update.copy \in Lockfile
      BY <1>0, <1>6 DEF Rest, UpdateFetch
    <3>2. moved \in Lockfile
      BY <2>1, <3>1 DEF Lockfile
    <3>3. update' = left \/ update' = [left EXCEPT !.copy = moved]
      BY <1>6, <3>1 DEF UpdateFetch
    <3> HIDE DEF moved
    <3> QED BY <3>1, <3>2, <3>3
  <2>5. Rest'
    <3>1. UNCHANGED <<outside, head, disk, touched, updated>> /\ events' \in 0..MaxEvents
      BY <1>0, <1>6 DEF Rest, UpdateFetch
    <3> QED BY <1>0, <2>3, <2>4, <3>1 DEF Rest
  <2>6. Threads'
    BY <1>0, <1>6 DEF Threads, UpdateFetch
  <2> QED BY <2>5, <2>6
<1>7. CASE UpdateTruncate \/ UpdateWrite
  <2>1. Rest'
    <3>1. CASE UpdateTruncate
      BY <1>0, <3>1 DEF Rest, UpdateTruncate
    <3>2. CASE UpdateWrite
      BY <1>0, <3>2 DEF Rest, UpdateWrite, NoUpdate
    <3> QED BY <1>7, <3>1, <3>2
  <2>2. Threads'
    BY <1>0, <1>7 DEF Threads, UpdateTruncate, UpdateWrite
  <2> QED BY <2>1, <2>2
<1> QED BY <1>1, <1>2, <1>3, <1>4, <1>5, <1>6, <1>7 DEF Update

(* No step breaks a type.                                                  *)
LEMMA StepTyped == TypeOK /\ [Next]_vars => TypeOK'
<1> SUFFICES ASSUME TypeOK, [Next]_vars PROVE TypeOK'
  OBVIOUS
<1>1. CASE UNCHANGED vars
  BY <1>1 DEF TypeOK, vars, disk, fetching, loading, history
<1> QED BY <1>1, LoadTyped, RunTyped, OutsideTyped DEF Next

(* Every variable keeps its type, and whoever is writing the Lockfile      *)
(* holds the lock of the process (fetch_manager.rs: lockfile_writes).      *)
THEOREM TypesHold == Spec => []TypeOK
BY InitTyped, StepTyped, PTL DEF Spec

-----------------------------------------------------------------------------
(* The cache only grows, by whole checkouts; the first Lockfile is history.*)

(* A checkout that is placed is whole.                                     *)
LEMMA PlacedWhole ==
  ASSUME TypeOK, CacheIsWhole, NEW p \in Pkg, NEW ref \in Ref, NEW commit \in Commit,
         ref \in Commit => commit = ref, cache' = Placed(<<p, ref>>, commit)
  PROVE  CacheIsWhole' /\ cache \subseteq cache' /\ (\E c \in cache' : c.path = <<p, ref>>)
<1>1. CASE Cached(<<p, ref>>)
  BY <1>1 DEF Placed, CacheIsWhole, Cached
<1>2. CASE ~Cached(<<p, ref>>)
  <2> DEFINE new == [path |-> <<p, ref>>, holds |-> commit]
  <2>1. cache' = cache \cup {new} /\ new.path = <<p, ref>> /\ new.holds = commit
    BY <1>2 DEF Placed
  <2>2. new.path[2] = ref
    BY <2>1
  <2>3. \A c \in cache : c.path # new.path
    BY <1>2, <2>1 DEF Cached
  <2> HIDE DEF new
  <2>4. \A c \in cache' : c.path[2] \in Commit => c.holds = c.path[2]
    BY <2>1, <2>2 DEF CacheIsWhole
  <2>5. \A c, d \in cache' : c.path = d.path => c = d
    BY <2>1, <2>3 DEF CacheIsWhole
  <2> QED BY <2>1, <2>4, <2>5 DEF CacheIsWhole, Cached
<1> QED BY <1>1, <1>2

(* A thread places what it cloned.                                         *)
LEMMA PlaceWhole ==
  ASSUME TypeOK, CacheIsWhole, NEW k \in Key, Place(k)
  PROVE  /\ CacheIsWhole' /\ cache \subseteq cache'
         /\ k[2] = First => \E c \in cache' : c.path = <<k[1], thread[k].holds>>
<1>1. thread[k].holds \in Commit /\ (k[2] \in Commit => thread[k].holds = k[2])
  BY DEF Place, TypeOK
<1>2. k[1] \in Pkg /\ k[2] \in Ref \cup {First} /\ k = <<k[1], k[2]>>
  BY DEF Key
<1>3. CASE k[2] = First
  <2>1. cache' = Placed(<<k[1], thread[k].holds>>, thread[k].holds) /\ thread[k].holds \in Ref
    BY <1>1, <1>3 DEF Place, Ref
  <2> QED BY <1>1, <1>2, <2>1, PlacedWhole
<1>4. CASE k[2] # First
  <2>1. cache' = Placed(<<k[1], k[2]>>, thread[k].holds) /\ k[2] \in Ref
    BY <1>2, <1>4 DEF Place
  <2> QED BY <1>1, <1>2, <1>4, <2>1, PlacedWhole
<1> QED BY <1>3, <1>4

(* So does pkg update, if the fetch came to something.                     *)
LEMMA UpdateWhole ==
  ASSUME TypeOK, CacheIsWhole, NEW p \in Pkg, UpdateFetch(p)
  PROVE  /\ CacheIsWhole' /\ cache \subseteq cache'
         /\ \/ update'.copy = update.copy
            \/ /\ update'.copy = [update.copy EXCEPT ![p] = head[p]]
               /\ \E c \in cache' : c.path = <<p, head[p]>>
<1>1. head[p] \in Commit /\ head[p] \in Ref /\ update \in [at : {"none", "fetching", "writing"}, copy : Lockfile \cup {None}, left : SUBSET Pkg]
  BY DEF TypeOK, Ref
<1>2. CASE cache' = Placed(<<p, head[p]>>, head[p]) /\ update' = [update EXCEPT !.copy[p] = head[p], !.left = @ \ {p}]
  <2>1. update'.copy = [update.copy EXCEPT ![p] = head[p]]
    BY <1>1, <1>2
  <2> QED BY <1>1, <1>2, <2>1, PlacedWhole
<1>3. CASE update' = [update EXCEPT !.left = @ \ {p}] /\ UNCHANGED cache
  <2>1. update'.copy = update.copy
    BY <1>1, <1>3
  <2>2. CacheIsWhole' /\ cache \subseteq cache'
    BY <1>3 DEF CacheIsWhole
  <2> QED BY <2>1, <2>2
<1> QED BY <1>2, <1>3 DEF UpdateFetch

(* Nothing else touches the cache, or forgets where the Lockfile began.    *)
LEMMA StepWhole == TypeOK /\ CacheIsWhole /\ [Next]_vars => CacheIsWhole' /\ cache \subseteq cache' /\ given' = given
<1> SUFFICES ASSUME TypeOK, CacheIsWhole, [Next]_vars
             PROVE  CacheIsWhole' /\ cache \subseteq cache' /\ given' = given
  OBVIOUS
<1>1. ASSUME NEW k \in Key, Place(k) PROVE CacheIsWhole' /\ cache \subseteq cache' /\ given' = given
  BY <1>1, PlaceWhole DEF Place, fetched
<1>2. ASSUME NEW p \in Pkg, UpdateFetch(p) PROVE CacheIsWhole' /\ cache \subseteq cache' /\ given' = given
  BY <1>2, UpdateWhole DEF UpdateFetch, outside
<1>3. CASE UNCHANGED <<cache, given>>
  BY <1>3 DEF CacheIsWhole
<1>4. CASE Load \/ Save \/ Restart \/ UpdateLoad \/ UpdateTruncate \/ UpdateWrite \/ UNCHANGED vars
  BY <1>3, <1>4 DEF Load, StartLoad, ReadLockfile, ResolveCold, ResolveWarm, Save, Restart, UpdateLoad,
       UpdateTruncate, UpdateWrite, vars, others, outside
<1>5. ASSUME NEW p \in Pkg, Push(p) \/ Develop(p) PROVE UNCHANGED <<cache, given>>
  BY <1>5 DEF Push, Develop, outside
<1>6. ASSUME NEW k \in Key, Run(k) \/ FetchFails(k), ~Place(k) PROVE UNCHANGED <<cache, given>>
  BY <1>6 DEF Run, AlreadyPresent, Clone, ReadToPin, Truncate, Write, Notify, Finish, FetchFails, fetched
<1> QED BY <1>1, <1>2, <1>3, <1>4, <1>5, <1>6 DEF Next, Update

(* Whatever is cached by a commit holds that commit, and each path has one *)
(* checkout, however many threads and processes fetched it.                *)
THEOREM CacheStaysWhole == Spec => []CacheIsWhole
<1>1. Init => CacheIsWhole
  BY DEF Init, CacheIsWhole
<1> QED BY <1>1, StepWhole, TypesHold, PTL DEF Spec

-----------------------------------------------------------------------------
(* What is about to be pinned is in the cache.                             *)

Backed(pins) == \A p \in Pkg : pins[p] \in Commit /\ pins[p] # given[p] => Cached(<<p, pins[p]>>)

(* So are all pins somebody has read, and is to write back: a Lockfile is  *)
(* read before it is written, and the cache only grows.                    *)
Origin ==
  /\ Backed(lockfile)
  /\ \A k \in Key :
       /\ thread[k].at = "pinning" => Cached(<<k[1], thread[k].holds>>)
       /\ thread[k].at \in {"write", "writing"} => Backed(thread[k].copy)
  /\ update.at # "none" => Backed(update.copy)

(* What is read is backed, torn or not.                                    *)
LEMMA ReadBacked == Backed(lockfile) => Backed(Read)
<1>1. None \notin Commit
  BY DEF Ref
<1> QED BY <1>1 DEF Backed, Read, NoPins

(* A thread's step.                                                        *)
LEMMA RunBacked ==
  ASSUME TypeOK, CacheIsWhole, Origin, NEW k \in Key, Run(k) \/ FetchFails(k)
  PROVE  Origin'
<1> USE DEF fetched, disk
<1>0. cache \subseteq cache' /\ given' = given /\ UNCHANGED update
  <2>1. [Next]_vars
    BY DEF Next
  <2>2. UNCHANGED update
    BY DEF Run, AlreadyPresent, Clone, Place, ReadToPin, Truncate, Write, Notify, Finish, FetchFails
  <2> QED BY <2>1, <2>2, StepWhole
<1>1. /\ thread \in [Key -> Fetch] /\ thread[k].holds \in Commit \cup {None}
      /\ Read \in Lockfile /\ k[1] \in Pkg
  BY ReadTyped, ThreadTyped DEF TypeOK, Key
<1>2. ASSUME NEW other \in Key, other # k PROVE thread'[other] = thread[other]
  BY <1>1, <1>2 DEF Run, AlreadyPresent, Clone, Place, ReadToPin, Truncate, Write, Notify, Finish, FetchFails
<1>3. (update.at # "none" => Backed(update.copy))'
  BY <1>0 DEF Origin, Backed, Cached
<1>4. Backed(lockfile)'
  <2>1. CASE Write(k)
    <3>1. lockfile' = thread[k].copy /\ Backed(thread[k].copy)
      BY <2>1 DEF Write, Origin, TypeOK
    <3> QED BY <1>0, <3>1 DEF Backed, Cached
  <2>2. CASE ~Write(k)
    <3>1. UNCHANGED lockfile
      BY <2>2 DEF Run, AlreadyPresent, Clone, Place, ReadToPin, Truncate, Notify, Finish, FetchFails
    <3> QED BY <1>0, <3>1 DEF Origin, Backed, Cached
  <2> QED BY <2>1, <2>2
<1>5. (thread[k].at = "pinning" => Cached(<<k[1], thread[k].holds>>))'
  <2>1. CASE Place(k)
    <3>1. thread'[k].at = "pinning" => k[2] = First
      BY <1>1, <2>1 DEF Place
    <3>2. thread'[k].holds = thread[k].holds
      BY <1>1, <2>1 DEF Place, Fetch
    <3>3. k[2] = First => \E c \in cache' : c.path = <<k[1], thread[k].holds>>
      BY <2>1, PlaceWhole
    <3> QED BY <3>1, <3>2, <3>3 DEF Cached
  <2>2. CASE ~Place(k)
    <3>1. thread'[k].at # "pinning"
      BY <1>1, <2>2 DEF Run, AlreadyPresent, Clone, ReadToPin, Truncate, Write, Notify, Finish, FetchFails, Fetch, NoFetch
    <3> QED BY <3>1
  <2> QED BY <2>1, <2>2
<1>6. (thread[k].at \in {"write", "writing"} => Backed(thread[k].copy))'
  <2>1. CASE ReadToPin(k)
    <3> DEFINE pins == [Read EXCEPT ![k[1]] = thread[k].holds]
    <3>1. thread'[k].copy = pins
      BY <1>1, <2>1 DEF ReadToPin, Fetch
    <3>2. Cached(<<k[1], thread[k].holds>>) /\ Backed(Read)
      BY <2>1, ReadBacked DEF ReadToPin, Origin
    <3>3. \A p \in Pkg : pins[p] = IF p = k[1] THEN thread[k].holds ELSE Read[p]
      BY <1>1 DEF Lockfile
    <3> HIDE DEF pins
    <3>4. Backed(pins)
      BY <3>2, <3>3 DEF Backed
    <3> QED BY <1>0, <3>1, <3>4 DEF Backed, Cached
  <2>2. CASE Truncate(k)
    <3>1. thread'[k].copy = thread[k].copy /\ Backed(thread[k].copy)
      BY <1>1, <2>2 DEF Truncate, Origin, Fetch
    <3> QED BY <1>0, <3>1 DEF Backed, Cached
  <2>3. CASE ~ReadToPin(k) /\ ~Truncate(k)
    <3>1. thread'[k].at \notin {"write", "writing"}
      BY <1>1, <2>3 DEF Run, AlreadyPresent, Clone, Place, Write, Notify, Finish, FetchFails, Fetch, NoFetch
    <3> QED BY <3>1
  <2> QED BY <2>1, <2>2, <2>3
<1>7. ASSUME NEW other \in Key, other # k
      PROVE  /\ (thread[other].at = "pinning" => Cached(<<other[1], thread[other].holds>>))'
             /\ (thread[other].at \in {"write", "writing"} => Backed(thread[other].copy))'
  <2>1. thread'[other] = thread[other]
    BY <1>2, <1>7
  <2>2. (thread[other].at = "pinning" => Cached(<<other[1], thread[other].holds>>))'
    BY <1>0, <2>1 DEF Origin, Cached
  <2>3. ASSUME thread'[other].at \in {"write", "writing"} PROVE Backed(thread[other].copy)'
    <3>1. Backed(thread[other].copy)
      BY <2>1, <2>3 DEF Origin
    <3> QED BY <1>0, <2>1, <3>1 DEF Backed, Cached
  <2> QED BY <2>2, <2>3
<1> QED BY <1>3, <1>4, <1>5, <1>6, <1>7 DEF Origin

(* Where no thread advances, a thread is as it was, or has just begun.     *)
LEMMA RestBacked ==
  ASSUME TypeOK, CacheIsWhole, Origin, [Next]_vars,
         \A k \in Key : thread'[k] = thread[k] \/ thread'[k].at \in {"none", "fetching"},
         lockfile' = lockfile \/ Backed(lockfile'),
         update'.at # "none" => Backed(update'.copy) \/ \E p \in Pkg : UpdateFetch(p)
  PROVE  Origin'
<1>0. cache \subseteq cache' /\ given' = given
  BY StepWhole
<1>2. Backed(lockfile)'
  <2>1. Backed(lockfile')
    BY DEF Origin
  <2> QED BY <1>0, <2>1 DEF Backed, Cached
<1>3. ASSUME NEW k \in Key
      PROVE  /\ (thread[k].at = "pinning" => Cached(<<k[1], thread[k].holds>>))'
             /\ (thread[k].at \in {"write", "writing"} => Backed(thread[k].copy))'
  <2>1. CASE thread'[k] = thread[k]
    <3>1. (thread[k].at = "pinning" => Cached(<<k[1], thread[k].holds>>))'
      BY <1>0, <2>1 DEF Origin, Cached
    <3>2. ASSUME thread'[k].at \in {"write", "writing"} PROVE Backed(thread[k].copy)'
      <4>1. Backed(thread[k].copy)
        BY <2>1, <3>2 DEF Origin
      <4> QED BY <1>0, <2>1, <4>1 DEF Backed, Cached
    <3> QED BY <3>1, <3>2
  <2>2. CASE thread'[k].at \in {"none", "fetching"}
    BY <2>2
  <2> QED BY <2>1, <2>2
<1>4. (update.at # "none" => Backed(update.copy))'
  <2>1. CASE update'.at # "none" /\ Backed(update'.copy)
    BY <1>0, <2>1 DEF Backed, Cached
  <2>2. ASSUME NEW p \in Pkg, UpdateFetch(p) PROVE Backed(update.copy)'
    <3>1. Backed(update.copy) /\ update.copy \in Lockfile
      BY <2>2 DEF UpdateFetch, Origin, TypeOK
    <3>2. CASE update'.copy = update.copy
      BY <1>0, <3>1, <3>2 DEF Backed, Cached
    <3>3. CASE /\ update'.copy = [update.copy EXCEPT ![p] = head[p]]
               /\ \E c \in cache' : c.path = <<p, head[p]>>
      <4>1. update'.copy[p] = head[p] /\ \A q \in Pkg \ {p} : update'.copy[q] = update.copy[q]
        BY <3>1, <3>3 DEF Lockfile
      <4>2. \A q \in Pkg \ {p} : update'.copy[q] \in Commit /\ update'.copy[q] # given'[q]
                                   => \E c \in cache' : c.path = <<q, update'.copy[q]>>
        BY <1>0, <3>1, <4>1 DEF Backed, Cached
      <4> QED BY <3>3, <4>1, <4>2 DEF Backed, Cached
    <3> QED BY <2>2, <3>2, <3>3, UpdateWhole
  <2> QED BY <2>1, <2>2
<1> QED BY <1>2, <1>3, <1>4 DEF Origin

(* Where no thread advances, what is written was read.                     *)
LEMMA StepBacked == TypeOK /\ CacheIsWhole /\ Origin /\ [Next]_vars => Origin'
<1> SUFFICES ASSUME TypeOK, CacheIsWhole, Origin, [Next]_vars PROVE Origin'
  OBVIOUS
<1>1. ASSUME NEW k \in Key, Run(k) \/ FetchFails(k) PROVE Origin'
  BY <1>1, RunBacked
<1>2. Backed(Read) /\ Backed(lockfile) /\ (update.at # "none" => Backed(update.copy))
  BY ReadBacked DEF Origin
<1>3. thread \in [Key -> Fetch] /\ lockfile \in Lockfile
  BY DEF TypeOK
<1> USE DEF others, outside, disk, fetching, loading, history
<1>4. CASE Load \/ Save \/ UNCHANGED vars
  <2>1. ASSUME NEW k \in Key PROVE thread'[k] = thread[k] \/ thread'[k].at \in {"none", "fetching"}
    BY <1>3, <1>4 DEF Load, Save, StartLoad, ReadLockfile, ResolveCold, ResolveWarm, Start, NoFetch, vars
  <2>2. UNCHANGED <<lockfile, update>>
    BY <1>4 DEF Load, Save, StartLoad, ReadLockfile, ResolveCold, ResolveWarm, vars
  <2> QED BY <1>2, <2>1, <2>2, RestBacked
<1>5. CASE Restart
  <2>1. ASSUME NEW k \in Key PROVE thread'[k].at = "none"
    BY <1>5 DEF Restart, NoFetch
  <2>2. (lockfile' = lockfile \/ lockfile' = Read) /\ UNCHANGED update
    BY <1>5 DEF Restart
  <2> QED BY <1>2, <2>1, <2>2, RestBacked
<1>6. ASSUME NEW p \in Pkg, Push(p) PROVE Origin'
  BY <1>2, <1>6, RestBacked DEF Push
<1>7. ASSUME NEW p \in Pkg, Develop(p) PROVE Origin'
  <2>1. lockfile' = [lockfile EXCEPT ![p] = Dev] /\ UNCHANGED <<thread, update>>
    BY <1>7 DEF Develop
  <2>2. \A q \in Pkg : lockfile'[q] \in Commit => lockfile'[q] = lockfile[q]
    BY <1>3, <2>1, RefAssumption DEF Lockfile
  <2>3. Backed(lockfile')
    BY <1>2, <2>2 DEF Backed
  <2> QED BY <1>2, <2>1, <2>3, RestBacked
<1>8. CASE UpdateLoad \/ UpdateTruncate \/ UpdateWrite
  <2>1. UNCHANGED thread
    BY <1>8 DEF UpdateLoad, UpdateTruncate, UpdateWrite
  <2>2. lockfile' = lockfile \/ Backed(lockfile')
    BY <1>2, <1>8 DEF UpdateLoad, UpdateTruncate, UpdateWrite
  <2>3. update'.at # "none" => Backed(update'.copy)
    <3>1. CASE UpdateLoad
      BY <1>2, <3>1 DEF UpdateLoad
    <3>2. CASE UpdateTruncate
      <4>1. update'.copy = update.copy /\ update.at # "none"
        BY <3>2 DEF UpdateTruncate, TypeOK
      <4> QED BY <1>2, <4>1
    <3>3. CASE UpdateWrite
      BY <3>3 DEF UpdateWrite, NoUpdate
    <3> QED BY <1>8, <3>1, <3>2, <3>3
  <2> QED BY <2>1, <2>2, <2>3, RestBacked
<1>9. ASSUME NEW p \in Pkg, UpdateFetch(p) PROVE Origin'
  BY <1>9, RestBacked DEF UpdateFetch
<1> QED BY <1>1, <1>4, <1>5, <1>6, <1>7, <1>8, <1>9 DEF Next, Update

(* Nothing is pinned that was not fetched first: a crash, a restart or a   *)
(* second process in the middle of it leaves no pin without its checkout.  *)
THEOREM PinsArePlaced == Spec => []PinnedIsPlaced
<1>1. Init => CacheIsWhole /\ Origin
  BY DEF Init, CacheIsWhole, Origin, Backed, NoFetch, NoUpdate
<1>2. Origin => PinnedIsPlaced
  BY DEF Origin, Backed, PinnedIsPlaced
<1> QED BY <1>1, <1>2, StepBacked, TypesHold, CacheStaysWhole, PTL DEF Spec

-----------------------------------------------------------------------------
(* While pkg update has not been run: the file is only torn under a thread *)
(* that writes it, and whoever writes it knows every pin in it.            *)
Keeping ==
  ~updated =>
    /\ update.at = "none"
    /\ torn => \E k \in Key : thread[k].at = "writing"
    /\ \A k \in Key : thread[k].at \in {"write", "writing"} =>
         \A p \in Pkg : lockfile[p] # None => thread[k].copy[p] # None

(* A thread's step keeps that, and every pin.                              *)
LEMMA RunKeeps ==
  ASSUME TypeOK, Keeping, ~updated, NEW k \in Key, Run(k) \/ FetchFails(k)
  PROVE  Keeping' /\ \A p \in Pkg : lockfile[p] # None => lockfile'[p] # None
<1> USE DEF fetched, disk
<1>1. /\ thread \in [Key -> Fetch] /\ thread[k].holds \in Commit \cup {None}
      /\ lockfile \in Lockfile /\ k[1] \in Pkg
  BY ThreadTyped DEF TypeOK, Key
<1>2. ASSUME NEW other \in Key, other # k PROVE thread'[other] = thread[other]
  BY <1>1, <1>2 DEF Run, AlreadyPresent, Clone, Place, ReadToPin, Truncate, Write, Notify, Finish, FetchFails
<1>3. UNCHANGED <<update, updated>> /\ update.at = "none"
  BY DEF Run, AlreadyPresent, Clone, Place, ReadToPin, Truncate, Write, Notify, Finish, FetchFails, Keeping
<1>4. \A other \in Key : thread[other].at \in {"write", "writing"} => lock = other
  BY DEF TypeOK
<1>5. CASE ReadToPin(k)
  <2> DEFINE pins == [Read EXCEPT ![k[1]] = thread[k].holds]
  <2>1. ~torn /\ Read = lockfile
    BY <1>4, <1>5, RefAssumption DEF ReadToPin, Keeping, Read
  <2>2. thread'[k].copy = pins /\ thread'[k].at = "write" /\ UNCHANGED <<lockfile, torn>>
    BY <1>1, <1>5 DEF ReadToPin, Fetch
  <2>3. thread[k].holds \in Commit
    BY <1>5 DEF ReadToPin, TypeOK
  <2>4. \A p \in Pkg : lockfile[p] # None => pins[p] # None
    BY <1>1, <2>1, <2>3, RefAssumption DEF Lockfile, Ref
  <2>5. \A other \in Key : other # k => thread[other].at \notin {"write", "writing"}
    BY <1>4, <1>5, RefAssumption DEF ReadToPin
  <2> HIDE DEF pins
  <2> QED BY <1>2, <1>3, <2>1, <2>2, <2>4, <2>5 DEF Keeping
<1>6. CASE Truncate(k)
  <2>1. thread'[k].at = "writing" /\ thread'[k].copy = thread[k].copy /\ lockfile' = lockfile
    BY <1>1, <1>6 DEF Truncate, Fetch
  <2>2. thread[k].at = "write"
    BY <1>6 DEF Truncate
  <2> QED BY <1>2, <1>3, <2>1, <2>2 DEF Keeping
<1>7. CASE Write(k)
  <2>1. lockfile' = thread[k].copy /\ torn' = FALSE /\ thread'[k].at = "notify"
    BY <1>1, <1>7 DEF Write, Fetch
  <2>2. thread[k].at = "writing" /\ lock = k
    BY <1>4, <1>7 DEF Write
  <2>3. \A other \in Key : other # k => thread[other].at \notin {"write", "writing"}
    BY <1>4, <2>2
  <2> QED BY <1>2, <1>3, <2>1, <2>2, <2>3 DEF Keeping
<1>8. CASE ~ReadToPin(k) /\ ~Truncate(k) /\ ~Write(k)
  <2>1. UNCHANGED <<lockfile, torn>>
    BY <1>8 DEF Run, AlreadyPresent, Clone, Place, Notify, Finish, FetchFails
  <2>2. thread[k].at # "writing" /\ thread'[k].at \notin {"write", "writing"}
    BY <1>1, <1>8 DEF Run, AlreadyPresent, Clone, Place, Notify, Finish, FetchFails, Fetch, NoFetch
  <2> QED BY <1>2, <1>3, <2>1, <2>2 DEF Keeping
<1> QED BY <1>5, <1>6, <1>7, <1>8

(* So does every other step, unless a restart ends a thread in its write.  *)
LEMMA StepKeeps ==
  ASSUME TypeOK, Keeping, [Next]_vars
  PROVE  /\ Keeping'
         /\ ~updated /\ ~(torn /\ \A k \in Key : thread'[k].at = "none") =>
              \A p \in Pkg : lockfile[p] # None => lockfile'[p] # None
<1> USE DEF others, outside, disk, fetching, loading, history
<1>1. thread \in [Key -> Fetch] /\ lockfile \in Lockfile /\ updated \in BOOLEAN
  BY DEF TypeOK
<1>2. CASE updated
  <2>1. updated'
    BY <1>1, <1>2 DEF Next, Load, StartLoad, ReadLockfile, ResolveCold, ResolveWarm, Save, Restart, Run,
      AlreadyPresent, Clone, Place, ReadToPin, Truncate, Write, Notify, Finish, FetchFails, fetched,
      Push, Develop, UpdateLoad, Update, UpdateFetch, UpdateTruncate, UpdateWrite, vars
  <2> QED BY <1>2, <2>1 DEF Keeping
<1> SUFFICES ASSUME ~updated
             PROVE  /\ Keeping'
                    /\ ~(torn /\ \A k \in Key : thread'[k].at = "none") =>
                         \A p \in Pkg : lockfile[p] # None => lockfile'[p] # None
  BY <1>2
<1>3. ASSUME NEW k \in Key, Run(k) \/ FetchFails(k)
      PROVE  Keeping' /\ \A p \in Pkg : lockfile[p] # None => lockfile'[p] # None
  BY <1>3, RunKeeps
<1>4. CASE Load \/ Save \/ UNCHANGED vars
  <2>1. UNCHANGED <<lockfile, torn, update, updated>>
    BY <1>4 DEF Load, Save, StartLoad, ReadLockfile, ResolveCold, ResolveWarm, vars
  <2>2. ASSUME NEW k \in Key
        PROVE  thread'[k] = thread[k] \/ (thread[k].at = "none" /\ thread'[k].at = "fetching")
    BY <1>1, <1>4 DEF Load, Save, StartLoad, ReadLockfile, ResolveCold, ResolveWarm, Start, NoFetch, vars
  <2> QED BY <2>1, <2>2 DEF Keeping
<1>5. CASE Restart
  <2>1. \A k \in Key : thread'[k].at = "none"
    BY <1>5 DEF Restart, NoFetch
  <2>2. UNCHANGED <<update, updated>> /\ update.at = "none"
    BY <1>5 DEF Restart, Keeping
  <2>3. ~torn' /\ (~torn => lockfile' = lockfile)
    BY <1>5, <2>2 DEF Restart, Keeping, Read, TypeOK
  <2> QED BY <2>1, <2>2, <2>3 DEF Keeping
<1>6. ASSUME NEW p \in Pkg, Push(p) \/ Develop(p)
      PROVE  Keeping' /\ \A q \in Pkg : lockfile[q] # None => lockfile'[q] # None
  <2>1. UNCHANGED <<thread, torn, update, updated>>
    BY <1>6 DEF Push, Develop
  <2>2. \A q \in Pkg : lockfile'[q] = None <=> lockfile[q] = None
    <3>1. CASE Push(p)
      BY <3>1 DEF Push
    <3>2. CASE Develop(p)
      <4>1. lockfile' = [lockfile EXCEPT ![p] = Dev] /\ lockfile[p] # None /\ Dev # None
        BY <3>2, RefAssumption DEF Develop, Ref
      <4> QED BY <1>1, <4>1 DEF Lockfile
    <3> QED BY <1>6, <3>1, <3>2
  <2> QED BY <2>1, <2>2 DEF Keeping
<1>7. CASE UpdateLoad
  BY <1>7 DEF UpdateLoad, Keeping
<1>8. ~Update
  BY DEF Update, UpdateFetch, UpdateTruncate, UpdateWrite, Keeping
<1> QED BY <1>3, <1>4, <1>5, <1>6, <1>7, <1>8 DEF Next

(* No thread drops a pin that it has not read, whichever first fetches     *)
(* overlap.                                                                *)
THEOREM PinsAreKept == Spec => ThreadsKeepPins
<1>1. Init => Keeping
  BY DEF Init, Keeping, NoFetch, NoUpdate
<1>2. TypeOK /\ Keeping /\ [Next]_vars => Keeping'
  BY StepKeeps
<1>3. TypeOK /\ Keeping /\ [Next]_vars =>
        [\A p \in Pkg :
           /\ ~updated /\ ~(torn /\ \A k \in Key : thread'[k].at = "none")
           /\ lockfile[p] # None
           => lockfile'[p] # None]_lockfile
  BY StepKeeps
<1> QED BY <1>1, <1>2, <1>3, TypesHold, PTL DEF Spec, ThreadsKeepPins

-----------------------------------------------------------------------------
(* Why a layout may fall behind its pins.                                  *)
Behind == failed \/ touched \/ updated \/ ReloadComing

(* A thread that has placed or pinned what it was for has done so for good,*)
(* so that a request its key still blocks is not needed; what it writes has*)
(* its pin.  What a load has read, picked or installed is what the Lockfile*)
(* says, unless something is coming.                                       *)
Done ==
  \A k \in Key : thread[k].at \in {"notify", "done"} =>
    IF k[2] = First THEN updated \/ lockfile[k[1]] # None ELSE Cached(k)
Pinning ==
  \A k \in Key : thread[k].at \in {"write", "writing"} => thread[k].copy[k[1]] # None
Followed ==
  Behind \/
    /\ at > 0 /\ seen # Unread => seen = lockfile[Imports[at]]
    /\ at > 0 => \A i \in 1..(at - 1) : picked[Imports[i]] = lockfile[Imports[i]]
    /\ at = 0 => OnPins

(* The start of a fetch is something that is coming.                       *)
LEMMA StartsComing ==
  ASSUME TypeOK, NEW k \in Key, thread[k].at # "done", Start(k)
  PROVE  \E other \in Key : thread'[other].at \notin {"none", "done"}
<1>1. thread'[k].at \notin {"none", "done"}
  BY DEF TypeOK, Start, NoFetch
<1> QED BY <1>1

(* The thread that tears the Lockfile is to ask for a reload.              *)
LEMMA TornComes == ASSUME Keeping, torn PROVE Behind
BY DEF Keeping, Behind, ReloadComing

(* A load reads and picks what the Lockfile says, or something is coming.  *)
LEMMA LoadFollows ==
  ASSUME TypeOK, Keeping, Done, Pinning, Followed, Load \/ Save
  PROVE  Done' /\ Pinning' /\ Followed'
<1> USE DEF others, disk, fetching, loading, history
<1>0. /\ thread \in [Key -> Fetch] /\ reloads \in Nat /\ at \in 0..Len(Imports) /\ Len(Imports) \in Nat
      /\ picked \in Lockfile
  BY ImportsThere DEF TypeOK
<1>1. Done' /\ Pinning'
  <2>1. UNCHANGED <<lockfile, cache, updated>>
    BY DEF Load, Save, StartLoad, ReadLockfile, ResolveCold, ResolveWarm
  <2>2. ASSUME NEW k \in Key PROVE thread'[k] = thread[k] \/ thread'[k].at = "fetching"
    BY <1>0 DEF Load, Save, StartLoad, ReadLockfile, ResolveCold, ResolveWarm, Start, NoFetch
  <2> QED BY <2>1, <2>2 DEF Done, Pinning, Cached
<1>2. CASE Save
  <2>1. reloads' > 0
    BY <1>0, <1>2 DEF Save
  <2> QED BY <1>1, <2>1 DEF Followed, Behind, ReloadComing
<1>3. CASE StartLoad
  <2>1. at' = 1 /\ seen' = Unread
    BY <1>3 DEF StartLoad
  <2> QED BY <1>1, <2>1 DEF Followed
<1>4. CASE ReadLockfile
  <2>1. UNCHANGED <<thread, reloads, failed, touched, updated, at, picked, lockfile>> /\ at > 0
    BY <1>4 DEF ReadLockfile
  <2>2. CASE torn
    BY <1>1, <2>1, <2>2, TornComes DEF Followed, Behind, ReloadComing
  <2>3. CASE ~torn
    <3>1. seen' = lockfile[Imports[at]]
      BY <1>4, <2>3 DEF ReadLockfile, Read
    <3> QED BY <1>1, <2>1, <3>1 DEF Followed, Behind, ReloadComing
  <2> QED BY <2>2, <2>3
<1>5. CASE ResolveCold
  <2> DEFINE key == <<Imports[at], IF seen = None THEN First ELSE seen>>
  <2>1. /\ UNCHANGED <<reloads, failed, touched, updated, lockfile, cache>> /\ at > 0 /\ seen # Unread
        /\ ~Cached(<<Imports[at], seen>>) /\ Start(key) /\ at' = 0
    BY <1>5 DEF ResolveCold
  <2>2. Imports[at] \in Pkg /\ seen \in Ref \cup {None} /\ key \in Key
    BY <1>0, <2>1, ImportTyped DEF TypeOK, Key
  <2>3. CASE thread[key].at # "done"
    <3> HIDE DEF key
    <3>1. \E other \in Key : thread'[other].at \notin {"none", "done"}
      BY <2>1, <2>2, <2>3, StartsComing
    <3> QED BY <1>1, <3>1 DEF Followed, Behind, ReloadComing
  <2>4. CASE thread[key].at = "done"
    <3>1. thread' = thread
      BY <2>1, <2>4 DEF Start
    <3>2. seen = lockfile[Imports[at]] => Behind
      <4>1. CASE seen = None
        BY <2>2, <2>4, <4>1 DEF Done, Behind
      <4>2. CASE seen # None
        <5>1. key = <<Imports[at], seen>> /\ seen # First
          BY <2>2, <4>2, RefAssumption
        <5>2. Cached(key)
          BY <2>2, <2>4, <5>1 DEF Done
        <5> QED BY <2>1, <5>1, <5>2
      <4> QED BY <4>1, <4>2
    <3>3. Behind
      BY <2>1, <3>2 DEF Followed
    <3> QED BY <1>1, <2>1, <3>1, <3>3 DEF Followed, Behind, ReloadComing
  <2> QED BY <2>3, <2>4
<1>6. CASE ResolveWarm
  <2>1. /\ UNCHANGED <<thread, reloads, failed, touched, updated, lockfile>> /\ at > 0 /\ seen # Unread
        /\ picked' = [picked EXCEPT ![Imports[at]] = seen] /\ seen' = Unread
        /\ IF at < Len(Imports) THEN at' = at + 1 ELSE at' = 0 /\ inUse' = picked'
    BY <1>6 DEF ResolveWarm
  <2>2. SUFFICES ASSUME ~Behind PROVE Followed'
    BY <1>1, <2>1 DEF Followed, Behind, ReloadComing
  <2>3. /\ seen = lockfile[Imports[at]]
        /\ \A i \in 1..(at - 1) : picked[Imports[i]] = lockfile[Imports[i]]
    BY <2>1, <2>2 DEF Followed
  <2>4. \A i \in 1..at : picked'[Imports[i]] = lockfile[Imports[i]]
    <3> SUFFICES ASSUME NEW i \in 1..at PROVE picked'[Imports[i]] = lockfile[Imports[i]]
      OBVIOUS
    <3>1. Imports[i] \in Pkg /\ i \in 1..Len(Imports)
      BY <1>0, ImportTyped
    <3>2. CASE i = at
      BY <1>0, <2>1, <2>3, <3>1, <3>2 DEF Lockfile
    <3>3. CASE i # at
      <4>1. i \in 1..(at - 1)
        BY <1>0, <3>3
      <4> QED BY <1>0, <2>1, <2>3, <3>1, <4>1 DEF Lockfile
    <3> QED BY <3>2, <3>3
  <2>5. CASE at < Len(Imports)
    <3>1. at' = at + 1 /\ 1..(at' - 1) = 1..at /\ at' # 0
      BY <1>0, <2>1, <2>5
    <3> QED BY <2>1, <2>4, <3>1 DEF Followed
  <2>6. CASE ~(at < Len(Imports))
    <3>1. at' = 0 /\ inUse' = picked' /\ at = Len(Imports) /\ DOMAIN Imports = 1..Len(Imports)
      BY <1>0, <2>1, <2>6, ImportsAssumption
    <3>2. inUse' # None
      <4>1. Imports[at] \in Pkg /\ seen \in Ref \cup {None}
        BY <1>0, <2>1, ImportTyped DEF TypeOK
      <4>2. picked' \in Lockfile
        BY <1>0, <2>1, <4>1 DEF Lockfile
      <4> QED BY <3>1, <4>2, InUseAssumption
    <3>3. OnPins'
      BY <2>1, <2>4, <3>1, <3>2 DEF OnPins
    <3> QED BY <3>1, <3>3 DEF Followed
  <2> QED BY <2>5, <2>6
<1> QED BY <1>1, <1>2, <1>3, <1>4, <1>5, <1>6 DEF Load

(* So does a thread: what it writes, it asks a reload for.                 *)
LEMMA RunFollows ==
  ASSUME TypeOK, Keeping, Done, Pinning, Followed, NEW k \in Key, Run(k) \/ FetchFails(k)
  PROVE  Done' /\ Pinning' /\ Followed'
<1> USE DEF fetched, disk, loading, history
<1>0. /\ thread \in [Key -> Fetch] /\ reloads \in Nat /\ lockfile \in Lockfile /\ k[1] \in Pkg
      /\ thread[k].holds \in Commit \cup {None} /\ failed \in BOOLEAN
  BY ThreadTyped DEF TypeOK, Key
<1>1. /\ UNCHANGED <<touched, updated, at, seen, picked, inUse>>
      /\ failed => failed'
  <2>1. CASE Finish(k)
    BY <2>1 DEF Finish
  <2>2. CASE ~Finish(k)
    BY <2>2 DEF Run, AlreadyPresent, Clone, Place, ReadToPin, Truncate, Write, Notify, FetchFails
  <2> QED BY <2>1, <2>2
<1>2. \A other \in Key : other # k => thread'[other] = thread[other]
  BY <1>0 DEF Run, AlreadyPresent, Clone, Place, ReadToPin, Truncate, Write, Notify, Finish, FetchFails
<1>3. cache \subseteq cache' /\ (reloads > 0 => reloads' > 0)
  BY <1>0 DEF Run, AlreadyPresent, Clone, Place, ReadToPin, Truncate, Write, Notify, Finish, FetchFails, Placed
<1>4. Done' /\ Pinning'
  <2>1. updated \/ \A p \in Pkg : lockfile[p] # None => lockfile'[p] # None
    BY <1>0, RunKeeps DEF TypeOK
  <2>2. ASSUME thread'[k].at \in {"notify", "done"}
        PROVE  IF k[2] = First THEN updated \/ lockfile'[k[1]] # None ELSE (Cached(k))'
    <3>1. CASE thread[k].at \in {"notify", "done"}
      BY <1>0, <1>3, <2>1, <3>1 DEF Done, Cached
    <3>2. CASE AlreadyPresent(k)
      BY <3>2 DEF AlreadyPresent, Cached
    <3>3. CASE Place(k)
      <4>1. k[2] # First
        BY <1>0, <2>2, <3>3 DEF Place, Fetch
      <4>2. cache' = Placed(k, thread[k].holds)
        BY <3>3, <4>1 DEF Place
      <4>3. CASE Cached(k)
        BY <4>1, <4>2, <4>3 DEF Placed, Cached
      <4>4. CASE ~Cached(k)
        <5>1. [path |-> k, holds |-> thread[k].holds] \in cache'
          BY <4>2, <4>4 DEF Placed
        <5> QED BY <4>1, <5>1 DEF Cached
      <4> QED BY <4>3, <4>4
    <3>4. CASE Write(k)
      <4>1. k[2] = First /\ thread[k].at = "writing" /\ lockfile' = thread[k].copy
        BY <3>4 DEF Write, TypeOK
      <4>2. updated \/ thread[k].copy[k[1]] # None
        BY <1>0, <4>1 DEF Pinning
      <4> QED BY <4>1, <4>2
    <3> QED BY <1>0, <2>2, <3>1, <3>2, <3>3, <3>4
         DEF Run, Clone, ReadToPin, Truncate, Notify, Finish, FetchFails, Fetch, NoFetch
  <2>3. ASSUME thread'[k].at \in {"write", "writing"} PROVE thread'[k].copy[k[1]] # None
    <3>1. CASE ReadToPin(k)
      <4> DEFINE pins == [Read EXCEPT ![k[1]] = thread[k].holds]
      <4>1. thread'[k].copy = pins /\ thread[k].holds \in Commit
        BY <1>0, <3>1 DEF ReadToPin, Fetch, TypeOK
      <4>2. pins[k[1]] = thread[k].holds
        BY <1>0, ReadTyped DEF Lockfile
      <4> HIDE DEF pins
      <4> QED BY <4>1, <4>2, RefAssumption DEF Ref
    <3>2. CASE Truncate(k)
      BY <1>0, <3>2 DEF Truncate, Fetch, Pinning
    <3> QED BY <1>0, <2>3, <3>1, <3>2
         DEF Run, AlreadyPresent, Clone, Place, Write, Notify, Finish, FetchFails, Fetch, NoFetch
  <2>4. Done'
    <3>1. \A path : Cached(path) => (Cached(path))'
      BY <1>3 DEF Cached
    <3>2. \A other \in Key : other[1] \in Pkg
      BY DEF Key
    <3> SUFFICES ASSUME NEW other \in Key, thread'[other].at \in {"notify", "done"}
                 PROVE  IF other[2] = First THEN updated \/ lockfile'[other[1]] # None ELSE (Cached(other))'
      BY <1>1 DEF Done
    <3>3. CASE other = k
      BY <2>2, <3>3
    <3>4. CASE other # k
      BY <1>2, <2>1, <3>1, <3>2, <3>4 DEF Done
    <3> QED BY <3>3, <3>4
  <2>5. Pinning'
    BY <1>2, <2>3 DEF Pinning
  <2> QED BY <2>4, <2>5
<1>5. CASE Notify(k)
  <2>1. reloads' > 0
    BY <1>0, <1>5 DEF Notify
  <2> QED BY <1>4, <2>1 DEF Followed, Behind, ReloadComing
<1>6. CASE Finish(k)
  <2>1. UNCHANGED <<lockfile, reloads>> /\ (thread[k].at = "failed" => failed') /\ thread[k].at \in {"done", "failed"}
    BY <1>6 DEF Finish
  <2>2. Behind => Behind'
    BY <1>1, <1>2, <2>1 DEF Behind, ReloadComing
  <2> QED BY <1>1, <1>4, <2>1, <2>2 DEF Followed, OnPins
<1>7. CASE ~Notify(k) /\ ~Finish(k)
  <2>1. thread'[k].at \notin {"none", "done"}
    BY <1>0, <1>7 DEF Run, AlreadyPresent, Clone, Place, ReadToPin, Truncate, Write, FetchFails, Fetch
  <2> QED BY <1>4, <2>1 DEF Followed, Behind, ReloadComing
<1> QED BY <1>5, <1>6, <1>7

(* A restart loads anew; what others write to the Lockfile is known.       *)
LEMMA StepFollows ==
  TypeOK /\ Keeping /\ Done /\ Pinning /\ Followed /\ [Next]_vars => Done' /\ Pinning' /\ Followed'
<1> SUFFICES ASSUME TypeOK, Keeping, Done, Pinning, Followed, [Next]_vars
             PROVE  Done' /\ Pinning' /\ Followed'
  OBVIOUS
<1> USE DEF others, outside, disk, fetching, loading, history
<1>0. lockfile \in Lockfile /\ updated \in BOOLEAN
  BY DEF TypeOK
<1>1. CASE Load \/ Save
  BY <1>1, LoadFollows
<1>2. ASSUME NEW k \in Key, Run(k) \/ FetchFails(k) PROVE Done' /\ Pinning' /\ Followed'
  BY <1>2, RunFollows
<1>3. CASE Restart
  <2>1. \A k \in Key : thread'[k].at = "none"
    BY <1>3 DEF Restart, NoFetch
  <2>2. at' = 1 /\ seen' = Unread
    BY <1>3 DEF Restart
  <2> QED BY <2>1, <2>2 DEF Done, Pinning, Followed
<1>4. ASSUME UNCHANGED <<thread, reloads, failed, at, seen, picked, inUse, lockfile, touched>>,
             updated => updated', cache \subseteq cache'
      PROVE  Done' /\ Pinning' /\ Followed'
  <2>1. Done' /\ Pinning'
    BY <1>4 DEF Done, Pinning, Cached
  <2>2. Followed'
    BY <1>4 DEF Followed, Behind, ReloadComing, OnPins
  <2> QED BY <2>1, <2>2
<1>5. ASSUME NEW p \in Pkg, Push(p) PROVE Done' /\ Pinning' /\ Followed'
  BY <1>4, <1>5 DEF Push
<1>6. ASSUME NEW p \in Pkg, Develop(p) PROVE Done' /\ Pinning' /\ Followed'
  <2>1. lockfile' = [lockfile EXCEPT ![p] = Dev] /\ touched' /\ UNCHANGED <<thread, cache, updated>>
    BY <1>6 DEF Develop
  <2>2. \A q \in Pkg : lockfile[q] # None => lockfile'[q] # None
    BY <1>0, <2>1, RefAssumption DEF Lockfile, Ref
  <2>3. \A k \in Key : k[1] \in Pkg
    BY DEF Key
  <2> QED BY <2>1, <2>2, <2>3 DEF Done, Pinning, Cached, Followed, Behind
<1>7. CASE UpdateLoad
  <2>1. UNCHANGED <<thread, reloads, failed, at, seen, picked, inUse, lockfile, touched, cache>> /\ updated'
    BY <1>7 DEF UpdateLoad
  <2> QED BY <1>4, <2>1
<1>8. CASE Update
  <2>1. updated
    BY <1>8 DEF Update, UpdateFetch, UpdateTruncate, UpdateWrite, Keeping
  <2>2. UNCHANGED <<thread, updated>> /\ cache \subseteq cache'
    BY <1>8 DEF Update, UpdateFetch, UpdateTruncate, UpdateWrite, Placed
  <2> QED BY <2>1, <2>2 DEF Done, Pinning, Cached, Followed, Behind
<1>9. CASE UNCHANGED vars
  BY <1>4, <1>9 DEF vars
<1> QED BY <1>1, <1>2, <1>3, <1>5, <1>6, <1>7, <1>8, <1>9 DEF Next

(* Between two loads the layout in use is on its pins, or a reload is      *)
(* asked for or on its way, for any number of Packages, imports and        *)
(* fetches, whatever request the in-flight table drops and however the     *)
(* Lockfile is read while it is torn: what is left of SettlesOnPins is that*)
(* fetches end and loads go on (fetch_manager.rs, jsx.rs).                 *)
THEOREM NoPinIsLeftBehind == Spec => []NoPinIsMissed
<1>1. Init => Keeping /\ Done /\ Pinning /\ Followed
  BY DEF Init, Keeping, Done, Pinning, Followed, NoFetch, NoUpdate
<1>2. Followed => NoPinIsMissed
  BY DEF Followed, Behind, NoPinIsMissed
<1>3. TypeOK /\ Keeping /\ [Next]_vars => Keeping'
  BY StepKeeps
<1> QED BY <1>1, <1>2, <1>3, StepFollows, TypesHold, PTL DEF Spec
=============================================================================
