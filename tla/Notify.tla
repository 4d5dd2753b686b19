------------------------------- MODULE Notify -------------------------------
(* tauler-notify (src/tauler-notify/): the daemon that owns the desktop's  *)
(* notifications.  Calls on the bus are answered concurrently, each with   *)
(* an id; one loop applies what they send, the expiry timers and the       *)
(* dismissals, prints the list and tells clients what is gone.             *)
EXTENDS Integers, Sequences, SequencesExt

CONSTANTS
  Tag,        \* the stack tags clients use
  None,       \* no tag; no generation
  Requests,   \* what clients ask for: the id replaced (0 for none), tag, timeout
  MaxCalls,   \* bound: calls of Notify
  MaxEvents   \* bound: closings, dismissals and restarts

ASSUME BoundsAssumption == MaxCalls \in Nat \ {0} /\ MaxEvents \in Nat
ASSUME NoneAssumption == None \notin Tag /\ None \notin Nat

Id == 1..(MaxCalls + 1)
Call == 1..MaxCalls

Timeout == {"never", "default", "given", "negative"}

ExpiresIfGiven(timeout) == timeout = "given"

(* expire_ms: 0 is never, -1 the default.  Any other negative number is    *)
(* cast to so large an unsigned one that it never comes either.            *)
Expires(timeout) == timeout \in {"default", "given"}

ASSUME RequestsAssumption ==
  Requests \subseteq [replaces : {0} \cup Id, tag : Tag \cup {None}, timeout : Timeout]

VARIABLES
  nextId,       \* the id a fresh notification gets
  tags,         \* the id of each tag
  calls,        \* the calls made so far, whether their id is resolved or sent
  queue,        \* channel: what the loop has not received yet
  items,        \* the list, in display order
  generation,   \* the generation stamped on each live id
  nextGen,
  timers,       \* the expiry timers under way
  signals,      \* NotificationClosed signals of each id
  opened,       \* history: how often each id came into the list
  foreign,      \* history: has a client named an id this process never gave out
  events        \* closings, dismissals and restarts so far

vars == <<nextId, tags, calls, queue, items, generation, nextGen, timers, signals, opened, foreign, events>>
store == <<items, generation, nextGen>>
server == <<nextId, tags, calls, foreign>>

Add(c) == [kind |-> "add", call |-> c]
Expire(t) == [kind |-> "expire", timer |-> t]
Close(id) == [kind |-> "close", id |-> id]

Position(id) == {i \in DOMAIN items : items[i].id = id}
Without(id) ==
  IF Position(id) = {} THEN items ELSE RemoveAt(items, CHOOSE i \in Position(id) : TRUE)

Event == events < MaxEvents /\ events' = events + 1

Fresh ==
  /\ nextId = 1 /\ tags = [t \in Tag |-> None] /\ queue = <<>> /\ items = <<>>
  /\ generation = [id \in Id |-> None] /\ nextGen = 0 /\ timers = {}
  /\ signals = [id \in Id |-> 0] /\ opened = [id \in Id |-> 0]
Init == Fresh /\ calls = <<>> /\ foreign = FALSE /\ events = 0

-----------------------------------------------------------------------------
(* A call of Notify.                                                       *)

ResolveTagOnce(q) ==
  CASE q.replaces # 0 -> q.replaces
    [] q.replaces = 0 /\ q.tag # None /\ tags[q.tag] # None /\ Position(tags[q.tag]) # {} -> tags[q.tag]
    [] OTHER -> nextId

(* resolve_id, under the lock of the tags.                                 *)
ResolveId(q) ==
  CASE q.replaces # 0 -> q.replaces
    [] q.replaces = 0 /\ q.tag # None /\ tags[q.tag] # None -> tags[q.tag]
    [] OTHER -> nextId

Resolve(q) ==
  LET id == ResolveId(q) IN
  /\ Len(calls) < MaxCalls
  /\ calls' = Append(calls, [asks |-> q, id |-> id, sent |-> FALSE])
  /\ nextId' = IF q.replaces = 0 /\ id = nextId THEN nextId + 1 ELSE nextId
  /\ tags' = IF q.tag = None THEN tags ELSE [tags EXCEPT ![q.tag] = id]
  /\ foreign' = (foreign \/ q.replaces >= nextId)
  /\ UNCHANGED <<queue, store, timers, signals, opened, events>>

(* The pid of the sender has been awaited: calls overtake each other here. *)
Send(c) ==
  /\ c \in DOMAIN calls /\ ~calls[c].sent
  /\ calls' = [calls EXCEPT ![c].sent = TRUE]
  /\ queue' = Append(queue, Add(c))
  /\ UNCHANGED <<nextId, tags, foreign, store, timers, signals, opened, events>>

-----------------------------------------------------------------------------
(* Timers, clients that close and users that dismiss.                      *)

Fire(t) ==
  /\ t \in timers
  /\ timers' = timers \ {t} /\ queue' = Append(queue, Expire(t))
  /\ UNCHANGED <<server, store, signals, opened, events>>

AskToClose(id) ==
  /\ Event /\ queue' = Append(queue, Close(id))
  /\ UNCHANGED <<server, store, timers, signals, opened>>

(* tauler goes, or reloads: stdin closes, the process ends, and another    *)
(* one starts.  Clients keep the ids they were given.                      *)
Restart ==
  /\ Event
  /\ nextId' = 1 /\ tags' = [t \in Tag |-> None] /\ queue' = <<>> /\ items' = <<>>
  /\ generation' = [id \in Id |-> None] /\ nextGen' = 0 /\ timers' = {}
  /\ signals' = [id \in Id |-> 0] /\ opened' = [id \in Id |-> 0]
  /\ calls' = [c \in DOMAIN calls |-> [calls[c] EXCEPT !.sent = TRUE]]
  /\ UNCHANGED foreign

-----------------------------------------------------------------------------
(* The loop.                                                               *)

Receive == queue # <<>> /\ queue' = Tail(queue)

UpsertKeepingStamp(id, n) ==
  LET old == Position(id) IN
  /\ items' = IF old = {} THEN Append(items, n) ELSE [i \in DOMAIN items |-> IF i \in old THEN n ELSE items[i]]
  /\ generation' = IF old = {} THEN [generation EXCEPT ![id] = nextGen] ELSE generation
  /\ nextGen' = nextGen + 1

UpsertOnTop(id, n) ==
  /\ items' = Append(items, n)
  /\ generation' = [generation EXCEPT ![id] = nextGen]
  /\ nextGen' = nextGen + 1

(* upsert: in place, or at the end.                                        *)
Upsert(id, n) ==
  LET old == Position(id) IN
  /\ items' = IF old = {} THEN Append(items, n)
              ELSE [i \in DOMAIN items |-> IF i \in old THEN n ELSE items[i]]
  /\ generation' = [generation EXCEPT ![id] = nextGen]
  /\ nextGen' = nextGen + 1

ReceiveAdd ==
  /\ Receive /\ Head(queue).kind = "add"
  /\ LET c == Head(queue).call
         id == calls[c].id
     IN /\ Upsert(id, [id |-> id, call |-> c])
        /\ timers' = IF Expires(calls[c].asks.timeout)
                     THEN timers \cup {[id |-> id, gen |-> nextGen, call |-> c]} ELSE timers
        /\ opened' = IF Position(id) = {} THEN [opened EXCEPT ![id] = @ + 1] ELSE opened
  /\ UNCHANGED <<server, signals, events>>

AnnounceAnyway(id) ==
  /\ items' = Without(id)
  /\ generation' = [generation EXCEPT ![id] = None]
  /\ signals' = [signals EXCEPT ![id] = @ + 1]

(* remove, and the signal if there was something to remove.                *)
RemoveId(id) ==
  /\ items' = Without(id)
  /\ generation' = [generation EXCEPT ![id] = None]
  /\ signals' = IF Position(id) = {} THEN signals ELSE [signals EXCEPT ![id] = @ + 1]

(* expire: only the generation the timer was set for.                      *)
ReceiveExpire ==
  /\ Receive /\ Head(queue).kind = "expire"
  /\ LET t == Head(queue).timer IN
     IF generation[t.id] = t.gen THEN RemoveId(t.id)
     ELSE UNCHANGED <<items, generation, signals>>
  /\ UNCHANGED <<server, nextGen, timers, opened, events>>

ReceiveClose ==
  /\ Receive /\ Head(queue).kind = "close" /\ RemoveId(Head(queue).id)
  /\ UNCHANGED <<server, nextGen, timers, opened, events>>

-----------------------------------------------------------------------------
Loop == ReceiveAdd \/ ReceiveExpire \/ ReceiveClose

Next ==
  \/ \E q \in Requests : Resolve(q)
  \/ \E c \in Call : Send(c)
  \/ \E t \in timers : Fire(t)
  \/ \E id \in Id : AskToClose(id)
  \/ Restart \/ Loop

Spec == Init /\ [][Next]_vars

(* Calls are answered, timers fire and the loop receives.                  *)
FairSpec == /\ Spec /\ WF_vars(Loop)
            /\ WF_vars(\E c \in Call : Send(c)) /\ WF_vars(\E t \in timers : Fire(t))

-----------------------------------------------------------------------------
Timer == [id : Id, gen : Nat, call : Call]
Message == [kind : {"add"}, call : Call] \cup [kind : {"expire"}, timer : Timer]
             \cup [kind : {"close"}, id : Id]
Item == [id : Id, call : Call]
Asked == [asks : Requests, id : Id, sent : BOOLEAN]

(* Every variable has its type, and no id is in the list twice.            *)
TypeOK ==
  /\ nextId \in Id /\ tags \in [Tag -> Id \cup {None}]
  /\ calls \in Seq(Asked)
  /\ queue \in Seq(Message)
  /\ items \in Seq(Item)
  /\ \A i, j \in DOMAIN items : items[i].id = items[j].id => i = j
  /\ generation \in [Id -> Nat \cup {None}] /\ nextGen \in Nat /\ timers \subseteq Timer
  /\ signals \in [Id -> Nat] /\ opened \in [Id -> Nat]
  /\ foreign \in BOOLEAN /\ events \in 0..MaxEvents

(* A client hears that a notification is gone once for each time it was    *)
(* there, and never while it is: not for a stale timer, not for an id that *)
(* is already closed (notify_closed, store.rs remove).                     *)
AnnouncedOnce ==
  \A id \in Id : opened[id] = signals[id] + (IF Position(id) = {} THEN 0 ELSE 1)

(* A timer only takes away the very notification it was set for, never one *)
(* that holds the id since (store.rs expire).                              *)
ExpiryHitsItsOwn ==
  [][ReceiveExpire /\ items' # items =>
       \E i \in DOMAIN items : items[i].call = Head(queue).timer.call /\ items' = RemoveAt(items, i)]_vars

(* Calls with one tag and no id of their own share a popup, whatever order *)
(* they reach the loop in (resolve_id, upsert).                            *)
OnePopupPerTag ==
  \A i, j \in DOMAIN items :
    LET asks == [c \in DOMAIN calls |-> calls[c].asks]
        tag == asks[items[i].call].tag
    IN (tag # None /\ tag = asks[items[j].call].tag
        /\ \A c \in DOMAIN calls : asks[c].tag = tag => asks[c].replaces = 0) => i = j

(* What was sent with a timeout does not stay, however often its id was    *)
(* used again and whatever was closed in between (main.rs: the timers).    *)
TimedGo == <>[](\A i \in DOMAIN items : ~(calls[items[i].call].asks.timeout \in {"default", "given"}))

(* Until then, in any state, its timer is under way or the loop is to hear *)
(* that it fired, for the generation that its id has now (store.rs upsert  *)
(* and expire, main.rs: the timers).                                       *)
TimersKept ==
  \A i \in DOMAIN items : calls[items[i].call].asks.timeout \in {"default", "given"} =>
    LET timer == [id |-> items[i].id, gen |-> generation[items[i].id], call |-> items[i].call]
    IN timer \in timers \/ \E k \in DOMAIN queue : queue[k] = Expire(timer)

(* "untagged notifications must stack, not replace each other" (the test   *)
(* in server.rs:228).  A client that names an id this process has not      *)
(* given out, a restart for instance, breaks it.                           *)
UntaggedStack ==
  [][\A c \in Call : ReceiveAdd /\ Head(queue).call = c /\ calls[c].asks.replaces = 0 /\ calls[c].asks.tag = None
       => Len(items') = Len(items) + 1]_vars
=============================================================================
