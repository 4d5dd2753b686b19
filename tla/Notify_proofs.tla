---------------------------- MODULE Notify_proofs ----------------------------
(* tauler-notify, for any clients, any number of calls in any order, and   *)
(* whatever closes, expires or restarts in between.                        *)
EXTENDS Notify, SequenceTheorems, TLAPS

(* What is in the list, wherever it is.                                    *)
Entries == {items[i] : i \in DOMAIN items}

(* What the loop has still to receive.                                     *)
Queued == {queue[i] : i \in DOMAIN queue}

(* Ids are given out in turn, at most one to a call; what is to be added   *)
(* was asked for.                                                          *)
InTurn ==
  /\ nextId <= Len(calls) + 1 /\ Len(calls) <= MaxCalls
  /\ \A m \in Queued : m.kind = "add" => m.call \in DOMAIN calls

(* A timer's way from the loop that sets it to the loop that hears of it.  *)
UnderWay(t) == t \in timers \/ Expire(t) \in Queued

(* A timer whose generation is still that of its id was set for what has   *)
(* that id.                                                                *)
Stamped ==
  \A t \in Timer : UnderWay(t) =>
    /\ t.gen < nextGen
    /\ generation[t.id] = t.gen => [id |-> t.id, call |-> t.call] \in Entries

(* What a call asked for is still to be sent, on its way, or in the list.  *)
Alive(c) ==
  /\ c \in DOMAIN calls
  /\ \/ ~calls[c].sent
     \/ Add(c) \in Queued
     \/ \E e \in Entries : e.call = c

(* Of the calls with a tag, none names an id.                              *)
TagOnly(tag) ==
  \A c \in DOMAIN calls : calls[c].asks.tag = tag => calls[c].asks.replaces = 0

(* What is alive and has such a tag has the tag's id; what is in the list  *)
(* has the id of its call.                                                 *)
Tagged ==
  /\ \A e \in Entries : e.call \in DOMAIN calls /\ e.id = calls[e.call].id
  /\ \A c \in DOMAIN calls :
       Alive(c) /\ calls[c].asks.tag # None /\ TagOnly(calls[c].asks.tag)
         => calls[c].id = tags[calls[c].asks.tag]

-----------------------------------------------------------------------------
(* The list without position p.                                            *)
LEMMA Removing ==
  ASSUME NEW S, NEW s \in Seq(S), NEW p \in 1..Len(s)
  PROVE  /\ RemoveAt(s, p) \in Seq(S) /\ Len(RemoveAt(s, p)) = Len(s) - 1
         /\ \A k \in 1..(Len(s) - 1) : RemoveAt(s, p)[k] = IF k < p THEN s[k] ELSE s[k + 1]
<1> DEFINE before == SubSeq(s, 1, p - 1)
           after == SubSeq(s, p + 1, Len(s))
<1>1. /\ before \in Seq(S) /\ Len(before) = p - 1
      /\ \A k \in 1..(p - 1) : before[k] = s[k]
  OBVIOUS
<1>2. /\ after \in Seq(S) /\ Len(after) = Len(s) - p
      /\ \A k \in 1..(Len(s) - p) : after[k] = s[p + k]
  OBVIOUS
<1> HIDE DEF before, after
<1>3. /\ before \o after \in Seq(S)
      /\ Len(before \o after) = Len(before) + Len(after)
      /\ \A k \in 1..(Len(before) + Len(after)) :
           (before \o after)[k] = IF k <= Len(before) THEN before[k] ELSE after[k - Len(before)]
  BY <1>1, <1>2, ConcatProperties
<1>4. Len(before) + Len(after) = Len(s) - 1
  BY <1>1, <1>2
<1>5. ASSUME NEW k \in 1..(Len(s) - 1)
      PROVE  (before \o after)[k] = IF k < p THEN s[k] ELSE s[k + 1]
  <2>1. CASE k < p
    BY <1>1, <1>3, <1>4, <2>1
  <2>2. CASE ~(k < p)
    <3>1. (before \o after)[k] = after[k - (p - 1)]
      BY <1>1, <1>3, <1>4, <2>2
    <3>2. k - (p - 1) \in 1..(Len(s) - p) /\ p + (k - (p - 1)) = k + 1
      BY <2>2
    <3> QED
      BY <1>2, <2>2, <3>1, <3>2
  <2> QED
    BY <2>1, <2>2
<1> QED
  BY <1>3, <1>4, <1>5 DEF RemoveAt, before, after

(* What is in the list without an id, and that no id is in it twice.       *)
LEMMA Taking ==
  ASSUME TypeOK, NEW id \in Id
  PROVE  LET rest == Without(id) IN
         /\ rest \in Seq(Item)
         /\ \A i, j \in DOMAIN rest : rest[i].id = rest[j].id => i = j
         /\ {rest[i] : i \in DOMAIN rest} = {e \in Entries : e.id # id}
<1>1. CASE Position(id) = {}
  <2>1. Without(id) = items
    BY <1>1 DEF Without
  <2>2. items \in Seq(Item) /\ \A i, j \in DOMAIN items : items[i].id = items[j].id => i = j
    BY DEF TypeOK
  <2>3. \A i \in DOMAIN items : items[i].id # id
    BY <1>1 DEF Position
  <2>4. {items[i] : i \in DOMAIN items} = {e \in Entries : e.id # id}
    BY <2>3 DEF Entries
  <2> QED
    BY <2>1, <2>2, <2>4
<1>2. CASE Position(id) # {}
  <2> DEFINE p == CHOOSE i \in Position(id) : TRUE
             rest == RemoveAt(items, p)
  <2>1. p \in 1..Len(items) /\ items[p].id = id
    BY <1>2 DEF Position, TypeOK
  <2> HIDE DEF p
  <2>2. /\ rest \in Seq(Item) /\ Len(rest) = Len(items) - 1
        /\ \A k \in 1..(Len(items) - 1) : rest[k] = IF k < p THEN items[k] ELSE items[k + 1]
    BY <2>1, Removing DEF TypeOK
  <2> HIDE DEF rest
  <2>3. Len(items) \in Nat /\ DOMAIN items = 1..Len(items) /\ DOMAIN rest = 1..(Len(items) - 1)
    BY <2>2 DEF TypeOK
  <2>4. \A i, j \in 1..Len(items) : items[i].id = items[j].id => i = j
    BY <2>3 DEF TypeOK
  <2>5. ASSUME NEW i \in DOMAIN rest, NEW j \in DOMAIN rest, rest[i].id = rest[j].id
        PROVE  i = j
    BY <2>1, <2>2, <2>3, <2>4, <2>5
  <2>6. ASSUME NEW i \in DOMAIN rest PROVE rest[i] \in Entries /\ rest[i].id # id
    <3> DEFINE k == IF i < p THEN i ELSE i + 1
    <3>1. i \in 1..(Len(items) - 1)
      BY <2>3
    <3>2. k \in DOMAIN items /\ k # p /\ rest[i] = items[k]
      BY <2>1, <2>2, <2>3, <3>1
    <3> HIDE DEF k
    <3>3. items[k] \in Entries
      BY <3>2 DEF Entries
    <3>4. items[k].id # id
      BY <2>1, <2>3, <2>4, <3>2
    <3> QED
      BY <3>2, <3>3, <3>4
  <2>7. ASSUME NEW i \in DOMAIN items, items[i].id # id
        PROVE  \E k \in DOMAIN rest : rest[k] = items[i]
    <3>1. CASE i < p
      BY <2>1, <2>2, <2>3, <2>7, <3>1
    <3>2. CASE i > p
      <4>1. i - 1 \in DOMAIN rest /\ rest[i - 1] = items[i]
        BY <2>1, <2>2, <2>3, <2>7, <3>2
      <4> QED
        BY <4>1
    <3> QED
      BY <2>1, <2>3, <2>7, <3>1, <3>2
  <2>8. {rest[i] : i \in DOMAIN rest} = {e \in Entries : e.id # id}
    BY <2>6, <2>7 DEF Entries
  <2>9. Without(id) = rest
    BY <1>2 DEF Without, rest, p
  <2>10. \A i, j \in DOMAIN rest : rest[i].id = rest[j].id => i = j
    BY <2>5
  <2> QED
    BY <2>2, <2>8, <2>9, <2>10
<1> QED
  BY <1>1, <1>2

(* And with something put into it.                                         *)
LEMMA Putting ==
  ASSUME TypeOK, NEW id \in Id, NEW c \in Call, Upsert(id, [id |-> id, call |-> c])
  PROVE  /\ items' \in Seq(Item)
         /\ \A i, j \in DOMAIN items' : items'[i].id = items'[j].id => i = j
         /\ Entries' = {e \in Entries : e.id # id} \cup {[id |-> id, call |-> c]}
<1> DEFINE n == [id |-> id, call |-> c]
<1>1. n \in Item /\ n.id = id
  BY DEF Item
<1>2. Len(items) \in Nat /\ DOMAIN items = 1..Len(items)
  BY DEF TypeOK
<1>3. CASE Position(id) = {}
  <2>1. items' = Append(items, n)
    BY <1>3 DEF Upsert
  <2> HIDE DEF n
  <2>2. /\ items' \in Seq(Item) /\ DOMAIN items' = 1..(Len(items) + 1)
        /\ items'[Len(items) + 1] = n
        /\ \A i \in 1..Len(items) : items'[i] = items[i]
    BY <1>1, <2>1, AppendProperties DEF TypeOK
  <2>3. \A i \in 1..Len(items) : items[i].id # id
    BY <1>2, <1>3 DEF Position
  <2>4. \A i, j \in DOMAIN items' : items'[i].id = items'[j].id => i = j
    <3>0. \A i, j \in 1..Len(items) : items[i].id = items[j].id => i = j
      BY <1>2 DEF TypeOK
    <3> TAKE i, j \in DOMAIN items'
    <3>1. CASE i \in 1..Len(items) /\ j \in 1..Len(items)
      BY <2>2, <3>0, <3>1
    <3>2. CASE i = Len(items) + 1 /\ j \in 1..Len(items)
      BY <1>1, <2>2, <2>3, <3>2
    <3>3. CASE j = Len(items) + 1 /\ i \in 1..Len(items)
      BY <1>1, <2>2, <2>3, <3>3
    <3> QED
      BY <1>2, <2>2, <3>1, <3>2, <3>3
  <2>5. Entries' = Entries \cup {n}
    <3>1. \A i \in DOMAIN items' : items'[i] \in Entries \cup {n}
      BY <1>2, <2>2 DEF Entries
    <3>2. \A e \in Entries : \E i \in DOMAIN items' : items'[i] = e
      BY <1>2, <2>2 DEF Entries
    <3>3. \E i \in DOMAIN items' : items'[i] = n
      BY <1>2, <2>2
    <3> QED
      BY <3>1, <3>2, <3>3 DEF Entries
  <2>6. \A e \in Entries : e.id # id
    BY <1>2, <2>3 DEF Entries
  <2> QED
    BY <2>2, <2>4, <2>5, <2>6 DEF n
<1>4. CASE Position(id) # {}
  <2>1. items' = [i \in DOMAIN items |-> IF i \in Position(id) THEN n ELSE items[i]]
    BY <1>4 DEF Upsert
  <2> HIDE DEF n
  <2>2. /\ DOMAIN items' = 1..Len(items)
        /\ \A i \in 1..Len(items) : items'[i] = IF items[i].id = id THEN n ELSE items[i]
    BY <1>2, <2>1 DEF Position
  <2>3. items' \in Seq(Item)
    <3>1. \A i \in 1..Len(items) : items[i] \in Item
      BY <1>2 DEF TypeOK
    <3>2. items' = [i \in 1..Len(items) |-> items'[i]]
      BY <1>2, <2>1, <2>2
    <3> QED
      BY <1>1, <1>2, <2>2, <3>1, <3>2
  <2>4. \A i \in 1..Len(items) : items'[i].id = items[i].id
    BY <1>1, <2>2
  <2>5. \A i, j \in DOMAIN items' : items'[i].id = items'[j].id => i = j
    BY <1>2, <2>2, <2>4 DEF TypeOK
  <2>6. PICK p \in 1..Len(items) : items[p].id = id
    BY <1>2, <1>4 DEF Position
  <2>7. Entries' = {e \in Entries : e.id # id} \cup {n}
    <3>1. \A i \in DOMAIN items' : items'[i] \in {e \in Entries : e.id # id} \cup {n}
      BY <1>2, <2>2 DEF Entries
    <3>2. \A e \in Entries : e.id # id => \E i \in DOMAIN items' : items'[i] = e
      BY <1>2, <2>2 DEF Entries
    <3>3. \E i \in DOMAIN items' : items'[i] = n
      BY <2>2, <2>6
    <3> QED
      BY <3>1, <3>2, <3>3 DEF Entries
  <2> QED
    BY <2>3, <2>5, <2>7 DEF n
<1> QED
  BY <1>3, <1>4

-----------------------------------------------------------------------------
(* A call that is sent is otherwise what it was.                           *)
LEMMA Marked ==
  ASSUME NEW r \in Asked
  PROVE  /\ [r EXCEPT !.sent = TRUE] \in Asked
         /\ [r EXCEPT !.sent = TRUE].asks = r.asks /\ [r EXCEPT !.sent = TRUE].id = r.id
         /\ [r EXCEPT !.sent = TRUE].sent = TRUE
BY DEF Asked

(* A message sent, and one received.                                       *)
LEMMA Sending ==
  ASSUME TypeOK, NEW m \in Message, queue' = Append(queue, m)
  PROVE  queue' \in Seq(Message) /\ Queued' = Queued \cup {m}
<1>1. /\ queue' \in Seq(Message) /\ DOMAIN queue' = 1..(Len(queue) + 1)
      /\ queue'[Len(queue) + 1] = m /\ Len(queue) \in Nat /\ DOMAIN queue = 1..Len(queue)
      /\ \A i \in 1..Len(queue) : queue'[i] = queue[i]
  BY AppendProperties DEF TypeOK
<1>2. \A i \in DOMAIN queue' : queue'[i] \in Queued \cup {m}
  BY <1>1 DEF Queued
<1>3. \A n \in Queued : \E i \in DOMAIN queue' : queue'[i] = n
  BY <1>1 DEF Queued
<1>4. \E i \in DOMAIN queue' : queue'[i] = m
  BY <1>1
<1> QED
  BY <1>1, <1>2, <1>3, <1>4 DEF Queued

LEMMA Receiving ==
  ASSUME TypeOK, Receive
  PROVE  /\ queue' \in Seq(Message) /\ Queued' \subseteq Queued
         /\ Head(queue) \in Message /\ Head(queue) \in Queued
<1>1. /\ queue # <<>> /\ queue' = Tail(queue) /\ queue \in Seq(Message)
  BY DEF Receive, TypeOK
<1>2. /\ Head(queue) = queue[1] /\ Head(queue) \in Message /\ queue' \in Seq(Message)
      /\ 1 \in DOMAIN queue
  BY <1>1
<1>3. \A i \in DOMAIN queue' : i + 1 \in DOMAIN queue /\ queue'[i] = queue[i + 1]
  BY <1>1
<1> QED
  BY <1>2, <1>3 DEF Queued

(* Types, and ids given out in turn.                                       *)
LEMMA Typed == Spec => [](TypeOK /\ InTurn)
<1> USE BoundsAssumption, NoneAssumption, RequestsAssumption
<1>1. Init => TypeOK /\ InTurn
  <2> SUFFICES ASSUME Init PROVE TypeOK /\ InTurn
    OBVIOUS
  <2>1. nextId = 1 /\ nextId \in Id
    BY DEF Init, Fresh, Id
  <2>2. calls = <<>> /\ queue = <<>> /\ items = <<>>
    BY DEF Init, Fresh
  <2>3. Len(calls) = 0 /\ Queued = {} /\ DOMAIN items = {}
    BY <2>2 DEF Queued
  <2>4. /\ calls \in Seq(Asked)
        /\ queue \in Seq(Message) /\ items \in Seq(Item)
    BY <2>2
  <2>5. /\ tags \in [Tag -> Id \cup {None}] /\ generation \in [Id -> Nat \cup {None}]
        /\ nextGen = 0 /\ timers = {} /\ signals \in [Id -> Nat] /\ opened \in [Id -> Nat]
        /\ foreign = FALSE /\ events = 0
    BY DEF Init, Fresh
  <2>6. TypeOK
    <3>1. events \in 0..MaxEvents
      BY <2>5, BoundsAssumption
    <3>2. timers \subseteq Timer /\ foreign \in BOOLEAN
      BY <2>5
    <3> QED
      BY <2>1, <2>3, <2>4, <2>5, <3>1, <3>2 DEF TypeOK
  <2> QED
    BY <2>1, <2>3, <2>6 DEF InTurn
<1>2. TypeOK /\ InTurn /\ [Next]_vars => (TypeOK /\ InTurn)'
  <2> SUFFICES ASSUME TypeOK, InTurn, [Next]_vars PROVE (TypeOK /\ InTurn)'
    OBVIOUS
  <2> USE DEF TypeOK, store, server
  <2>1. ASSUME NEW q \in Requests, Resolve(q) PROVE (TypeOK /\ InTurn)'
    <3>1. q.replaces \in {0} \cup Id /\ q.tag \in Tag \cup {None}
      OBVIOUS
    <3>2. ResolveId(q) \in Id
      BY <3>1 DEF ResolveId
    <3>3. /\ calls' \in Seq(Asked)
          /\ Len(calls') = Len(calls) + 1 /\ Len(calls') <= MaxCalls
      <4> DEFINE asked == [asks |-> q, id |-> ResolveId(q), sent |-> FALSE]
      <4>1. asked \in Asked
        BY <3>2 DEF Asked
      <4>2. calls' = Append(calls, asked) /\ Len(calls) < MaxCalls
        BY <2>1 DEF Resolve
      <4>3. calls \in Seq(Asked) /\ Len(calls) \in Nat
        OBVIOUS
      <4> HIDE DEF asked
      <4> QED
        BY <4>1, <4>2, <4>3, BoundsAssumption
    <3>4. nextId' \in {nextId, nextId + 1} /\ nextId' \in Id /\ nextId' <= Len(calls') + 1
      BY <2>1, <3>3 DEF Resolve, InTurn, Id
    <3>5. tags' \in [Tag -> Id \cup {None}] /\ foreign' \in BOOLEAN
      BY <2>1, <3>1, <3>2 DEF Resolve
    <3>6. Queued' = Queued /\ DOMAIN calls \subseteq DOMAIN calls'
      BY <2>1, <3>3 DEF Resolve, Queued
    <3> QED
      BY <2>1, <3>3, <3>4, <3>5, <3>6 DEF Resolve, InTurn
  <2>2. ASSUME NEW c \in Call, Send(c) PROVE (TypeOK /\ InTurn)'
    <3>1. Add(c) \in Message
      BY DEF Add, Message
    <3>2. /\ calls' \in Seq(Asked)
          /\ Len(calls') = Len(calls) /\ DOMAIN calls' = DOMAIN calls
      <4>1. c \in DOMAIN calls /\ calls' = [calls EXCEPT ![c].sent = TRUE]
        BY <2>2 DEF Send
      <4>2. [calls[c] EXCEPT !.sent = TRUE] \in Asked
        <5>1. calls[c] \in Asked
          BY <4>1
        <5> QED
          BY <5>1, Marked
      <4> QED
        BY <4>1, <4>2
    <3>3. queue' \in Seq(Message) /\ Queued' = Queued \cup {Add(c)}
      BY <2>2, <3>1, Sending DEF Send
    <3>4. \A m \in Queued' : m.kind = "add" => m.call \in DOMAIN calls'
      BY <2>2, <3>2, <3>3 DEF Send, InTurn, Add
    <3> QED
      BY <2>2, <3>2, <3>3, <3>4 DEF Send, InTurn
  <2>3. ASSUME NEW t \in timers, Fire(t) PROVE (TypeOK /\ InTurn)'
    <3>1. Expire(t) \in Message
      BY DEF Expire, Message
    <3>2. queue' \in Seq(Message) /\ Queued' = Queued \cup {Expire(t)}
      BY <2>3, <3>1, Sending DEF Fire
    <3> QED
      BY <2>3, <3>2 DEF Fire, InTurn, Expire
  <2>4. ASSUME NEW id \in Id, AskToClose(id) PROVE (TypeOK /\ InTurn)'
    <3>1. Close(id) \in Message
      BY DEF Close, Message
    <3>2. queue' \in Seq(Message) /\ Queued' = Queued \cup {Close(id)}
      BY <2>4, <3>1, Sending DEF AskToClose
    <3> QED
      BY <2>4, <3>2 DEF AskToClose, Event, InTurn, Close
  <2>5. CASE Restart
    <3>1. nextId' = 1 /\ nextId' \in Id
      BY <2>5 DEF Restart, Id
    <3>2. /\ calls' \in Seq(Asked)
          /\ Len(calls') = Len(calls)
      <4>1. calls' = [c \in DOMAIN calls |-> [calls[c] EXCEPT !.sent = TRUE]]
        BY <2>5 DEF Restart
      <4>2. DOMAIN calls = 1..Len(calls) /\ Len(calls) \in Nat
        OBVIOUS
      <4>3. \A c \in 1..Len(calls) :
              [calls[c] EXCEPT !.sent = TRUE] \in Asked
        <5>1. \A c \in 1..Len(calls) : calls[c] \in Asked
          BY <4>2
        <5> QED
          BY <5>1, Marked
      <4> QED
        BY <4>1, <4>2, <4>3
    <3>3. /\ queue' = <<>> /\ items' = <<>> /\ events' \in 0..MaxEvents
          /\ queue' \in Seq(Message) /\ items' \in Seq(Item) /\ Queued' = {} /\ DOMAIN items' = {}
      BY <2>5 DEF Restart, Event, Queued
    <3>4. /\ tags' \in [Tag -> Id \cup {None}] /\ generation' \in [Id -> Nat \cup {None}]
          /\ nextGen' = 0 /\ timers' = {} /\ signals' \in [Id -> Nat]
          /\ opened' \in [Id -> Nat] /\ foreign' = foreign
      BY <2>5 DEF Restart
    <3>5. InTurn'
      BY <3>1, <3>2, <3>3 DEF InTurn
    <3>6. nextGen' \in Nat /\ timers' \subseteq Timer /\ foreign' \in BOOLEAN
      BY <3>4
    <3>7. \A i, j \in DOMAIN items' : items'[i].id = items'[j].id => i = j
      BY <3>3
    <3> QED
      BY <3>1, <3>2, <3>3, <3>4, <3>5, <3>6, <3>7
  <2>6. ASSUME Receive
        PROVE  /\ Head(queue) \in Message /\ Head(queue) \in Queued
               /\ queue' \in Seq(Message) /\ Queued' \subseteq Queued
    BY <2>6, Receiving
  <2>7. ASSUME NEW id \in Id, RemoveId(id), Receive, UNCHANGED <<server, nextGen, timers, opened, events>>
        PROVE  (TypeOK /\ InTurn)'
    <3>1. /\ items' \in Seq(Item)
          /\ \A i, j \in DOMAIN items' : items'[i].id = items'[j].id => i = j
      BY <2>7, Taking DEF RemoveId
    <3>2. generation' \in [Id -> Nat \cup {None}] /\ signals' \in [Id -> Nat]
      BY <2>7 DEF RemoveId
    <3> QED
      BY <2>6, <2>7, <3>1, <3>2 DEF InTurn
  <2>8. CASE ReceiveAdd
    <3> DEFINE c == Head(queue).call
               id == calls[c].id
    <3>1. Receive /\ c \in Call /\ c \in DOMAIN calls
      BY <2>6, <2>8 DEF ReceiveAdd, Message, InTurn
    <3>2. id \in Id /\ Upsert(id, [id |-> id, call |-> c])
      <4>1. calls[c] \in Asked
        BY <3>1
      <4>2. id \in Id
        BY <4>1 DEF Asked
      <4>3. Upsert(id, [id |-> id, call |-> c])
        BY <2>8 DEF ReceiveAdd
      <4> QED
        BY <4>2, <4>3
    <3>3. /\ timers' \subseteq timers \cup {[id |-> id, gen |-> nextGen, call |-> c]}
          /\ opened' \in {opened, [opened EXCEPT ![id] = @ + 1]}
          /\ UNCHANGED <<server, signals, events>>
      BY <2>8 DEF ReceiveAdd
    <3> HIDE DEF c, id
    <3>4. /\ items' \in Seq(Item)
          /\ \A i, j \in DOMAIN items' : items'[i].id = items'[j].id => i = j
      BY <3>1, <3>2, Putting
    <3>5. generation' \in [Id -> Nat \cup {None}] /\ nextGen' \in Nat
      BY <3>2 DEF Upsert
    <3>6. [id |-> id, gen |-> nextGen, call |-> c] \in Timer
      BY <3>1, <3>2 DEF Timer
    <3>7. timers' \subseteq Timer /\ opened' \in [Id -> Nat]
      <4>1. timers' \subseteq Timer
        BY <3>3, <3>6
      <4>2. [opened EXCEPT ![id] = @ + 1] \in [Id -> Nat]
        BY <3>2
      <4> QED
        BY <3>3, <4>1, <4>2
    <3> QED
      BY <2>6, <3>1, <3>3, <3>4, <3>5, <3>7 DEF InTurn
  <2>9. CASE ReceiveExpire
    <3>1. Receive /\ Head(queue).timer \in Timer
      BY <2>6, <2>9 DEF ReceiveExpire, Message
    <3>2. CASE generation[Head(queue).timer.id] = Head(queue).timer.gen
      <4>1. Head(queue).timer.id \in Id
        BY <3>1 DEF Timer
      <4>2. RemoveId(Head(queue).timer.id)
        BY <2>9, <3>2 DEF ReceiveExpire
      <4> QED
        BY <2>7, <2>9, <3>1, <4>1, <4>2 DEF ReceiveExpire
    <3>3. CASE generation[Head(queue).timer.id] # Head(queue).timer.gen
      BY <2>6, <2>9, <3>1, <3>3 DEF ReceiveExpire, InTurn
    <3> QED
      BY <3>2, <3>3
  <2>10. CASE ReceiveClose
    <3>1. Receive /\ Head(queue).id \in Id
      BY <2>6, <2>10 DEF ReceiveClose, Message
    <3> QED
      BY <2>7, <2>10, <3>1 DEF ReceiveClose
  <2>11. CASE UNCHANGED vars
    BY <2>11 DEF vars, InTurn, Queued
  <2> QED
    BY <2>1, <2>2, <2>3, <2>4, <2>5, <2>8, <2>9, <2>10, <2>11 DEF Next, Loop
<1> QED
  BY <1>1, <1>2, PTL DEF Spec

(* Every variable has its type, and no id is in the list twice.            *)
THEOREM TypesHold == Spec => []TypeOK
BY Typed, PTL

-----------------------------------------------------------------------------
(* What a closing or a timer does to the list: nothing, or an id leaves.   *)
LEMMA Leaving ==
  ASSUME TypeOK, ReceiveExpire \/ ReceiveClose
  PROVE  /\ Receive /\ UNCHANGED <<server, nextGen, timers, opened, events>>
         /\ \/ UNCHANGED <<items, generation, signals>>
            \/ \E id \in Id : RemoveId(id) /\ Entries' = {e \in Entries : e.id # id}
<1>1. Receive /\ UNCHANGED <<server, nextGen, timers, opened, events>>
  BY DEF ReceiveExpire, ReceiveClose
<1>2. Head(queue) \in Message
  BY <1>1, Receiving
<1>3. UNCHANGED <<items, generation, signals>> \/ \E id \in Id : RemoveId(id)
  <2>1. CASE ReceiveExpire
    <3>1. Head(queue).timer.id \in Id
      BY <1>2, <2>1 DEF ReceiveExpire, Message, Timer
    <3> QED
      BY <2>1, <3>1 DEF ReceiveExpire
  <2>2. CASE ReceiveClose
    <3>1. Head(queue).id \in Id
      BY <1>2, <2>2 DEF ReceiveClose, Message
    <3> QED
      BY <2>2, <3>1 DEF ReceiveClose
  <2> QED
    BY <2>1, <2>2
<1>4. \A id \in Id : RemoveId(id) => Entries' = {e \in Entries : e.id # id}
  BY Taking DEF RemoveId, Entries
<1> QED
  BY <1>1, <1>3, <1>4

(* And what a call does to it that is received.                            *)
LEMMA Entering ==
  ASSUME TypeOK, InTurn, ReceiveAdd
  PROVE  LET c == Head(queue).call
             id == calls[c].id
         IN /\ c \in DOMAIN calls /\ c \in Call /\ id \in Id
            /\ Add(c) \in Queued /\ Queued' \subseteq Queued
            /\ Upsert(id, [id |-> id, call |-> c])
            /\ Entries' = {e \in Entries : e.id # id} \cup {[id |-> id, call |-> c]}
<1> DEFINE c == Head(queue).call
           id == calls[c].id
<1>1. Receive /\ Head(queue).kind = "add" /\ Upsert(id, [id |-> id, call |-> c])
  BY DEF ReceiveAdd
<1>2. Head(queue) \in Message /\ Head(queue) \in Queued /\ Queued' \subseteq Queued
  BY <1>1, Receiving
<1>3. c \in Call /\ Head(queue) = Add(c)
  BY <1>1, <1>2 DEF Message, Add
<1>4. c \in DOMAIN calls
  BY <1>1, <1>2 DEF InTurn
<1>5. id \in Id
  <2>1. calls[c] \in Asked
    BY <1>4 DEF TypeOK
  <2> QED
    BY <2>1 DEF Asked
<1> HIDE DEF c, id
<1>6. Entries' = {e \in Entries : e.id # id} \cup {[id |-> id, call |-> c]}
  BY <1>1, <1>3, <1>5, Putting
<1> QED
  BY <1>1, <1>2, <1>3, <1>4, <1>5, <1>6 DEF c, id

(* A client hears that a notification is gone once for each time it came.  *)
THEOREM AnnouncedOnceHolds == Spec => []AnnouncedOnce
<1>1. Init => AnnouncedOnce
  BY DEF Init, Fresh, AnnouncedOnce, Position
<1>2. TypeOK /\ InTurn /\ AnnouncedOnce /\ [Next]_vars => AnnouncedOnce'
  <2> SUFFICES ASSUME TypeOK, InTurn, AnnouncedOnce, [Next]_vars, NEW i \in Id
               PROVE  opened'[i] = signals'[i] + (IF Position(i)' = {} THEN 0 ELSE 1)
    BY DEF AnnouncedOnce
  <2>1. /\ opened[i] = signals[i] + (IF Position(i) = {} THEN 0 ELSE 1)
        /\ opened \in [Id -> Nat] /\ signals \in [Id -> Nat]
    BY DEF AnnouncedOnce, TypeOK
  <2>2. /\ Position(i) = {} <=> \A e \in Entries : e.id # i
        /\ Position(i)' = {} <=> \A e \in Entries' : e.id # i
    BY DEF Position, Entries
  <2>3. CASE UNCHANGED <<items, signals, opened>>
    BY <2>1, <2>3 DEF Position
  <2>4. CASE Restart
    <3>1. opened'[i] = 0 /\ signals'[i] = 0 /\ items' = <<>>
      BY <2>4 DEF Restart
    <3> QED
      BY <3>1 DEF Position
  <2>5. CASE ReceiveAdd
    <3> DEFINE c == Head(queue).call
               id == calls[c].id
    <3>1. id \in Id /\ Entries' = {e \in Entries : e.id # id} \cup {[id |-> id, call |-> c]}
      BY <2>5, Entering
    <3>2. /\ opened' = IF Position(id) = {} THEN [opened EXCEPT ![id] = @ + 1] ELSE opened
          /\ signals' = signals
      BY <2>5 DEF ReceiveAdd
    <3> HIDE DEF c, id
    <3>3. CASE i = id
      <4>1. \E e \in Entries' : e.id = i
        <5>1. [id |-> id, call |-> c] \in Entries' /\ [id |-> id, call |-> c].id = i
          BY <3>1, <3>3
        <5> QED
          BY <5>1
      <4>2. Position(i)' # {}
        BY <2>2, <4>1
      <4> QED
        BY <2>1, <3>2, <3>3, <4>2
    <3>4. CASE i # id
      <4>1. Position(i)' = {} <=> Position(i) = {}
        BY <2>2, <3>1, <3>4
      <4> QED
        BY <2>1, <3>1, <3>2, <3>4, <4>1
    <3> QED
      BY <3>3, <3>4
  <2>6. ASSUME NEW id \in Id, RemoveId(id), Entries' = {e \in Entries : e.id # id}, opened' = opened
        PROVE  opened'[i] = signals'[i] + (IF Position(i)' = {} THEN 0 ELSE 1)
    <3>1. signals' = IF Position(id) = {} THEN signals ELSE [signals EXCEPT ![id] = @ + 1]
      BY <2>6 DEF RemoveId
    <3>2. CASE i = id
      <4>1. Position(i)' = {}
        BY <2>2, <2>6, <3>2
      <4> QED
        BY <2>1, <2>6, <3>1, <3>2, <4>1
    <3>3. CASE i # id
      <4>1. Position(i)' = {} <=> Position(i) = {}
        BY <2>2, <2>6, <3>3
      <4> QED
        BY <2>1, <2>6, <3>1, <3>3, <4>1
    <3> QED
      BY <3>2, <3>3
  <2>7. CASE ReceiveExpire \/ ReceiveClose
    BY <2>3, <2>6, <2>7, Leaving
  <2>8. CASE \/ \E q \in Requests : Resolve(q)
             \/ \E c \in Call : Send(c)
             \/ \E t \in timers : Fire(t)
             \/ \E id \in Id : AskToClose(id)
             \/ UNCHANGED vars
    BY <2>3, <2>8 DEF Resolve, Send, Fire, AskToClose, store, vars
  <2> QED
    BY <2>4, <2>5, <2>7, <2>8 DEF Next, Loop
<1> QED
  BY <1>1, <1>2, Typed, PTL DEF Spec

-----------------------------------------------------------------------------
(* A timer with the generation of its id was set for what has the id.      *)
LEMMA StampedHolds == Spec => []Stamped
<1>1. Init => Stamped
  BY DEF Init, Fresh, Stamped, UnderWay, Queued
<1>2. TypeOK /\ InTurn /\ Stamped /\ [Next]_vars => Stamped'
  <2> SUFFICES ASSUME TypeOK, InTurn, Stamped, [Next]_vars, NEW t \in Timer, UnderWay(t)'
               PROVE  /\ t.gen < nextGen'
                      /\ generation'[t.id] = t.gen => [id |-> t.id, call |-> t.call] \in Entries'
    BY DEF Stamped
  <2> DEFINE e == [id |-> t.id, call |-> t.call]
  <2>1. /\ t.id \in Id /\ t.gen \in Nat /\ t.gen # None /\ nextGen \in Nat
        /\ generation \in [Id -> Nat \cup {None}] /\ e.id = t.id
    BY NoneAssumption DEF Timer, TypeOK
  <2>2. UnderWay(t) => t.gen < nextGen /\ (generation[t.id] = t.gen => e \in Entries)
    BY DEF Stamped
  <2> HIDE DEF e
  <2>3. ASSUME UnderWay(t), UNCHANGED <<items, generation, nextGen>>
        PROVE  t.gen < nextGen' /\ (generation'[t.id] = t.gen => e \in Entries')
    BY <2>2, <2>3 DEF Entries
  <2>4. ASSUME NEW m \in Message, queue' = Append(queue, m), m = Expire(t) => t \in timers,
               timers' \subseteq timers
        PROVE  UnderWay(t)
    <3>1. Queued' = Queued \cup {m}
      BY <2>4, Sending
    <3> QED
      BY <2>4, <3>1 DEF UnderWay
  <2>5. CASE UNCHANGED <<store, queue, timers>>
    <3>1. UnderWay(t)
      BY <2>5 DEF UnderWay, Queued
    <3> QED
      BY <2>3, <2>5, <3>1 DEF store, e
  <2>6. ASSUME NEW c \in Call, Send(c) PROVE UnderWay(t) /\ UNCHANGED <<items, generation, nextGen>>
    <3>1. Add(c) \in Message /\ Add(c) # Expire(t)
      BY DEF Add, Expire, Message
    <3> QED
      BY <2>4, <2>6, <3>1 DEF Send, store
  <2>7. ASSUME NEW u \in timers, Fire(u) PROVE UnderWay(t) /\ UNCHANGED <<items, generation, nextGen>>
    <3>1. Expire(u) \in Message /\ (Expire(u) = Expire(t) => t = u)
      BY DEF Expire, Message, TypeOK
    <3> QED
      BY <2>4, <2>7, <3>1 DEF Fire, store
  <2>8. ASSUME NEW id \in Id, AskToClose(id) PROVE UnderWay(t) /\ UNCHANGED <<items, generation, nextGen>>
    <3>1. Close(id) \in Message /\ Close(id) # Expire(t)
      BY DEF Close, Expire, Message
    <3> QED
      BY <2>4, <2>8, <3>1 DEF AskToClose, store
  <2>9. ~Restart
    <3> SUFFICES ASSUME Restart PROVE FALSE
      OBVIOUS
    <3>1. timers' = {} /\ queue' = <<>>
      BY DEF Restart
    <3> QED
      BY <3>1 DEF UnderWay, Queued
  <2>10. CASE ReceiveExpire \/ ReceiveClose
    <3>1. /\ Receive /\ UNCHANGED <<nextGen, timers>>
          /\ \/ UNCHANGED <<items, generation>>
             \/ \E id \in Id : RemoveId(id) /\ Entries' = {x \in Entries : x.id # id}
      BY <2>10, Leaving
    <3>2. UnderWay(t)
      BY <3>1, Receiving DEF UnderWay
    <3>3. ASSUME NEW id \in Id, RemoveId(id), Entries' = {x \in Entries : x.id # id}
          PROVE  generation'[t.id] = t.gen => e \in Entries'
      <4>1. generation' = [generation EXCEPT ![id] = None]
        BY <3>3 DEF RemoveId
      <4> QED
        BY <2>1, <2>2, <3>2, <3>3, <4>1
    <3> QED
      BY <2>2, <2>3, <3>1, <3>2, <3>3 DEF e
  <2>11. CASE ReceiveAdd
    <3> DEFINE c == Head(queue).call
               id == calls[c].id
               n == [id |-> id, call |-> c]
    <3>1. /\ c \in Call /\ id \in Id /\ Queued' \subseteq Queued /\ Upsert(id, n)
          /\ Entries' = {x \in Entries : x.id # id} \cup {n}
      BY <2>11, Entering
    <3>2. generation' = [generation EXCEPT ![id] = nextGen] /\ nextGen' = nextGen + 1
      BY <3>1 DEF Upsert
    <3>3. timers' \subseteq timers \cup {[id |-> id, gen |-> nextGen, call |-> c]}
      BY <2>11 DEF ReceiveAdd
    <3> HIDE DEF c, id
    <3>4. CASE UnderWay(t)
      BY <2>1, <2>2, <3>1, <3>2, <3>4 DEF e
    <3>5. CASE t = [id |-> id, gen |-> nextGen, call |-> c]
      BY <2>1, <3>1, <3>2, <3>5 DEF e
    <3> QED
      BY <3>1, <3>3, <3>4, <3>5 DEF UnderWay
  <2> QED
    <3>1. CASE UNCHANGED vars \/ \E q \in Requests : Resolve(q)
      BY <2>5, <3>1 DEF vars, store, Resolve, e
    <3>2. CASE \/ \E c \in Call : Send(c)
               \/ \E u \in timers : Fire(u)
               \/ \E id \in Id : AskToClose(id)
      BY <2>3, <2>6, <2>7, <2>8, <3>2 DEF e
    <3> QED
      BY <2>9, <2>10, <2>11, <3>1, <3>2 DEF Next, Loop, e
<1> QED
  BY <1>1, <1>2, Typed, PTL DEF Spec

(* A timer takes away the very notification it was set for, or nothing.    *)
THEOREM ExpiryHitsItsOwnHolds == Spec => ExpiryHitsItsOwn
<1>1. TypeOK /\ Stamped /\ [Next]_vars =>
        [ReceiveExpire /\ items' # items =>
           \E i \in DOMAIN items : items[i].call = Head(queue).timer.call /\ items' = RemoveAt(items, i)]_vars
  <2> SUFFICES ASSUME TypeOK, Stamped, ReceiveExpire, items' # items
               PROVE  \E i \in DOMAIN items : items[i].call = Head(queue).timer.call
                                              /\ items' = RemoveAt(items, i)
    OBVIOUS
  <2> DEFINE t == Head(queue).timer
  <2>1. t \in Timer /\ UnderWay(t)
    <3>1. Head(queue) \in Message /\ Head(queue) \in Queued /\ Head(queue).kind = "expire"
      BY Receiving DEF ReceiveExpire
    <3>2. t \in Timer /\ Head(queue) = Expire(t)
      BY <3>1 DEF Message, Expire
    <3> QED
      BY <3>1, <3>2 DEF UnderWay
  <2>2. generation[t.id] = t.gen /\ items' = Without(t.id)
    BY DEF ReceiveExpire, RemoveId
  <2> HIDE DEF t
  <2>3. PICK i \in DOMAIN items : items[i] = [id |-> t.id, call |-> t.call]
    BY <2>1, <2>2 DEF Stamped, Entries
  <2>4. Position(t.id) = {i}
    BY <2>3 DEF Position, TypeOK
  <2>5. items' = RemoveAt(items, i)
    BY <2>2, <2>4 DEF Without
  <2> QED
    BY <2>3, <2>5 DEF t
<1> QED
  BY <1>1, Typed, StampedHolds, PTL DEF Spec, ExpiryHitsItsOwn

-----------------------------------------------------------------------------
(* What has a tag that no call passes by has the id of the tag.            *)
LEMMA TaggedHolds == Spec => []Tagged
<1> DEFINE Own == \A e \in Entries : e.call \in DOMAIN calls /\ e.id = calls[e.call].id
           Follows(c) == Alive(c) /\ calls[c].asks.tag # None /\ TagOnly(calls[c].asks.tag)
                           => calls[c].id = tags[calls[c].asks.tag]
<1>1. Init => Tagged
  BY DEF Init, Fresh, Tagged, Entries
<1>2. TypeOK /\ InTurn /\ Tagged /\ [Next]_vars => Tagged'
  <2> SUFFICES ASSUME TypeOK, InTurn, Tagged, [Next]_vars
               PROVE  Own' /\ \A c \in DOMAIN calls' : Follows(c)'
    BY DEF Tagged
  <2>1. Own /\ \A c \in DOMAIN calls : Follows(c)
    BY DEF Tagged
  <2>2. DOMAIN calls = 1..Len(calls) /\ Len(calls) \in Nat
    BY DEF TypeOK
  <2>3. \A c \in DOMAIN calls : calls[c] \in Asked /\ calls[c].id \in Id /\ calls[c].asks \in Requests
    <3>1. \A c \in DOMAIN calls : calls[c] \in Asked
      BY DEF TypeOK
    <3> QED
      BY <3>1 DEF Asked
  <2> HIDE DEF Own
  <2>4. ASSUME tags' = tags, DOMAIN calls' = DOMAIN calls,
               \A c \in DOMAIN calls : calls'[c].asks = calls[c].asks /\ calls'[c].id = calls[c].id,
               \A c \in DOMAIN calls : Alive(c)' => Alive(c)
        PROVE  \A c \in DOMAIN calls' : Follows(c)'
    <3>1. \A tag : TagOnly(tag)' <=> TagOnly(tag)
      BY <2>4 DEF TagOnly
    <3> QED
      BY <2>1, <2>4, <3>1
  <2>5. ASSUME NEW q \in Requests, Resolve(q)
        PROVE  Own' /\ \A c \in DOMAIN calls' : Follows(c)'
    <3> DEFINE n == Len(calls) + 1
    <3>1. /\ DOMAIN calls' = 1..n /\ calls'[n].asks = q /\ calls'[n].id = ResolveId(q)
          /\ \A c \in DOMAIN calls : calls'[c] = calls[c]
      BY <2>2, <2>5 DEF Resolve, TypeOK
    <3>2. tags' = IF q.tag = None THEN tags ELSE [tags EXCEPT ![q.tag] = ResolveId(q)]
      BY <2>5 DEF Resolve
    <3>3. Entries' = Entries /\ Queued' = Queued
      BY <2>5 DEF Resolve, Entries, Queued, store
    <3>4. Own'
      BY <2>1, <2>2, <3>1, <3>3 DEF Own
    <3>5. q.tag \in Tag \cup {None} /\ tags \in [Tag -> Id \cup {None}]
      BY RequestsAssumption DEF TypeOK
    <3>6. ASSUME NEW c, c = n PROVE Follows(c)'
      <4>1. calls'[c].asks.tag # None => calls'[c].id = tags'[calls'[c].asks.tag]
        BY <3>1, <3>2, <3>5, <3>6
      <4> QED
        BY <4>1
    <3>7. ASSUME NEW c \in DOMAIN calls PROVE Follows(c)'
      <4> SUFFICES ASSUME Alive(c)', calls[c].asks.tag # None, TagOnly(calls[c].asks.tag)'
                   PROVE  calls[c].id = tags'[calls[c].asks.tag]
        BY <3>1
      <4>1. Alive(c) /\ TagOnly(calls[c].asks.tag)
        BY <2>2, <3>1, <3>3 DEF Alive, TagOnly
      <4>2. calls[c].id = tags[calls[c].asks.tag] /\ calls[c].asks.tag \in Tag
        BY <2>1, <2>3, <4>1, RequestsAssumption
      <4>3. CASE q.tag = calls[c].asks.tag
        <5>1. q.replaces = 0
          BY <2>2, <3>1, <4>3 DEF TagOnly
        <5>2. tags[q.tag] # None
          BY <2>3, <4>2, <4>3, NoneAssumption DEF Id
        <5> QED
          BY <3>2, <3>5, <4>2, <4>3, <5>1, <5>2 DEF ResolveId
      <4>4. CASE q.tag # calls[c].asks.tag
        BY <3>2, <3>5, <4>2, <4>4
      <4> QED
        BY <4>3, <4>4
    <3> QED
      BY <2>2, <3>1, <3>4, <3>6, <3>7
  <2>6. ASSUME NEW c \in Call, Send(c)
        PROVE  Own' /\ \A d \in DOMAIN calls' : Follows(d)'
    <3>1. /\ c \in DOMAIN calls /\ ~calls[c].sent /\ calls' = [calls EXCEPT ![c].sent = TRUE]
          /\ queue' = Append(queue, Add(c)) /\ tags' = tags /\ Entries' = Entries
      BY <2>6 DEF Send, store, Entries
    <3>2. /\ DOMAIN calls' = DOMAIN calls
          /\ \A d \in DOMAIN calls : /\ calls'[d].asks = calls[d].asks /\ calls'[d].id = calls[d].id
                                     /\ d # c => calls'[d] = calls[d]
      BY <2>3, <3>1, Marked
    <3>3. Queued' = Queued \cup {Add(c)}
      BY <3>1, Sending DEF Add, Message
    <3>4. \A d \in DOMAIN calls : Alive(d)' => Alive(d)
      BY <3>1, <3>2, <3>3 DEF Alive, Add
    <3>5. Own'
      BY <2>1, <3>1, <3>2 DEF Own
    <3> QED
      BY <2>4, <3>1, <3>2, <3>4, <3>5
  <2>7. ASSUME NEW m \in Message, m.kind # "add", queue' = Append(queue, m),
               UNCHANGED <<server, items>>
        PROVE  Own' /\ \A c \in DOMAIN calls' : Follows(c)'
    <3>1. Queued' = Queued \cup {m} /\ Entries' = Entries
      BY <2>7, Sending DEF Entries
    <3>2. \A c \in DOMAIN calls : Alive(c)' => Alive(c)
      BY <2>7, <3>1 DEF Alive, Add, server
    <3>3. Own'
      BY <2>1, <2>7, <3>1 DEF Own, server
    <3> QED
      BY <2>4, <2>7, <3>2, <3>3 DEF server
  <2>8. ASSUME UNCHANGED server, Queued' \subseteq Queued, Entries' \subseteq Entries
        PROVE  Own' /\ \A c \in DOMAIN calls' : Follows(c)'
    <3>1. \A c \in DOMAIN calls : Alive(c)' => Alive(c)
      BY <2>8 DEF Alive, server
    <3>2. Own'
      BY <2>1, <2>8 DEF Own, server
    <3> QED
      BY <2>4, <2>8, <3>1, <3>2 DEF server
  <2>9. CASE Restart
    <3>1. /\ items' = <<>> /\ queue' = <<>>
          /\ DOMAIN calls' = DOMAIN calls /\ \A c \in DOMAIN calls : calls'[c].sent = TRUE
      BY <2>3, <2>9, Marked DEF Restart
    <3>2. Entries' = {} /\ Queued' = {}
      BY <3>1 DEF Entries, Queued
    <3>3. Own'
      BY <3>2 DEF Own
    <3>4. \A c \in DOMAIN calls' : ~Alive(c)'
      BY <3>1, <3>2 DEF Alive
    <3> QED
      BY <3>3, <3>4
  <2>10. CASE ReceiveAdd
    <3> DEFINE c == Head(queue).call
               id == calls[c].id
    <3>1. /\ c \in DOMAIN calls /\ Add(c) \in Queued /\ Queued' \subseteq Queued
          /\ Entries' = {e \in Entries : e.id # id} \cup {[id |-> id, call |-> c]}
      BY <2>10, Entering
    <3>2. UNCHANGED server
      BY <2>10 DEF ReceiveAdd
    <3> HIDE DEF c
    <3>3. \A d \in DOMAIN calls : Alive(d)' => Alive(d)
      BY <3>1, <3>2 DEF Alive, server
    <3>4. Own'
      BY <2>1, <3>1, <3>2 DEF Own, server
    <3> QED
      BY <2>4, <3>2, <3>3, <3>4 DEF server
  <2>11. CASE ReceiveExpire \/ ReceiveClose
    <3>1. Queued' \subseteq Queued /\ Entries' \subseteq Entries /\ UNCHANGED server
      BY <2>11, Leaving, Receiving DEF Entries
    <3> QED
      BY <2>8, <3>1
  <2>12. CASE UNCHANGED vars
    BY <2>8, <2>12 DEF vars, server, Queued, Entries
  <2>13. ASSUME NEW t \in timers, Fire(t) PROVE Own' /\ \A c \in DOMAIN calls' : Follows(c)'
    <3>1. Expire(t) \in Message /\ Expire(t).kind # "add"
      BY DEF Expire, Message, TypeOK
    <3> QED
      BY <2>7, <2>13, <3>1 DEF Fire, store
  <2>14. ASSUME NEW id \in Id, AskToClose(id) PROVE Own' /\ \A c \in DOMAIN calls' : Follows(c)'
    <3>1. Close(id) \in Message /\ Close(id).kind # "add"
      BY DEF Close, Message
    <3> QED
      BY <2>7, <2>14, <3>1 DEF AskToClose, store
  <2> HIDE DEF Follows
  <2> QED
    BY <2>5, <2>6, <2>9, <2>10, <2>11, <2>12, <2>13, <2>14 DEF Next, Loop
<1> QED
  BY <1>1, <1>2, Typed, PTL DEF Spec

(* Calls with one tag, none of which names an id, share a popup.           *)
THEOREM OnePopupPerTagHolds == Spec => []OnePopupPerTag
<1>1. TypeOK /\ Tagged => OnePopupPerTag
  <2> SUFFICES ASSUME TypeOK, Tagged, NEW i \in DOMAIN items, NEW j \in DOMAIN items,
                      LET asks == [c \in DOMAIN calls |-> calls[c].asks]
                          tag == asks[items[i].call].tag
                      IN tag # None /\ tag = asks[items[j].call].tag
                         /\ \A c \in DOMAIN calls : asks[c].tag = tag => asks[c].replaces = 0
               PROVE  i = j
    BY DEF OnePopupPerTag
  <2> DEFINE c == items[i].call
             d == items[j].call
             tag == calls[c].asks.tag
  <2>1. items[i] \in Entries /\ items[j] \in Entries
    BY DEF Entries
  <2>2. /\ c \in DOMAIN calls /\ items[i].id = calls[c].id /\ Alive(c)
        /\ d \in DOMAIN calls /\ items[j].id = calls[d].id /\ Alive(d)
    BY <2>1 DEF Tagged, Alive
  <2>3. tag # None /\ calls[d].asks.tag = tag /\ TagOnly(tag)
    BY <2>2 DEF TagOnly
  <2>4. calls[c].id = tags[tag] /\ calls[d].id = tags[tag]
    BY <2>2, <2>3 DEF Tagged
  <2>5. items[i].id = items[j].id
    BY <2>2, <2>4
  <2> QED
    BY <2>5 DEF TypeOK
<1> QED
  BY <1>1, Typed, TaggedHolds, PTL

-----------------------------------------------------------------------------
(* The timer of what has a timeout.                                        *)
TimerOf(e) == [id |-> e.id, gen |-> generation[e.id], call |-> e.call]
Timely == \A e \in Entries : calls[e.call].asks.timeout \in {"default", "given"} => UnderWay(TimerOf(e))

(* What is taken from the queue is all that leaves it.                     *)
LEMMA OneLess ==
  ASSUME TypeOK, Receive
  PROVE  Queued \subseteq Queued' \cup {Head(queue)}
<1>1. /\ queue # <<>> /\ queue' = Tail(queue) /\ queue \in Seq(Message)
  BY DEF Receive, TypeOK
<1>2. /\ Head(queue) = queue[1] /\ Len(queue) \in Nat /\ DOMAIN queue = 1..Len(queue)
      /\ DOMAIN queue' = 1..(Len(queue) - 1)
      /\ \A i \in 1..(Len(queue) - 1) : queue'[i] = queue[i + 1]
  BY <1>1
<1>3. ASSUME NEW i \in DOMAIN queue PROVE queue[i] \in Queued' \cup {Head(queue)}
  <2>1. CASE i = 1
    BY <1>2, <2>1
  <2>2. CASE i # 1
    <3>1. i - 1 \in 1..(Len(queue) - 1) /\ (i - 1) + 1 = i
      BY <1>2, <2>2
    <3>2. queue[i] = queue'[i - 1]
      BY <1>2, <3>1
    <3> QED BY <1>2, <3>1, <3>2 DEF Queued
  <2> QED BY <2>1, <2>2
<1> QED BY <1>3 DEF Queued

(* A new timer is set whenever a notification with a timeout comes in, its *)
(* id is free again or it is replaced; and the loop drops a timer only if  *)
(* it is not that of what has its id, or takes that away with it.          *)
LEMMA TimelyHolds == Spec => []Timely
<1>1. Init => Timely
  BY DEF Init, Fresh, Timely, Entries
<1>2. TypeOK /\ InTurn /\ Tagged /\ Timely /\ [Next]_vars => Timely'
  <2> SUFFICES ASSUME TypeOK, InTurn, Tagged, Timely, [Next]_vars,
                      NEW e \in Entries', calls'[e.call].asks.timeout \in {"default", "given"}
               PROVE  UnderWay(TimerOf(e))'
    BY DEF Timely
  <2>1. \A x \in Entries : x \in Item /\ x.id \in Id /\ x.call \in DOMAIN calls
    <3>1. \A x \in Entries : x \in Item
      BY DEF Entries, TypeOK
    <3> QED BY <3>1 DEF Item, Tagged
  <2>2. ASSUME e \in Entries, generation'[e.id] = generation[e.id], timers \subseteq timers',
               \A t : Expire(t) \in Queued /\ ~(Expire(t) \in Queued') => t # TimerOf(e),
               calls'[e.call].asks = calls[e.call].asks
        PROVE  UnderWay(TimerOf(e))'
    <3>1. UnderWay(TimerOf(e))
      BY <2>2 DEF Timely
    <3>2. TimerOf(e)' = TimerOf(e)
      BY <2>2 DEF TimerOf
    <3> QED BY <2>2, <3>1, <3>2 DEF UnderWay
  <2>3. ASSUME NEW q \in Requests, Resolve(q) PROVE UnderWay(TimerOf(e))'
    <3>1. Entries' = Entries /\ Queued' = Queued /\ timers' = timers /\ generation' = generation
      BY <2>3 DEF Resolve, store, Entries, Queued
    <3>2. calls'[e.call] = calls[e.call]
      <4>1. e.call \in 1..Len(calls) /\ calls \in Seq(Asked)
        BY <2>1, <3>1 DEF TypeOK
      <4>2. calls' = Append(calls, [asks |-> q, id |-> ResolveId(q), sent |-> FALSE])
        BY <2>3 DEF Resolve
      <4> QED BY <4>1, <4>2
    <3> QED BY <2>2, <3>1, <3>2
  <2>4. ASSUME NEW c \in Call, Send(c) PROVE UnderWay(TimerOf(e))'
    <3>1. Entries' = Entries /\ timers' = timers /\ generation' = generation
      BY <2>4 DEF Send, store, Entries
    <3>2. Queued' = Queued \cup {Add(c)}
      <4>1. Add(c) \in Message
        BY DEF Add, Message
      <4> QED BY <2>4, <4>1, Sending DEF Send
    <3>3. calls'[e.call].asks = calls[e.call].asks
      <4>1. c \in DOMAIN calls /\ calls' = [calls EXCEPT ![c].sent = TRUE] /\ e.call \in DOMAIN calls
        BY <2>1, <2>4, <3>1 DEF Send
      <4>2. calls[e.call] \in Asked
        BY <4>1 DEF TypeOK
      <4> QED BY <4>1, <4>2 DEF Asked
    <3> QED BY <2>2, <3>1, <3>2, <3>3
  <2>5. ASSUME NEW t \in timers, Fire(t) PROVE UnderWay(TimerOf(e))'
    <3>1. Entries' = Entries /\ generation' = generation /\ calls' = calls /\ timers' = timers \ {t}
      BY <2>5 DEF Fire, store, server, Entries
    <3>2. Queued' = Queued \cup {Expire(t)}
      <4>1. Expire(t) \in Message
        BY DEF Expire, Message, TypeOK
      <4> QED BY <2>5, <4>1, Sending DEF Fire
    <3>3. UnderWay(TimerOf(e))
      BY <3>1 DEF Timely
    <3>4. TimerOf(e)' = TimerOf(e)
      BY <3>1 DEF TimerOf
    <3> QED BY <3>1, <3>2, <3>3, <3>4 DEF UnderWay
  <2>6. ASSUME NEW id \in Id, AskToClose(id) PROVE UnderWay(TimerOf(e))'
    <3>1. Entries' = Entries /\ generation' = generation /\ calls' = calls /\ timers' = timers
      BY <2>6 DEF AskToClose, store, server, Entries
    <3>2. Queued' = Queued \cup {Close(id)}
      <4>1. Close(id) \in Message
        BY DEF Close, Message
      <4> QED BY <2>6, <4>1, Sending DEF AskToClose
    <3> QED BY <2>2, <3>1, <3>2
  <2>7. ~Restart
    <3> SUFFICES ASSUME Restart PROVE FALSE
      OBVIOUS
    <3>1. items' = <<>>
      BY DEF Restart
    <3> QED BY <3>1 DEF Entries
  <2>8. ASSUME Receive, Entries' \subseteq Entries, UNCHANGED <<calls, timers>>,
               generation'[e.id] = generation[e.id], Head(queue) # Expire(TimerOf(e))
        PROVE  UnderWay(TimerOf(e))'
    <3>1. \A t : Expire(t) \in Queued /\ ~(Expire(t) \in Queued') => t # TimerOf(e)
      <4>1. Queued \subseteq Queued' \cup {Head(queue)}
        BY <2>8, OneLess
      <4> QED BY <2>8, <4>1
    <3> QED BY <2>2, <2>8, <3>1
  <2>9. ASSUME NEW id \in Id, RemoveId(id), Entries' = {x \in Entries : x.id # id}
        PROVE  e.id # id /\ generation'[e.id] = generation[e.id]
    <3>1. generation' = [generation EXCEPT ![id] = None] /\ e.id \in Id /\ e.id # id
      BY <2>1, <2>9 DEF RemoveId
    <3> QED BY <3>1 DEF TypeOK
  <2>10. CASE ReceiveClose
    <3>1. Receive /\ Head(queue).kind = "close" /\ RemoveId(Head(queue).id) /\ UNCHANGED <<calls, timers>>
      BY <2>10 DEF ReceiveClose, server
    <3>2. Head(queue).id \in Id /\ Head(queue) # Expire(TimerOf(e))
      <4>1. Head(queue) \in Message
        BY <3>1, Receiving
      <4> QED BY <3>1, <4>1 DEF Message, Expire
    <3>3. Entries' = {x \in Entries : x.id # Head(queue).id}
      BY <3>1, <3>2, Taking DEF RemoveId, Entries
    <3> QED BY <2>8, <2>9, <3>1, <3>2, <3>3
  <2>11. CASE ReceiveExpire
    <3> DEFINE t == Head(queue).timer
    <3>1. Receive /\ Head(queue).kind = "expire" /\ UNCHANGED <<calls, timers>>
      BY <2>11 DEF ReceiveExpire, server
    <3>2. t \in Timer /\ t.id \in Id /\ Head(queue) = Expire(t)
      <4>1. Head(queue) \in Message
        BY <3>1, Receiving
      <4> QED BY <3>1, <4>1 DEF Message, Expire, Timer
    <3>3. \A u, v : Expire(u) = Expire(v) => u = v
      BY DEF Expire
    <3> HIDE DEF t
    <3>4. CASE generation[t.id] = t.gen
      <4>1. RemoveId(t.id)
        BY <2>11, <3>4 DEF ReceiveExpire, t
      <4>2. Entries' = {x \in Entries : x.id # t.id}
        BY <3>2, <4>1, Taking DEF RemoveId, Entries
      <4>3. e.id # t.id /\ generation'[e.id] = generation[e.id]
        BY <2>9, <3>2, <4>1, <4>2
      <4>4. TimerOf(e) # t
        BY <4>3 DEF TimerOf
      <4> QED BY <2>8, <3>1, <3>2, <3>3, <4>2, <4>3, <4>4
    <3>5. CASE generation[t.id] # t.gen
      <4>1. UNCHANGED <<items, generation>>
        BY <2>11, <3>5 DEF ReceiveExpire, t
      <4>2. Entries' = Entries
        BY <4>1 DEF Entries
      <4>3. TimerOf(e) # t
        BY <3>5 DEF TimerOf
      <4> QED BY <2>8, <3>1, <3>2, <3>3, <4>1, <4>2, <4>3
    <3> QED BY <3>4, <3>5
  <2>12. CASE ReceiveAdd
    <3> DEFINE c == Head(queue).call
               id == calls[c].id
               n == [id |-> id, call |-> c]
    <3>1. /\ c \in Call /\ id \in Id /\ Upsert(id, n) /\ Receive /\ Head(queue).kind = "add"
          /\ Entries' = {x \in Entries : x.id # id} \cup {n} /\ calls' = calls
      BY <2>12, Entering DEF ReceiveAdd, server
    <3>2. generation' = [generation EXCEPT ![id] = nextGen]
      BY <3>1 DEF Upsert
    <3>3. timers' = IF Expires(calls[c].asks.timeout)
                    THEN timers \cup {[id |-> id, gen |-> nextGen, call |-> c]} ELSE timers
      BY <2>12 DEF ReceiveAdd
    <3>4. n.id = id /\ n.call = c
      OBVIOUS
    <3> HIDE DEF c, id, n
    <3>5. CASE e = n
      <4>1. TimerOf(e)' = [id |-> id, gen |-> nextGen, call |-> c]
        BY <3>1, <3>2, <3>4, <3>5 DEF TimerOf, TypeOK
      <4>2. Expires(calls[c].asks.timeout)
        BY <3>1, <3>4, <3>5 DEF Expires
      <4> QED BY <3>3, <4>1, <4>2 DEF UnderWay
    <3>6. CASE e # n
      <4>1. e \in Entries /\ e.id # id /\ e.id \in Id
        BY <2>1, <3>1, <3>6
      <4>2. generation'[e.id] = generation[e.id]
        BY <3>2, <4>1 DEF TypeOK
      <4>3. \A t : Expire(t) \in Queued /\ ~(Expire(t) \in Queued') => t # TimerOf(e)
        <5>1. Queued \subseteq Queued' \cup {Head(queue)}
          BY <3>1, OneLess
        <5>2. \A t : Expire(t) # Head(queue)
          BY <3>1 DEF Expire
        <5> QED BY <5>1, <5>2
      <4> QED BY <2>2, <3>1, <3>3, <4>1, <4>2, <4>3
    <3> QED BY <3>5, <3>6
  <2>13. CASE UNCHANGED vars
    <3>1. Entries' = Entries /\ Queued' = Queued
      BY <2>13 DEF vars, Entries, Queued
    <3> QED BY <2>2, <2>13, <3>1 DEF vars
  <2> QED
    BY <2>3, <2>4, <2>5, <2>6, <2>7, <2>10, <2>11, <2>12, <2>13 DEF Next, Loop
<1> QED
  BY <1>1, <1>2, Typed, TaggedHolds, PTL DEF Spec

(* No notification with a timeout is left without a timer of its own,      *)
(* however often its id is replaced, closed and used again: what is left of*)
(* TimedGo is that timers fire and the loop receives.                      *)
THEOREM NoTimerIsLost == Spec => []TimersKept
<1>1. Timely => TimersKept
  <2> SUFFICES ASSUME Timely, NEW i \in DOMAIN items,
                      calls[items[i].call].asks.timeout \in {"default", "given"}
               PROVE  LET timer == [id |-> items[i].id, gen |-> generation[items[i].id],
                                    call |-> items[i].call]
                      IN timer \in timers \/ \E k \in DOMAIN queue : queue[k] = Expire(timer)
    BY DEF TimersKept
  <2>1. UnderWay(TimerOf(items[i]))
    BY DEF Timely, Entries
  <2> QED BY <2>1 DEF UnderWay, TimerOf, Queued
<1> QED BY <1>1, TimelyHolds, PTL
=============================================================================
