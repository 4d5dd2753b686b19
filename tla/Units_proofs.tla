----------------------------- MODULE Units_proofs -----------------------------
(* Proofs about Units: only one sweeper acts on the world, a sweep that    *)
(* nothing disturbs is enough, and a settled world is left alone.          *)
EXTENDS Units, TLAPS

(* What only one Item can have is wanted by Items of one Unit, which can   *)
(* free it, and a layout declares one holder of it.                        *)
Claimable ==
  /\ \A i, j \in Item : i.key \in Claims /\ j.key \in Claims => i.unit = j.unit
  /\ \A i \in Item : i.key \in Claims => "exit" \in Manages[i.unit]
  /\ \A l \in Layout, d \in Data, g \in Globals : Declares[l][d][g] # Throws =>
       \A i, j \in Declares[l][d][g] : i.key \in Claims /\ j.key \in Claims => i.key = j.key

(* Right, After and Taken for a world that is given.                       *)
RightIn(u, items, there) ==
  /\ "enter" \in Manages[u] => \A i \in Of(u, items) : Has(there, i)
  /\ "update" \in Manages[u] => \A i \in Of(u, items) : Has(there, i) => i \in there
  /\ "exit" \in Manages[u] => \A i \in Of(u, there) : Has(items, i)
AfterIn(hook, acted, there) ==
  IF hook = "exit" THEN {i \in there : ~Has(acted, i)}
  ELSE {i \in there : ~Has(acted, i)} \cup acted
TakenIn(item, there) ==
  item.key \in Claims /\ \E i \in there : i.key \in Claims /\ i.key # item.key
Given(hook, s) == IF hook \in Manages[s.unit] THEN Batch(hook, s) ELSE {}

(* What the hooks before this one have made of the Unit's part of the      *)
(* world: no stranger left, what it saw still there, then as declared.     *)
Freed(s, there) ==
  "exit" \in Manages[s.unit] => \A w \in Of(s.unit, there) : Has(s.declared, w)
Stage(s, there) ==
  /\ s.at = "exit" => s.seen = Of(s.unit, there)
  /\ s.at = "update" =>
       /\ Freed(s, there)
       /\ \A w \in Item : w.unit = s.unit /\ Has(s.declared, w) => (w \in s.seen <=> w \in there)
  /\ s.at = "enter" =>
       /\ Freed(s, there)
       /\ \A i \in Of(s.unit, s.declared) :
            /\ Has(s.seen, i) <=> Has(there, i)
            /\ "update" \in Manages[s.unit] /\ Has(s.seen, i) => i \in there

(* The Units a sweep is done with are as declared.                         *)
Progress(s, there) ==
  /\ s.at \in Hook => s.unit \in s.left /\ Stage(s, there)
  /\ s.left \subseteq Declared(s)
  /\ \A v \in Declared(s) \ s.left : RightIn(v, s.declared, there)

(* In a world that was as declared nothing has changed.                    *)
Untouched(s, there) ==
  /\ \A v \in Declared(s) : RightIn(v, s.declared, there)
  /\ s.at \in Hook => s.seen = Of(s.unit, there) /\ s.unit \in Declared(s)
  /\ s.left \subseteq Declared(s)

Busy(s) == s.at \in Hook \cup {"observe"}

(* One layout's declaration, as far as claims go.                          *)
OneHolder(items) == \A i, j \in items : i.key \in Claims /\ j.key \in Claims => i.key = j.key

(* Another load is due.                                                    *)
Joining == joining # "no" => load < MaxLoads

(* As long as nothing disturbs a sweep, it keeps what it has achieved, or  *)
(* changes nothing.                                                        *)
Swept == Claimable /\ calm => \A n \in 1..MaxLoads : Busy(sweeper[n]) => Progress(sweeper[n], world)
Settled == calm /\ settled => \A n \in 1..MaxLoads : Busy(sweeper[n]) => Untouched(sweeper[n], world)

-----------------------------------------------------------------------------
(* One sweep: what the hooks make of a world.                              *)

(* The operators for a given world are those of the model.                 *)
LEMMA InThisWorld ==
  /\ \A u, items : Right(u, items) <=> RightIn(u, items, world)
  /\ \A hook, acted : After(hook, acted) = AfterIn(hook, acted, world)
  /\ \A i : Taken(i) <=> TakenIn(i, world)
  BY Zenon DEF Right, RightIn, After, AfterIn, Taken, TakenIn

(* What has the key of an Item has that of every Item of the same key.     *)
LEMMA SameKey ==
  ASSUME NEW items, NEW i, NEW j, i.unit = j.unit, i.key = j.key
  PROVE  Has(items, i) <=> Has(items, j)
  BY DEF Has

(* A hook only acts on Items of its Unit, that are there or declared.      *)
LEMMA GivenOfUnit ==
  ASSUME NEW s \in Sweeper, NEW there \in SUBSET Item, NEW hook \in Hook, s.at = hook,
         hook = "exit" => s.seen = Of(s.unit, there)
  PROVE  \A i \in Given(hook, s) : i \in Item /\ i.unit = s.unit
<1>1. s.declared \in SUBSET Item  BY DEF Sweeper
<1>2. Of(s.unit, s.declared) \in SUBSET Item /\ \A i \in Of(s.unit, s.declared) : i.unit = s.unit
  BY <1>1 DEF Of
<1>3. Of(s.unit, there) \in SUBSET Item /\ \A i \in Of(s.unit, there) : i.unit = s.unit
  BY DEF Of
<1>4. Batch("exit", s) = {i \in s.seen : ~Has(Of(s.unit, s.declared), i)}
      /\ Batch("update", s) = {i \in Of(s.unit, s.declared) : Has(s.seen, i) /\ i \notin s.seen}
      /\ Batch("enter", s) = {i \in Of(s.unit, s.declared) : ~Has(s.seen, i)}
  BY DEF Batch
<1>5. hook \in {"exit", "update", "enter"}  BY DEF Hook
<1>6. CASE hook = "exit"  BY <1>3, <1>4, <1>6 DEF Given
<1>7. CASE hook = "update"  BY <1>2, <1>4, <1>7 DEF Given
<1>8. CASE hook = "enter"  BY <1>2, <1>4, <1>8 DEF Given
<1> QED  BY <1>5, <1>6, <1>7, <1>8

(* It leaves the Items of the other Units alone.                           *)
LEMMA Elsewhere ==
  ASSUME NEW there \in SUBSET Item, NEW acted, NEW u, NEW v, v # u, NEW items, NEW hook,
         \A i \in acted : i.unit = u,
         RightIn(v, items, there)
  PROVE  RightIn(v, items, AfterIn(hook, acted, there))
<1> DEFINE later == AfterIn(hook, acted, there)
<1>1. \A i : i.unit = v => ~Has(acted, i)  BY DEF Has
<1>2. \A i : i.unit = v => (i \in later <=> i \in there)  BY <1>1 DEF AfterIn
<1>3. \A i : i.unit = v => (Has(later, i) <=> Has(there, i))  BY <1>2 DEF Has
<1>4. Of(v, later) = Of(v, there)  BY <1>2 DEF Of
<1>5. \A i \in Of(v, items) : i.unit = v  BY DEF Of
<1> HIDE DEF later
<1>6. RightIn(v, items, later)  BY <1>2, <1>3, <1>4, <1>5, Zenon DEF RightIn
<1> QED  BY <1>6 DEF later

(* Nothing is refused in a sweep that nothing disturbs: what the exits     *)
(* left of the Unit is declared, and one holder is.                        *)
LEMMA NothingRefused ==
  ASSUME Claimable, NEW s \in Sweeper, NEW there \in SUBSET Item, NEW hook \in Hook, s.at = hook,
         hook # "exit", Stage(s, there), OneHolder(s.declared)
  PROVE  \A i \in Given(hook, s) : ~TakenIn(i, there)
<1> SUFFICES ASSUME NEW i \in Given(hook, s), TakenIn(i, there) PROVE FALSE
  OBVIOUS
<1>1. s.declared \in SUBSET Item /\ s.unit \in Unit  BY DEF Sweeper
<1>2. i \in Item /\ i.unit = s.unit  BY GivenOfUnit
<1>3. i \in s.declared
  <2>1. Batch("update", s) = {x \in Of(s.unit, s.declared) : Has(s.seen, x) /\ x \notin s.seen}
        /\ Batch("enter", s) = {x \in Of(s.unit, s.declared) : ~Has(s.seen, x)}
    BY DEF Batch
  <2>2. hook \in {"update", "enter"}  BY DEF Hook
  <2>3. i \in Batch("update", s) \/ i \in Batch("enter", s)  BY <2>2 DEF Given
  <2> QED  BY <2>1, <2>3 DEF Of
<1>4. /\ \A x, y \in Item : x.key \in Claims /\ y.key \in Claims => x.unit = y.unit
      /\ \A x \in Item : x.key \in Claims => "exit" \in Manages[x.unit]
  BY Zenon DEF Claimable
<1>5. i.key \in Claims /\ \E w \in there : w.key \in Claims /\ w.key # i.key  BY Zenon DEF TakenIn
<1>6. PICK w \in there : w.key \in Claims /\ w.key # i.key  BY <1>5
<1>7. w.unit = s.unit /\ "exit" \in Manages[s.unit]  BY <1>2, <1>4, <1>5, <1>6
<1>8. Freed(s, there)
  <2>1. s.at \in {"update", "enter"}  BY DEF Hook
  <2> QED  BY <2>1 DEF Stage
<1>9. w \in Of(s.unit, there)  BY <1>6, <1>7 DEF Of
<1>10. Has(s.declared, w)  BY <1>4, <1>7, <1>8, <1>9 DEF Freed
<1>11. PICK j \in s.declared : j.key = w.key  BY <1>10 DEF Has
<1> QED  BY <1>3, <1>5, <1>6, <1>11 DEF OneHolder

(* The exits take away the strangers, and nothing else.                    *)
LEMMA AfterExit ==
  ASSUME NEW s \in Sweeper, NEW there \in SUBSET Item, s.at = "exit", Stage(s, there)
  PROVE  LET later == AfterIn("exit", Given("exit", s), there) IN
         /\ later \in SUBSET Item
         /\ \A t \in Sweeper : t.at = "update" /\ t.unit = s.unit /\ t.seen = s.seen
                                /\ t.declared = s.declared => Stage(t, later)
<1> DEFINE desired == Of(s.unit, s.declared)
           given == Given("exit", s)
           later == AfterIn("exit", given, there)
<1>1. s.seen = Of(s.unit, there)  BY DEF Stage
<1>2. \A w : w.unit = s.unit => (Has(desired, w) <=> Has(s.declared, w))
  BY DEF Has, Of
<1>3. given = IF "exit" \in Manages[s.unit] THEN {w \in s.seen : ~Has(desired, w)} ELSE {}
  BY DEF Given, Batch
<1>4. later = {w \in there : ~Has(given, w)}  BY DEF AfterIn
<1>5. later \in SUBSET Item  BY <1>4
<1>6. "exit" \in Manages[s.unit] => \A w \in Of(s.unit, later) : Has(s.declared, w)
  <2> SUFFICES ASSUME "exit" \in Manages[s.unit], NEW w \in Of(s.unit, later), ~Has(s.declared, w)
               PROVE  FALSE
    OBVIOUS
  <2>1. w \in there /\ w.unit = s.unit /\ ~Has(given, w)  BY <1>4 DEF Of
  <2>2. w \in s.seen /\ ~Has(desired, w)  BY <1>1, <1>2, <2>1 DEF Of
  <2>3. w \in given  BY <1>3, <2>2
  <2> QED  BY <2>1, <2>3 DEF Has
<1>7. \A w \in Item : w.unit = s.unit /\ Has(s.declared, w) => (w \in s.seen <=> w \in later)
  <2> SUFFICES ASSUME NEW w \in Item, w.unit = s.unit, Has(s.declared, w)
               PROVE  w \in s.seen <=> w \in later
    OBVIOUS
  <2>1. ~Has(given, w)
    <3> SUFFICES ASSUME Has(given, w) PROVE FALSE
      OBVIOUS
    <3>1. PICK b \in given : b.unit = w.unit /\ b.key = w.key  BY DEF Has
    <3>2. ~Has(desired, b)  BY <1>3, <3>1
    <3>3. Has(desired, w)  BY <1>2
    <3> QED  BY <3>1, <3>2, <3>3, SameKey
  <2> QED  BY <1>1, <1>4, <2>1 DEF Of
<1> HIDE DEF later
<1>8. ASSUME NEW t \in Sweeper, t.at = "update", t.unit = s.unit, t.seen = s.seen, t.declared = s.declared
      PROVE  Stage(t, later)
  BY <1>6, <1>7, <1>8 DEF Stage, Freed
<1> QED  BY <1>5, <1>8, Zenon DEF later

(* The updates make what is declared and there as declared.                *)
LEMMA AfterUpdate ==
  ASSUME NEW s \in Sweeper, NEW there \in SUBSET Item, s.at = "update", Stage(s, there),
         Functional(s.declared)
  PROVE  LET later == AfterIn("update", Given("update", s), there) IN
         /\ later \in SUBSET Item
         /\ \A t \in Sweeper : t.at = "enter" /\ t.unit = s.unit /\ t.seen = s.seen
                                /\ t.declared = s.declared => Stage(t, later)
<1> DEFINE desired == Of(s.unit, s.declared)
           given == Given("update", s)
           later == AfterIn("update", given, there)
<1>0. s.declared \in SUBSET Item  BY DEF Sweeper
<1>1. /\ Freed(s, there)
      /\ \A w \in Item : w.unit = s.unit /\ Has(s.declared, w) => (w \in s.seen <=> w \in there)
  BY DEF Stage
<1>2. \A i \in desired : i \in Item /\ i.unit = s.unit /\ i \in s.declared /\ Has(s.declared, i)
  BY <1>0 DEF Has, Of
<1>3. given = IF "update" \in Manages[s.unit] THEN {i \in desired : Has(s.seen, i) /\ i \notin s.seen} ELSE {}
  BY DEF Given, Batch
<1>4. later = {w \in there : ~Has(given, w)} \cup given  BY DEF AfterIn
<1>5. later \in SUBSET Item  BY <1>2, <1>3, <1>4
<1>6. \A i \in given : i \in desired  BY <1>3
<1>7. "exit" \in Manages[s.unit] => \A w \in Of(s.unit, later) : Has(s.declared, w)
  <2> SUFFICES ASSUME "exit" \in Manages[s.unit], NEW w \in Of(s.unit, later)
               PROVE  Has(s.declared, w)
    OBVIOUS
  <2>1. w \in later /\ w.unit = s.unit  BY DEF Of
  <2>2. CASE w \in given  BY <1>2, <1>6, <2>2
  <2>3. CASE w \in there
    <3>1. w \in Of(s.unit, there)  BY <2>1, <2>3 DEF Of
    <3> QED  BY <1>1, <3>1 DEF Freed
  <2> QED  BY <1>4, <2>1, <2>2, <2>3
<1>8. \A i \in desired : Has(s.seen, i) <=> Has(there, i)
  <2> SUFFICES ASSUME NEW i \in desired PROVE Has(s.seen, i) <=> Has(there, i)
    OBVIOUS
  <2>1. s.seen \in SUBSET Item  BY DEF Sweeper
  <2>2. i.unit = s.unit /\ Has(s.declared, i)  BY <1>2
  <2>3. \A w \in Item : w.unit = i.unit /\ w.key = i.key => (w \in s.seen <=> w \in there)
    BY <1>1, <2>2, SameKey
  <2> QED  BY <2>1, <2>3 DEF Has
<1>9. \A i \in desired : Has(s.seen, i) <=> Has(later, i)
  <2> SUFFICES ASSUME NEW i \in desired PROVE Has(there, i) <=> Has(later, i)
    BY <1>8
  <2>1. ASSUME Has(there, i) PROVE Has(later, i)
    <3>1. PICK w \in there : w.unit = i.unit /\ w.key = i.key  BY <2>1 DEF Has
    <3>2. CASE Has(given, w)
      <4>1. PICK g \in given : g.unit = w.unit /\ g.key = w.key  BY <3>2 DEF Has
      <4>2. g \in later /\ g.unit = i.unit /\ g.key = i.key  BY <1>4, <3>1, <4>1
      <4> HIDE DEF later
      <4> QED  BY <4>2 DEF Has
    <3>3. CASE ~Has(given, w)
      <4>1. w \in later  BY <1>4, <3>3
      <4> HIDE DEF later
      <4> QED  BY <3>1, <4>1 DEF Has
    <3> QED  BY <3>2, <3>3
  <2>2. ASSUME Has(later, i) PROVE Has(there, i)
    <3>1. PICK w : w \in later /\ w.unit = i.unit /\ w.key = i.key
      <4> HIDE DEF later
      <4> QED  BY <2>2 DEF Has
    <3>2. CASE w \in there  BY <3>1, <3>2 DEF Has
    <3>3. CASE w \in given
      <4>1. w \in desired /\ Has(s.seen, w)  BY <1>3, <3>3
      <4>2. Has(there, w)  BY <1>8, <4>1
      <4> QED  BY <3>1, <4>2, SameKey
    <3> QED  BY <1>4, <3>1, <3>2, <3>3
  <2> QED  BY <2>1, <2>2
<1>10. ASSUME NEW i \in desired, "update" \in Manages[s.unit], Has(s.seen, i)
       PROVE  i \in later
  <2>1. CASE i \in given  BY <1>4, <2>1
  <2>2. CASE i \notin given
    <3>1. i \in s.seen  BY <1>3, <1>10, <2>2
    <3>2. i \in there  BY <1>1, <1>2, <3>1
    <3>3. ~Has(given, i)
      <4> SUFFICES ASSUME Has(given, i) PROVE FALSE
        OBVIOUS
      <4>1. PICK g \in given : g.unit = i.unit /\ g.key = i.key  BY DEF Has
      <4>2. g \in s.declared /\ i \in s.declared  BY <1>2, <1>6, <4>1
      <4>3. g = i  BY <4>1, <4>2 DEF Functional
      <4> QED  BY <2>2, <4>1, <4>3
    <3> QED  BY <1>4, <3>2, <3>3
  <2> QED  BY <2>1, <2>2
<1> HIDE DEF later
<1>11. ASSUME NEW t \in Sweeper, t.at = "enter", t.unit = s.unit, t.seen = s.seen, t.declared = s.declared
       PROVE  Stage(t, later)
  <2>1. Freed(t, later)  BY <1>7, <1>11 DEF Freed
  <2>2. \A i \in Of(t.unit, t.declared) :
          /\ Has(t.seen, i) <=> Has(later, i)
          /\ "update" \in Manages[t.unit] /\ Has(t.seen, i) => i \in later
    BY <1>9, <1>10, <1>11
  <2> QED  BY <1>11, <2>1, <2>2 DEF Stage
<1> QED  BY <1>5, <1>11, Zenon DEF later

(* The enters make the rest of what is declared: the Unit is right.        *)
LEMMA AfterEnter ==
  ASSUME NEW s \in Sweeper, NEW there \in SUBSET Item, s.at = "enter", Stage(s, there),
         Functional(s.declared)
  PROVE  LET later == AfterIn("enter", Given("enter", s), there) IN
         later \in SUBSET Item /\ RightIn(s.unit, s.declared, later)
<1> DEFINE desired == Of(s.unit, s.declared)
           given == Given("enter", s)
           later == AfterIn("enter", given, there)
<1>0. s.declared \in SUBSET Item  BY DEF Sweeper
<1>1. /\ Freed(s, there)
      /\ \A i \in desired : /\ Has(s.seen, i) <=> Has(there, i)
                            /\ "update" \in Manages[s.unit] /\ Has(s.seen, i) => i \in there
  BY DEF Stage
<1>2. \A i \in desired : i \in Item /\ i.unit = s.unit /\ i \in s.declared /\ Has(s.declared, i)
  BY <1>0 DEF Has, Of
<1>3. given = IF "enter" \in Manages[s.unit] THEN {i \in desired : ~Has(s.seen, i)} ELSE {}
  BY DEF Given, Batch
<1>4. later = {w \in there : ~Has(given, w)} \cup given  BY DEF AfterIn
<1>5. later \in SUBSET Item  BY <1>2, <1>3, <1>4
<1>6. \A i \in given : i \in desired /\ ~Has(s.seen, i)  BY <1>3
<1>7. \A i \in desired : Has(s.seen, i) => ~Has(given, i)
  <2> SUFFICES ASSUME NEW i \in desired, Has(s.seen, i), Has(given, i) PROVE FALSE
    OBVIOUS
  <2>1. PICK g \in given : g.unit = i.unit /\ g.key = i.key  BY DEF Has
  <2>2. ~Has(s.seen, g)  BY <1>6, <2>1
  <2> QED  BY <2>1, <2>2, SameKey
<1>8. ASSUME "enter" \in Manages[s.unit], NEW i \in desired PROVE Has(later, i)
  <2>1. CASE ~Has(s.seen, i)
    <3>1. i \in later  BY <1>3, <1>4, <1>8, <2>1
    <3> HIDE DEF later
    <3> QED  BY <3>1 DEF Has
  <2>2. CASE Has(s.seen, i)
    <3>1. PICK w \in there : w.unit = i.unit /\ w.key = i.key  BY <1>1, <2>2 DEF Has
    <3>2. ~Has(given, w)  BY <1>7, <2>2, <3>1, SameKey
    <3>3. w \in later  BY <1>4, <3>2
    <3> HIDE DEF later
    <3> QED  BY <3>1, <3>3 DEF Has
  <2> QED  BY <2>1, <2>2
<1>9. ASSUME "update" \in Manages[s.unit], NEW i \in desired, Has(later, i) PROVE i \in later
  <2>1. CASE Has(s.seen, i)  BY <1>1, <1>4, <1>7, <1>9, <2>1
  <2>2. CASE ~Has(s.seen, i) /\ "enter" \in Manages[s.unit]  BY <1>3, <1>4, <2>2
  <2>3. CASE ~Has(s.seen, i) /\ "enter" \notin Manages[s.unit]
    <3>1. given = {}  BY <1>3, <2>3
    <3>2. later \subseteq there  BY <1>4, <3>1
    <3> HIDE DEF later
    <3>3. Has(there, i)  BY <1>9, <3>2 DEF Has
    <3> QED  BY <1>1, <2>3, <3>3
  <2> QED  BY <2>1, <2>2, <2>3
<1>10. ASSUME "exit" \in Manages[s.unit], NEW w \in Of(s.unit, later) PROVE Has(s.declared, w)
  <2>1. w \in later /\ w.unit = s.unit
    <3> HIDE DEF later
    <3> QED  BY <1>10 DEF Of
  <2>2. CASE w \in given  BY <1>2, <1>6, <2>2
  <2>3. CASE w \in there
    <3>1. w \in Of(s.unit, there)  BY <2>1, <2>3 DEF Of
    <3> QED  BY <1>1, <1>10, <3>1 DEF Freed
  <2> QED  BY <1>4, <2>1, <2>2, <2>3
<1> HIDE DEF later
<1>11. RightIn(s.unit, s.declared, later)  BY <1>8, <1>9, <1>10, Zenon DEF RightIn
<1> QED  BY <1>5, <1>11, Zenon DEF later

-----------------------------------------------------------------------------
(* The steps of a thread.                                                  *)

SweepersOK == sweeper \in [1..MaxLoads -> Sweeper] /\ world \in SUBSET Item

(* What a layout declares, or nothing for an evaluation that throws.       *)
Sound(s) == Functional(s.declared) /\ (Claimable => OneHolder(s.declared))
LEMMA DeclaresSoundly ==
  ASSUME NEW l \in Layout, NEW d \in Data, NEW g \in Globals, Declares[l][d][g] # Throws
  PROVE  /\ Declares[l][d][g] \in SUBSET Item /\ Functional(Declares[l][d][g])
         /\ Claimable => OneHolder(Declares[l][d][g])
<1>1. Declares[l][d][g] \in SUBSET Item /\ Functional(Declares[l][d][g])
  BY DeclaresAssumption
<1>2. ASSUME Claimable PROVE OneHolder(Declares[l][d][g])
  <2>1. \A i, j \in Declares[l][d][g] : i.key \in Claims /\ j.key \in Claims => i.key = j.key
    BY <1>2 DEF Claimable
  <2> QED  BY <2>1 DEF OneHolder
<1> QED  BY <1>1, <1>2

(* A sweeper that has not begun is one.                                    *)
LEMMA StartTyped ==
  /\ NoSweeper \in Sweeper /\ NoSweeper.at = "none" /\ NoSweeper.declared = {}
  /\ Start \in Sweeper /\ Start.at = "asleep" /\ Start.declared = {} /\ Start.left = {}
  /\ [NoSweeper EXCEPT !.at = "over"] \in Sweeper /\ [NoSweeper EXCEPT !.at = "over"].at = "over"
  /\ [NoSweeper EXCEPT !.at = "over"].declared = {}
<1>1. \E u : u \in Unit  BY DataAssumption DEF Unit
<1>2. (CHOOSE u \in Unit : TRUE) \in Unit  BY <1>1
<1>3. NoSweeper \in Sweeper /\ NoSweeper.at = "none" /\ NoSweeper.declared = {} /\ NoSweeper.left = {}
  BY <1>2, DataAssumption DEF NoSweeper, Sweeper
<1> HIDE DEF NoSweeper
<1>4. /\ Start \in Sweeper /\ Start.at = "asleep" /\ Start.declared = {} /\ Start.left = {}
  BY <1>3 DEF Start, Sweeper
<1>5. [NoSweeper EXCEPT !.at = "over"] \in Sweeper /\ [NoSweeper EXCEPT !.at = "over"].at = "over"
      /\ [NoSweeper EXCEPT !.at = "over"].declared = {}
  BY <1>3 DEF Sweeper
<1> QED  BY <1>3, <1>4, <1>5

(* A thread that ends is changed in no other way.                          *)
LEMMA Ends ==
  ASSUME SweepersOK, NEW n \in 1..MaxLoads, NEW x \in {"over", "dead"},
         sweeper' = [sweeper EXCEPT ![n].at = x]
  PROVE  /\ sweeper' \in [1..MaxLoads -> Sweeper]
         /\ sweeper'[n].at = x /\ sweeper'[n].declared = sweeper[n].declared
         /\ \A m \in 1..MaxLoads : m # n => sweeper'[m] = sweeper[m]
<1>1. sweeper \in [1..MaxLoads -> Sweeper] /\ sweeper[n] \in Sweeper  BY DEF SweepersOK
<1>2. [sweeper[n] EXCEPT !.at = x] \in Sweeper  BY <1>1 DEF Sweeper
<1>3. sweeper'[n] = [sweeper[n] EXCEPT !.at = x]  BY <1>1
<1>4. \A m \in 1..MaxLoads : m # n => sweeper'[m] = sweeper[m]  BY <1>1
<1>5. [sweeper[n] EXCEPT !.at = x].at = x
      /\ [sweeper[n] EXCEPT !.at = x].declared = sweeper[n].declared
  BY <1>1 DEF Sweeper
<1>6. sweeper' \in [1..MaxLoads -> Sweeper]
  <2>1. sweeper' = [m \in 1..MaxLoads |-> IF m = n THEN [sweeper[n] EXCEPT !.at = x] ELSE sweeper[m]]
    BY <1>1
  <2> QED  BY <1>1, <1>2, <2>1
<1> QED  BY <1>3, <1>4, <1>5, <1>6

(* A sweep begins with every Unit it evaluated left to do.                 *)
LEMMA Evaluated ==
  ASSUME SweepersOK, shown \in Layout, values \in Data, globals \in Globals,
         NEW n \in 1..MaxLoads, Evaluate(n)
  PROVE  /\ sweeper' \in [1..MaxLoads -> Sweeper]
         /\ sweeper[n].at = "asleep" /\ sweeper'[n].at \in {"asleep", "observe"}
         /\ sweeper'[n].left = Declared(sweeper'[n]) /\ Sound(sweeper'[n])
         /\ settled' = AllRight(sweeper'[n].declared)
         /\ \A m \in 1..MaxLoads : m # n => sweeper'[m] = sweeper[m]
         /\ calm' = TRUE /\ UNCHANGED <<environment, world, warm, events>> /\ clicked' = FALSE
<1> DEFINE items == Declares[shown][values][globals]
           declared == IF items = Throws THEN {} ELSE items
           s == [Start EXCEPT !.at = IF declared = {} THEN "asleep" ELSE "observe",
                              !.idle = (declared = {}), !.saw = values,
                              !.declared = declared,
                              !.left = {i.unit : i \in declared}]
<1>1. /\ sweeper[n].at = "asleep" /\ sweeper' = [sweeper EXCEPT ![n] = s]
      /\ settled' = AllRight(declared) /\ calm' = TRUE /\ clicked' = FALSE
      /\ UNCHANGED <<environment, world, warm, events>>
  BY DEF Evaluate
<1>2. declared \in SUBSET Item /\ Functional(declared) /\ (Claimable => OneHolder(declared))
  <2>1. CASE items = Throws  BY <2>1 DEF Functional, OneHolder
  <2>2. CASE items # Throws  BY <2>2, DeclaresSoundly, Zenon
  <2> QED  BY <2>1, <2>2
<1> HIDE DEF declared
<1>3. {i.unit : i \in declared} \in SUBSET Unit  BY <1>2 DEF Unit
<1>4. /\ s \in Sweeper /\ s.at \in {"asleep", "observe"} /\ s.declared = declared
      /\ s.left = {i.unit : i \in declared}
  BY <1>2, <1>3, StartTyped DEF Sweeper
<1> HIDE DEF s
<1>5. sweeper \in [1..MaxLoads -> Sweeper]  BY DEF SweepersOK
<1>6. sweeper' \in [1..MaxLoads -> Sweeper] /\ sweeper'[n] = s
      /\ \A m \in 1..MaxLoads : m # n => sweeper'[m] = sweeper[m]
  BY <1>1, <1>4, <1>5
<1>7. Declared(s) = s.left  BY <1>4 DEF Declared
<1>8. Sound(s)  BY <1>2, <1>4 DEF Sound
<1> QED  BY <1>1, <1>4, <1>6, <1>7, <1>8, Zenon

(* An observation sees the Unit's part of the world, or throws.            *)
LEMMA Observed ==
  ASSUME SweepersOK, NEW n \in 1..MaxLoads, NEW u \in Unit, Observe(n, u)
  PROVE  /\ sweeper' \in [1..MaxLoads -> Sweeper]
         /\ sweeper[n].at = "observe" /\ sweeper'[n].at = "exit"
         /\ u \in sweeper[n].left /\ sweeper'[n].unit = u
         /\ sweeper'[n].left = sweeper[n].left /\ sweeper'[n].declared = sweeper[n].declared
         /\ \/ sweeper'[n].seen = Of(u, world) /\ UNCHANGED <<calm, events>>
            \/ Event /\ calm' = FALSE
         /\ \A m \in 1..MaxLoads : m # n => sweeper'[m] = sweeper[m]
         /\ UNCHANGED <<environment, world, settled, warm, clicked>>
<1>1. PICK seen \in {Of(u, world), {}} :
        /\ sweeper' = [sweeper EXCEPT ![n].at = Order[1], ![n].unit = u, ![n].seen = seen]
        /\ \/ seen = Of(u, world) /\ UNCHANGED <<calm, events>>
           \/ Event /\ calm' = FALSE
  BY Zenon DEF Observe
<1>2. /\ sweeper[n].at = "observe" /\ u \in sweeper[n].left
      /\ UNCHANGED <<environment, world, settled, warm, clicked>>
  BY Zenon DEF Observe
<1>3. Order[1] = "exit"  BY DEF Order
<1>4. sweeper \in [1..MaxLoads -> Sweeper] /\ sweeper[n] \in Sweeper /\ seen \in SUBSET Item
  BY DEF SweepersOK, Of
<1> DEFINE s == [sweeper[n] EXCEPT !.at = "exit", !.unit = u, !.seen = seen]
<1>5. /\ s \in Sweeper /\ s.at = "exit" /\ s.unit = u /\ s.seen = seen
      /\ s.left = sweeper[n].left /\ s.declared = sweeper[n].declared
  BY <1>4 DEF Sweeper, Hook
<1>6. sweeper' = [m \in 1..MaxLoads |-> IF m = n THEN s ELSE sweeper[m]]
  BY <1>1, <1>3, <1>4
<1> HIDE DEF s
<1>7. sweeper' \in [1..MaxLoads -> Sweeper] /\ sweeper'[n] = s
      /\ \A m \in 1..MaxLoads : m # n => sweeper'[m] = sweeper[m]
  BY <1>4, <1>5, <1>6
<1> QED  BY <1>1, <1>2, <1>5, <1>7, Zenon

(* The hooks follow one another.                                           *)
LEMMA HooksInOrder ==
  NextHook("exit") = "update" /\ NextHook("update") = "enter" /\ Order[3] = "enter"
<1>1. Order[1] = "exit" /\ Order[2] = "update" /\ Order[3] = "enter"  BY DEF Order
<1>2. \A h \in Hook : (\E i \in 1..2 : Order[i] = "exit" /\ Order[i + 1] = h) <=> h = "update"
  BY <1>1
<1>3. \A h \in Hook : (\E i \in 1..2 : Order[i] = "update" /\ Order[i + 1] = h) <=> h = "enter"
  BY <1>1
<1>4. "update" \in Hook /\ "enter" \in Hook  BY DEF Hook
<1>5. NextHook("exit") \in Hook /\ \E i \in 1..2 : Order[i] = "exit" /\ Order[i + 1] = NextHook("exit")
  <2>1. \E h \in Hook : \E i \in 1..2 : Order[i] = "exit" /\ Order[i + 1] = h  BY <1>2, <1>4, Zenon
  <2> QED  BY <2>1, Zenon DEF NextHook
<1>6. NextHook("update") \in Hook /\ \E i \in 1..2 : Order[i] = "update" /\ Order[i + 1] = NextHook("update")
  <2>1. \E h \in Hook : \E i \in 1..2 : Order[i] = "update" /\ Order[i + 1] = h  BY <1>3, <1>4, Zenon
  <2> QED  BY <2>1, Zenon DEF NextHook
<1> QED  BY <1>1, <1>2, <1>3, <1>5, <1>6, Zenon

(* A hook acts on what it is given, all of it unless something throws or   *)
(* is refused, and the thread goes on to the next hook or the next Unit.   *)
LEMMA HookRuns ==
  ASSUME SweepersOK, NEW n \in 1..MaxLoads, NEW hook \in Hook, RunHook(n, hook)
  PROVE  /\ sweeper' \in [1..MaxLoads -> Sweeper]
         /\ sweeper[n].at = hook
         /\ sweeper'[n].unit = sweeper[n].unit /\ sweeper'[n].declared = sweeper[n].declared
         /\ hook = "exit" => /\ sweeper'[n].at = "update" /\ sweeper'[n].left = sweeper[n].left
                             /\ sweeper'[n].seen = sweeper[n].seen
         /\ hook = "update" => /\ sweeper'[n].at = "enter" /\ sweeper'[n].left = sweeper[n].left
                               /\ sweeper'[n].seen = sweeper[n].seen
         /\ hook = "enter" => /\ sweeper'[n].left = sweeper[n].left \ {sweeper[n].unit}
                              /\ sweeper'[n].at = IF sweeper'[n].left = {} THEN "asleep" ELSE "observe"
         /\ \A m \in 1..MaxLoads : m # n => sweeper'[m] = sweeper[m]
         /\ \E acted \in SUBSET Given(hook, sweeper[n]) :
              /\ world' = AfterIn(hook, acted, world)
              /\ \/ acted = Given(hook, sweeper[n]) /\ UNCHANGED <<calm, events>>
                 \/ /\ hook # "exit" /\ \E i \in Given(hook, sweeper[n]) : TakenIn(i, world)
                    /\ acted # Given(hook, sweeper[n]) /\ UNCHANGED <<calm, events>>
                 \/ Event /\ calm' = FALSE
         /\ UNCHANGED <<environment, settled, warm, clicked>>
<1> DEFINE s == sweeper[n]
           batch == IF hook \in Manages[s.unit] THEN Batch(hook, s) ELSE {}
           refused == {i \in batch : hook # "exit" /\ Taken(i)}
           last == hook = Order[3]
           left == IF last THEN s.left \ {s.unit} ELSE s.left
           at == IF ~last THEN NextHook(hook) ELSE IF left = {} THEN "asleep" ELSE "observe"
           seen == IF last THEN {} ELSE s.seen
           t == [s EXCEPT !.at = at, !.left = left, !.seen = seen]
<1>1. /\ s.at = hook
      /\ \E acted \in SUBSET (batch \ refused) :
           /\ world' = After(hook, acted)
           /\ IF acted = batch THEN UNCHANGED <<calm, events>>
              ELSE IF refused # {} THEN UNCHANGED <<calm, events>>
              ELSE Event /\ calm' = FALSE
      /\ UNCHANGED <<environment, settled, warm, clicked>>
  BY Zenon DEF RunHook
<1>2. sweeper' = [sweeper EXCEPT ![n].at = at, ![n].left = left,
                                 ![n].seen = IF last THEN {} ELSE @]
  BY DEF RunHook
<1>3. batch = Given(hook, s)  BY DEF Given
<1> HIDE DEF batch
<1>4. refused # {} => hook # "exit" /\ \E i \in batch : TakenIn(i, world)
  BY InThisWorld, Zenon
<1> HIDE DEF refused
<1>5. \E acted \in SUBSET Given(hook, s) :
        /\ world' = AfterIn(hook, acted, world)
        /\ \/ acted = Given(hook, s) /\ UNCHANGED <<calm, events>>
           \/ /\ hook # "exit" /\ \E i \in Given(hook, s) : TakenIn(i, world)
              /\ acted # Given(hook, s) /\ UNCHANGED <<calm, events>>
           \/ Event /\ calm' = FALSE
  <2>1. PICK acted \in SUBSET (batch \ refused) :
          /\ world' = After(hook, acted)
          /\ IF acted = batch THEN UNCHANGED <<calm, events>>
             ELSE IF refused # {} THEN UNCHANGED <<calm, events>>
             ELSE Event /\ calm' = FALSE
    BY <1>1
  <2>2. acted \in SUBSET batch  BY <2>1
  <2>3. world' = AfterIn(hook, acted, world)  BY <2>1, InThisWorld, Zenon
  <2> QED  BY <1>3, <1>4, <2>1, <2>2, <2>3, Zenon
<1>6. sweeper \in [1..MaxLoads -> Sweeper] /\ s \in Sweeper  BY DEF SweepersOK
<1>7. hook \in {"exit", "update", "enter"}  BY DEF Hook
<1>8. last <=> hook = "enter"  BY HooksInOrder
<1>9. /\ hook = "exit" => at = "update" /\ left = s.left /\ seen = s.seen
      /\ hook = "update" => at = "enter" /\ left = s.left /\ seen = s.seen
      /\ hook = "enter" => /\ left = s.left \ {s.unit} /\ seen = {}
                           /\ at = IF left = {} THEN "asleep" ELSE "observe"
  <2> HIDE DEF last
  <2>0. ~last => at = NextHook(hook) /\ left = s.left /\ seen = s.seen  OBVIOUS
  <2> HIDE DEF at, left, seen
  <2>1. CASE hook = "exit"  BY <1>8, <2>0, <2>1, HooksInOrder, Zenon
  <2>2. CASE hook = "update"  BY <1>8, <2>0, <2>2, HooksInOrder, Zenon
  <2> USE DEF at, left, seen
  <2>3. CASE hook = "enter"  BY <1>8, <2>3
  <2> QED  BY <1>7, <2>1, <2>2, <2>3
<1>10. sweeper' = [m \in 1..MaxLoads |-> IF m = n THEN t ELSE sweeper[m]]
  <2> HIDE DEF at, left, last
  <2>1. sweeper' = [sweeper EXCEPT ![n] = [sweeper[n] EXCEPT !.at = at, !.left = left,
                                              !.seen = IF last THEN {} ELSE sweeper[n].seen]]
    BY <1>2, <1>6 DEF Sweeper
  <2> QED  BY <1>6, <2>1
<1> HIDE DEF at, left, last, seen
<1>11. at \in {"asleep", "observe"} \cup Hook /\ left \in SUBSET Unit /\ seen \in SUBSET Item
  <2>1. s.left \in SUBSET Unit /\ s.seen \in SUBSET Item  BY <1>6 DEF Sweeper
  <2> QED  BY <1>7, <1>9, <2>1 DEF Hook
<1>12. /\ t \in Sweeper /\ t.at = at /\ t.left = left /\ t.seen = seen
       /\ t.unit = s.unit /\ t.declared = s.declared
  BY <1>6, <1>11 DEF Sweeper
<1> HIDE DEF t
<1>13. sweeper' \in [1..MaxLoads -> Sweeper] /\ sweeper'[n] = t
       /\ \A m \in 1..MaxLoads : m # n => sweeper'[m] = sweeper[m]
  BY <1>6, <1>10, <1>12
<1> QED  BY <1>1, <1>5, <1>9, <1>12, <1>13, Zenon

-----------------------------------------------------------------------------
(* The types, and that one thread acts at a time.                          *)

EnvOK ==
  /\ shown \in Layout /\ load \in 1..MaxLoads /\ values \in Data /\ globals \in Globals
  /\ joining \in Layout \cup {"no"}
  /\ calm \in BOOLEAN /\ settled \in BOOLEAN /\ clicked \in BOOLEAN
  /\ warm \subseteq Item /\ events \in 0..MaxEvents
AllSound == \A n \in 1..MaxLoads : Sound(sweeper[n])
Base == EnvOK /\ SweepersOK /\ Functional(world) /\ Joining /\ OneSweeper /\ AllSound
IInv == Base /\ Swept /\ Settled

(* They include TypeOK.                                                    *)
LEMMA BaseTyped == Base => TypeOK
  BY Zenon DEF Base, EnvOK, SweepersOK, TypeOK

(* The thread that takes a step is that of the layout on the bar, and it   *)
(* stays sound.                                                            *)
LEMMA ThreadSteps ==
  ASSUME Base, NEW n \in 1..MaxLoads, Sweep(n) \/ FailToStart(n)
  PROVE  /\ sweeper' \in [1..MaxLoads -> Sweeper] /\ Sound(sweeper'[n])
         /\ n = load
         /\ \A m \in 1..MaxLoads : m # n => sweeper'[m] = sweeper[m]
         /\ UNCHANGED <<environment, warm>>
<1>1. SweepersOK /\ OneSweeper /\ AllSound /\ EnvOK  BY Zenon DEF Base
<1>2. ASSUME sweeper[n].at \notin {"none", "over", "dead"} PROVE n = load
  BY <1>1, <1>2 DEF OneSweeper
<1>3. \A s, t : s.declared = t.declared /\ Sound(s) => Sound(t)  BY Zenon DEF Sound
<1>4. CASE Stop(n)
  <2>1. /\ sweeper[n].at = "asleep" /\ sweeper' = [sweeper EXCEPT ![n].at = "over"]
        /\ UNCHANGED <<environment, warm>>
    BY <1>4, Zenon DEF Stop, history
  <2>2. n = load  BY <1>2, <2>1
  <2> QED  BY <1>1, <1>3, <2>1, <2>2, Ends, Zenon DEF AllSound
<1>5. CASE FailToStart(n)
  <2>1. /\ sweeper[n] = Start /\ sweeper' = [sweeper EXCEPT ![n].at = "dead"]
        /\ UNCHANGED <<environment, warm>>
    BY <1>5, Zenon DEF FailToStart, history
  <2>2. n = load  BY <1>2, <2>1, StartTyped
  <2> QED  BY <1>1, <1>3, <2>1, <2>2, Ends, Zenon DEF AllSound
<1>6. CASE Evaluate(n)
  <2>1. shown \in Layout /\ values \in Data /\ globals \in Globals  BY <1>1, Zenon DEF EnvOK
  <2>2. sweeper[n].at = "asleep"  BY <1>1, <1>6, <2>1, Evaluated, Zenon
  <2>3. n = load  BY <1>2, <2>2
  <2> QED  BY <1>1, <1>6, <2>1, <2>3, Evaluated, Zenon
<1>7. ASSUME NEW u \in Unit, Observe(n, u)
      PROVE  /\ sweeper' \in [1..MaxLoads -> Sweeper] /\ Sound(sweeper'[n])
             /\ n = load
             /\ \A m \in 1..MaxLoads : m # n => sweeper'[m] = sweeper[m]
             /\ UNCHANGED <<environment, warm>>
  <2>1. sweeper[n].at = "observe"  BY <1>1, <1>7, Observed, Zenon
  <2>2. n = load  BY <1>2, <2>1
  <2> QED  BY <1>1, <1>3, <1>7, <2>2, Observed, Zenon DEF AllSound
<1>8. ASSUME NEW hook \in Hook, RunHook(n, hook)
      PROVE  /\ sweeper' \in [1..MaxLoads -> Sweeper] /\ Sound(sweeper'[n])
             /\ n = load
             /\ \A m \in 1..MaxLoads : m # n => sweeper'[m] = sweeper[m]
             /\ UNCHANGED <<environment, warm>>
  <2>1. sweeper[n].at = hook  BY <1>1, <1>8, HookRuns, Zenon
  <2>2. n = load  BY <1>2, <2>1 DEF Hook
  <2> QED  BY <1>1, <1>3, <1>8, <2>2, HookRuns, Zenon DEF AllSound
<1> QED  BY <1>4, <1>5, <1>6, <1>7, <1>8, Zenon DEF Sweep

(* What a hook acts on has each key once.                                  *)
LEMMA ActsOnItems ==
  ASSUME NEW s \in Sweeper, Functional(s.declared), NEW hook \in Hook,
         NEW acted \in SUBSET Given(hook, s), hook # "exit"
  PROVE  acted \in SUBSET Item /\ Functional(acted)
<1>1. s.declared \in SUBSET Item  BY DEF Sweeper
<1>2. Given(hook, s) \subseteq s.declared
  <2>1. Batch("update", s) = {x \in Of(s.unit, s.declared) : Has(s.seen, x) /\ x \notin s.seen}
        /\ Batch("enter", s) = {x \in Of(s.unit, s.declared) : ~Has(s.seen, x)}
    BY DEF Batch
  <2>2. hook \in {"update", "enter"}  BY DEF Hook
  <2>3. Given(hook, s) \subseteq Batch("update", s) \/ Given(hook, s) \subseteq Batch("enter", s)
    BY <2>2 DEF Given
  <2> QED  BY <2>1, <2>3 DEF Of
<1>3. \A i, j \in acted : i.unit = j.unit /\ i.key = j.key => i = j
  BY <1>2 DEF Functional
<1> QED  BY <1>1, <1>2, <1>3, Zenon DEF Functional

(* So has the world after it.                                              *)
LEMMA WorldAfter ==
  ASSUME NEW s \in Sweeper, Functional(s.declared), NEW hook \in Hook,
         NEW acted \in SUBSET Given(hook, s),
         NEW there \in SUBSET Item, Functional(there)
  PROVE  /\ AfterIn(hook, acted, there) \in SUBSET Item
         /\ Functional(AfterIn(hook, acted, there))
<1>1. CASE hook = "exit"
  <2>1. AfterIn(hook, acted, there) \subseteq there  BY <1>1 DEF AfterIn
  <2> QED  BY <2>1, Zenon DEF Functional
<1>2. CASE hook # "exit"
  <2>1. acted \in SUBSET Item /\ Functional(acted)  BY <1>2, ActsOnItems
  <2>2. AfterIn(hook, acted, there) = {i \in there : ~Has(acted, i)} \cup acted  BY <1>2 DEF AfterIn
  <2>3. ASSUME NEW i \in there, NEW j \in acted, i.unit = j.unit, i.key = j.key PROVE Has(acted, i)
    BY <2>3 DEF Has
  <2>4. Functional({i \in there : ~Has(acted, i)} \cup acted)
    BY <2>1, <2>3 DEF Functional
  <2> QED  BY <2>1, <2>2, <2>4
<1> QED  BY <1>1, <1>2

(* Drift, too, leaves each key once.                                       *)
LEMMA WorldDrifts ==
  ASSUME world \in SUBSET Item, Functional(world), NEW i \in Item, Drift(i)
  PROVE  world' \in SUBSET Item /\ Functional(world')
<1>1. world' = {w \in world : ~Has({i}, w)} \/ world' = Set(world, i)  BY Zenon DEF Drift
<1>2. CASE world' = {w \in world : ~Has({i}, w)}
  BY <1>2 DEF Functional
<1>3. CASE world' = Set(world, i)
  <2>1. world' = {j \in world : ~(j.unit = i.unit /\ j.key = i.key)} \cup {i}  BY <1>3 DEF Set
  <2> QED  BY <2>1 DEF Functional
<1> QED  BY <1>1, <1>2, <1>3

(* The environment keeps its types, and a reload has a load left.          *)
LEMMA EnvSteps ==
  ASSUME Base, Next
  PROVE  EnvOK' /\ Joining'
<1> DEFINE unchanged == UNCHANGED <<shown, load, values, globals, joining, warm>>
           marks == /\ calm' \in BOOLEAN /\ settled' \in BOOLEAN /\ clicked' \in BOOLEAN
                    /\ events' \in 0..MaxEvents
<1>1. EnvOK /\ Joining /\ SweepersOK  BY Zenon DEF Base
<1>2. events' \in 0..MaxEvents \/ ~Event  BY <1>1, BoundsAssumption DEF EnvOK, Event
<1>3. calm \in BOOLEAN /\ settled \in BOOLEAN /\ clicked \in BOOLEAN /\ events \in 0..MaxEvents
  BY <1>1, Zenon DEF EnvOK
<1>4. ASSUME unchanged, marks PROVE EnvOK' /\ Joining'
  <2>1. EnvOK'  BY <1>1, <1>4, Zenon DEF EnvOK
  <2>2. Joining'  BY <1>1, <1>4, Zenon DEF Joining
  <2> QED  BY <2>1, <2>2
<1>5. ASSUME NEW n \in 1..MaxLoads, Sweep(n) \/ FailToStart(n) PROVE EnvOK' /\ Joining'
  <2>1. unchanged  BY <1>5, ThreadSteps, Zenon DEF environment
  <2>2. ASSUME Stop(n) PROVE UNCHANGED <<calm, settled, clicked, events>>
    BY <2>2, Zenon DEF Stop, history
  <2>3. ASSUME FailToStart(n) PROVE UNCHANGED <<calm, settled, clicked>> /\ Event
    BY <2>3, Zenon DEF FailToStart, history
  <2>4. ASSUME Evaluate(n) PROVE marks
    <3>1. shown \in Layout /\ values \in Data /\ globals \in Globals  BY <1>1, Zenon DEF EnvOK
    <3>2. /\ settled' = AllRight(sweeper'[n].declared) /\ calm' = TRUE /\ clicked' = FALSE
          /\ events' = events
      BY <1>1, <2>4, <3>1, Evaluated, Zenon
    <3>3. AllRight(sweeper'[n].declared) \in BOOLEAN  BY DEF AllRight
    <3> QED  BY <1>3, <3>2, <3>3, Zenon
  <2>5. ASSUME NEW u \in Unit, Observe(n, u) PROVE marks
    BY <1>1, <1>2, <1>3, <2>5, Observed, Zenon
  <2>6. ASSUME NEW hook \in Hook, RunHook(n, hook) PROVE marks
    BY <1>1, <1>2, <1>3, <2>6, HookRuns, Zenon
  <2>7. marks  BY <1>2, <1>3, <1>5, <2>2, <2>3, <2>4, <2>5, <2>6, Zenon DEF Sweep
  <2> QED  BY <1>4, <2>1, <2>7
<1>6. CASE Respawn
  <2>1. /\ joining # "no" /\ shown' = joining /\ load' = load + 1 /\ joining' = "no"
        /\ globals' = NoGlobals /\ clicked' = FALSE
        /\ UNCHANGED <<values, calm, settled, warm, events>>
    BY <1>6, Zenon DEF Respawn, history
  <2>2. shown' \in Layout  BY <1>1, <2>1 DEF EnvOK
  <2>3. load' \in 1..MaxLoads  BY <1>1, <2>1, BoundsAssumption DEF EnvOK, Joining
  <2>4. globals' \in Globals  BY <2>1, DataAssumption
  <2>5. EnvOK'  BY <1>1, <1>3, <2>1, <2>2, <2>3, <2>4, Zenon DEF EnvOK
  <2>6. Joining'  BY <2>1, Zenon DEF Joining
  <2> QED  BY <2>5, <2>6
<1>7. ASSUME NEW d \in Data, Tick(d) PROVE EnvOK' /\ Joining'
  <2>1. /\ Event /\ values' = d
        /\ UNCHANGED <<shown, load, globals, joining, calm, settled, warm, clicked>>
    BY <1>7, Zenon DEF Tick, history
  <2> QED  BY <1>1, <1>2, <2>1, Zenon DEF EnvOK, Joining
<1>8. ASSUME NEW g \in Globals, Click(g) PROVE EnvOK' /\ Joining'
  <2>1. /\ Event /\ globals' = g /\ clicked' = TRUE
        /\ UNCHANGED <<shown, load, values, joining, calm, settled, warm>>
    BY <1>8, Zenon DEF Click, history
  <2> QED  BY <1>1, <1>2, <2>1, Zenon DEF EnvOK, Joining
<1>9. ASSUME NEW l \in Layout, Reload(l) PROVE EnvOK' /\ Joining'
  <2>1. /\ load < MaxLoads /\ joining' = l /\ values' = NoData
        /\ UNCHANGED <<shown, load, globals, calm, settled, clicked, events>>
    BY <1>9, Zenon DEF Reload
  <2>2. warm' \subseteq world  BY <1>9 DEF Reload
  <2>3. warm' \subseteq Item  BY <1>1, <2>2 DEF SweepersOK
  <2>4. values' \in Data  BY <2>1, DataAssumption
  <2> QED  BY <1>1, <2>1, <2>3, <2>4, Zenon DEF EnvOK, Joining
<1>10. ASSUME NEW i \in Item, Drift(i) PROVE EnvOK' /\ Joining'
  <2>1. unchanged  BY <1>10, Zenon DEF Drift, environment
  <2>2. Event /\ calm' = FALSE /\ UNCHANGED <<settled, clicked>>  BY <1>10, Zenon DEF Drift
  <2>3. marks  BY <1>2, <1>3, <2>2, Zenon
  <2> QED  BY <1>4, <2>1, <2>3
<1> QED  BY <1>5, <1>6, <1>7, <1>8, <1>9, <1>10, Zenon DEF Next

(* A new layout gets a thread of its own once the last one's has ended.    *)
LEMMA Respawned ==
  ASSUME Base, Respawn
  PROVE  /\ sweeper' \in [1..MaxLoads -> Sweeper] /\ load' = load + 1 /\ load' \in 1..MaxLoads
         /\ sweeper'[load].at = "over" /\ sweeper'[load].declared = {}
         /\ sweeper'[load'].at = "asleep" /\ sweeper'[load'].declared = {}
         /\ \A m \in 1..MaxLoads : m \notin {load, load'} => sweeper'[m] = sweeper[m]
         /\ UNCHANGED <<world, calm, settled>>
<1>1. /\ joining # "no" /\ load' = load + 1 /\ UNCHANGED <<world, calm, settled>>
      /\ sweeper' = [sweeper EXCEPT ![load] = [NoSweeper EXCEPT !.at = "over"], ![load + 1] = Start]
  BY Zenon DEF Respawn, history
<1>2. EnvOK /\ Joining /\ SweepersOK  BY Zenon DEF Base
<1>3. load \in 1..MaxLoads /\ load + 1 \in 1..MaxLoads /\ load + 1 # load
  BY <1>1, <1>2, BoundsAssumption DEF EnvOK, Joining
<1>4. sweeper \in [1..MaxLoads -> Sweeper]  BY <1>2 DEF SweepersOK
<1> DEFINE over == [NoSweeper EXCEPT !.at = "over"]
<1>5. over \in Sweeper /\ over.at = "over" /\ over.declared = {}
      /\ Start \in Sweeper /\ Start.at = "asleep" /\ Start.declared = {}
  BY StartTyped
<1>6. sweeper' = [sweeper EXCEPT ![load] = over, ![load + 1] = Start]  BY <1>1
<1> HIDE DEF over
<1>7. sweeper' \in [1..MaxLoads -> Sweeper] /\ sweeper'[load] = over /\ sweeper'[load + 1] = Start
      /\ \A m \in 1..MaxLoads : m \notin {load, load + 1} => sweeper'[m] = sweeper[m]
  BY <1>3, <1>4, <1>5, <1>6
<1> QED  BY <1>1, <1>3, <1>5, <1>7, Zenon

(* The threads and the world keep their types, and one thread acts.        *)
LEMMA BaseStep ==
  ASSUME Base, [Next]_vars
  PROVE  Base'
<1>1. EnvOK /\ SweepersOK /\ Functional(world) /\ Joining /\ OneSweeper /\ AllSound  BY Zenon DEF Base
<1>2. ASSUME UNCHANGED <<sweeper, load>>
      PROVE  sweeper' \in [1..MaxLoads -> Sweeper] /\ OneSweeper' /\ AllSound'
  BY <1>1, <1>2, Zenon DEF SweepersOK, OneSweeper, AllSound, Sound
<1>3. ASSUME UNCHANGED world PROVE world' \in SUBSET Item /\ Functional(world')
  BY <1>1, <1>3, Zenon DEF SweepersOK
<1>4. ASSUME sweeper' \in [1..MaxLoads -> Sweeper], OneSweeper', AllSound',
             world' \in SUBSET Item, Functional(world'), EnvOK', Joining'
      PROVE  Base'
  BY <1>4, Zenon DEF Base, SweepersOK, Functional
<1>5. ASSUME Next PROVE EnvOK' /\ Joining'  BY <1>5, EnvSteps
<1>6. ASSUME NEW n \in 1..MaxLoads, Sweep(n) \/ FailToStart(n) PROVE Base'
  <2>1. /\ sweeper' \in [1..MaxLoads -> Sweeper] /\ Sound(sweeper'[n])
        /\ n = load /\ load' = load
        /\ \A m \in 1..MaxLoads : m # n => sweeper'[m] = sweeper[m]
    BY <1>6, ThreadSteps, Zenon DEF environment
  <2>2. OneSweeper'  BY <1>1, <2>1, Zenon DEF OneSweeper
  <2>3. AllSound'
    <3>1. \A m \in 1..MaxLoads : Sound(sweeper'[m])  BY <1>1, <2>1, Zenon DEF AllSound
    <3> QED  BY <3>1, Zenon DEF AllSound, Sound
  <2>4. world' \in SUBSET Item /\ Functional(world')
    <3>1. ASSUME Stop(n) \/ FailToStart(n) PROVE UNCHANGED world
      BY <3>1, Zenon DEF Stop, FailToStart
    <3>2. ASSUME Evaluate(n) PROVE UNCHANGED world  BY <3>2, Zenon DEF Evaluate
    <3>3. ASSUME NEW u \in Unit, Observe(n, u) PROVE UNCHANGED world  BY <3>3, Zenon DEF Observe
    <3>4. ASSUME NEW hook \in Hook, RunHook(n, hook) PROVE world' \in SUBSET Item /\ Functional(world')
      <4>1. PICK acted \in SUBSET Given(hook, sweeper[n]) : world' = AfterIn(hook, acted, world)
        BY <1>1, <3>4, HookRuns, Zenon
      <4>2. sweeper[n] \in Sweeper /\ Functional(sweeper[n].declared) /\ world \in SUBSET Item
        BY <1>1 DEF SweepersOK, AllSound, Sound
      <4> QED  BY <1>1, <4>1, <4>2, WorldAfter
    <3> QED  BY <1>3, <1>6, <3>1, <3>2, <3>3, <3>4, Zenon DEF Sweep
  <2>5. Next  BY <1>6, Zenon DEF Next
  <2> QED  BY <1>4, <1>5, <2>1, <2>2, <2>3, <2>4, <2>5, Zenon
<1>7. CASE Respawn
  <2>1. load \in 1..MaxLoads  BY <1>1, Zenon DEF EnvOK
  <2>2. load # load'  BY <1>7, <2>1, Respawned
  <2>3. \A m \in 1..MaxLoads : m # load' => sweeper'[m].at \in {"none", "over", "dead"}
    <3> SUFFICES ASSUME NEW m \in 1..MaxLoads, m # load' PROVE sweeper'[m].at \in {"none", "over", "dead"}
      OBVIOUS
    <3>1. CASE m = load  BY <1>7, <3>1, Respawned
    <3>2. CASE m # load  BY <1>1, <1>7, <3>2, Respawned DEF OneSweeper
    <3> QED  BY <3>1, <3>2
  <2>4. \A m \in 1..MaxLoads : Sound(sweeper'[m])
    <3> SUFFICES ASSUME NEW m \in 1..MaxLoads PROVE Sound(sweeper'[m])
      OBVIOUS
    <3>1. CASE m \in {load, load'}
      <4>1. sweeper'[m].declared = {}  BY <1>7, <3>1, Respawned
      <4> QED  BY <4>1 DEF Sound, Functional, OneHolder
    <3>2. CASE m \notin {load, load'}  BY <1>1, <1>7, <3>2, Respawned, Zenon DEF AllSound
    <3> QED  BY <3>1, <3>2
  <2>5. OneSweeper'  BY <2>3, Zenon DEF OneSweeper
  <2>6. AllSound'  BY <2>4, Zenon DEF AllSound, Sound
  <2>7. sweeper' \in [1..MaxLoads -> Sweeper] /\ UNCHANGED world  BY <1>7, Respawned, Zenon
  <2>8. Next  BY <1>7, Zenon DEF Next
  <2> QED  BY <1>3, <1>4, <1>5, <2>5, <2>6, <2>7, <2>8, Zenon
<1>8. ASSUME NEW d \in Data, Tick(d) PROVE Base'
  <2>1. UNCHANGED <<sweeper, load>> /\ UNCHANGED world  BY <1>8, Zenon DEF Tick
  <2>2. Next  BY <1>8, Zenon DEF Next
  <2> QED  BY <1>2, <1>3, <1>4, <1>5, <2>1, <2>2, Zenon
<1>9. ASSUME NEW g \in Globals, Click(g) PROVE Base'
  <2>1. UNCHANGED <<sweeper, load>> /\ UNCHANGED world  BY <1>9, Zenon DEF Click
  <2>2. Next  BY <1>9, Zenon DEF Next
  <2> QED  BY <1>2, <1>3, <1>4, <1>5, <2>1, <2>2, Zenon
<1>10. ASSUME NEW l \in Layout, Reload(l) PROVE Base'
  <2>1. UNCHANGED <<sweeper, load>> /\ UNCHANGED world  BY <1>10, Zenon DEF Reload
  <2>2. Next  BY <1>10, Zenon DEF Next
  <2> QED  BY <1>2, <1>3, <1>4, <1>5, <2>1, <2>2, Zenon
<1>11. ASSUME NEW i \in Item, Drift(i) PROVE Base'
  <2>1. UNCHANGED <<sweeper, load>>  BY <1>11, Zenon DEF Drift, environment
  <2>2. world' \in SUBSET Item /\ Functional(world')  BY <1>1, <1>11, WorldDrifts DEF SweepersOK
  <2>3. Next  BY <1>11, Zenon DEF Next
  <2> QED  BY <1>2, <1>4, <1>5, <2>1, <2>2, <2>3, Zenon
<1>12. CASE UNCHANGED vars
  <2>1. UNCHANGED <<shown, load, values, globals, joining, world, sweeper, calm, settled, warm, clicked, events>>
    BY <1>12, Zenon DEF vars, environment, history
  <2>2. EnvOK' /\ Joining'  BY <1>1, <2>1, Zenon DEF EnvOK, Joining
  <2> QED  BY <1>2, <1>3, <1>4, <2>1, <2>2, Zenon
<1> QED  BY <1>6, <1>7, <1>8, <1>9, <1>10, <1>11, <1>12, Zenon DEF Next

-----------------------------------------------------------------------------
(* How far a sweep has come.                                               *)

(* A step that is no thread's either starts no sweep and leaves the world  *)
(* alone, or is a drift.                                                   *)
LEMMA OtherSteps ==
  ASSUME Base, [Next]_vars, NEW n \in 1..MaxLoads,
         \A m \in 1..MaxLoads : ~Sweep(m)
  PROVE  \/ calm' = FALSE
         \/ /\ UNCHANGED <<world, calm, settled>>
            /\ ~Busy(sweeper'[n]) \/ sweeper'[n] = sweeper[n]
<1>1. SweepersOK  BY Zenon DEF Base
<1>2. ASSUME NEW m \in 1..MaxLoads, FailToStart(m)
      PROVE  /\ UNCHANGED <<world, calm, settled>>
             /\ ~Busy(sweeper'[n]) \/ sweeper'[n] = sweeper[n]
  <2>1. sweeper' = [sweeper EXCEPT ![m].at = "dead"] /\ UNCHANGED <<world, calm, settled>>
    BY <1>2, Zenon DEF FailToStart, history
  <2>2. sweeper'[m].at = "dead" /\ (n # m => sweeper'[n] = sweeper[n])
    BY <1>1, <2>1, Ends, Zenon
  <2>3. ~Busy(sweeper'[m])  BY <2>2 DEF Busy, Hook
  <2> QED  BY <2>1, <2>2, <2>3, Zenon
<1>3. CASE Respawn
  <2>1. /\ sweeper'[load].at = "over" /\ sweeper'[load'].at = "asleep"
        /\ n \notin {load, load'} => sweeper'[n] = sweeper[n]
        /\ UNCHANGED <<world, calm, settled>>
    BY <1>3, Respawned, Zenon
  <2>2. ~Busy(sweeper'[load]) /\ ~Busy(sweeper'[load'])  BY <2>1 DEF Busy, Hook
  <2> QED  BY <2>1, <2>2, Zenon
<1>4. ASSUME NEW d \in Data, Tick(d) PROVE UNCHANGED <<sweeper, world, calm, settled>>
  BY <1>4, Zenon DEF Tick, history
<1>5. ASSUME NEW g \in Globals, Click(g) PROVE UNCHANGED <<sweeper, world, calm, settled>>
  BY <1>5, Zenon DEF Click, history
<1>6. ASSUME NEW l \in Layout, Reload(l) PROVE UNCHANGED <<sweeper, world, calm, settled>>
  BY <1>6, Zenon DEF Reload
<1>7. ASSUME NEW i \in Item, Drift(i) PROVE calm' = FALSE  BY <1>7, Zenon DEF Drift
<1>8. ASSUME UNCHANGED vars PROVE UNCHANGED <<sweeper, world, calm, settled>>
  BY <1>8, Zenon DEF vars, history
<1>9. ASSUME UNCHANGED sweeper PROVE sweeper'[n] = sweeper[n]  BY <1>9, Zenon
<1> QED  BY <1>2, <1>3, <1>4, <1>5, <1>6, <1>7, <1>8, <1>9, Zenon DEF Next

(* While a thread steps, no other is in a sweep.                           *)
LEMMA OthersRest ==
  ASSUME Base, NEW n \in 1..MaxLoads, Sweep(n), NEW m \in 1..MaxLoads, m # n
  PROVE  ~Busy(sweeper'[m])
<1>1. n = load /\ sweeper'[m] = sweeper[m]  BY ThreadSteps, Zenon
<1>2. sweeper[m].at \in {"none", "over", "dead"}  BY <1>1 DEF Base, OneSweeper
<1>3. ~Busy(sweeper[m])  BY <1>2 DEF Busy, Hook
<1> QED  BY <1>1, <1>3

(* A hook of a sweep that nothing disturbed leaves the Units done right,   *)
(* and its own a step further.                                             *)
LEMMA HookProgress ==
  ASSUME Base, Claimable, NEW n \in 1..MaxLoads, NEW hook \in Hook, RunHook(n, hook),
         calm' # FALSE, Progress(sweeper[n], world)
  PROVE  /\ calm
         /\ Progress(sweeper'[n], world')
         /\ sweeper'[n].at = "asleep" => sweeper'[n].left = {}
<1> DEFINE s == sweeper[n]
           t == sweeper'[n]
<1>1. SweepersOK /\ AllSound  BY Zenon DEF Base
<1>2. /\ s \in Sweeper /\ t \in Sweeper /\ world \in SUBSET Item
      /\ Functional(s.declared) /\ OneHolder(s.declared)
  BY <1>1, HookRuns DEF SweepersOK, AllSound, Sound
<1>3. /\ s.at = hook /\ t.unit = s.unit /\ t.declared = s.declared
      /\ hook = "exit" => t.at = "update" /\ t.left = s.left /\ t.seen = s.seen
      /\ hook = "update" => t.at = "enter" /\ t.left = s.left /\ t.seen = s.seen
      /\ hook = "enter" => t.left = s.left \ {s.unit} /\ t.at = IF t.left = {} THEN "asleep" ELSE "observe"
  BY <1>1, HookRuns, Zenon
<1>4. PICK acted \in SUBSET Given(hook, s) :
        /\ world' = AfterIn(hook, acted, world)
        /\ \/ acted = Given(hook, s) /\ UNCHANGED <<calm, events>>
           \/ /\ hook # "exit" /\ \E i \in Given(hook, s) : TakenIn(i, world)
              /\ acted # Given(hook, s) /\ UNCHANGED <<calm, events>>
           \/ Event /\ calm' = FALSE
  BY <1>1, HookRuns, Zenon
<1> HIDE DEF s, t
<1>5. s.unit \in s.left /\ Stage(s, world) /\ s.left \subseteq Declared(s)
      /\ \A v \in Declared(s) \ s.left : RightIn(v, s.declared, world)
  BY <1>3, Zenon DEF Progress, s
<1>6. hook # "exit" => \A i \in Given(hook, s) : ~TakenIn(i, world)
  BY <1>2, <1>3, <1>5, NothingRefused
<1>7. world' = AfterIn(hook, Given(hook, s), world) /\ calm' = calm  BY <1>4, <1>6, Zenon
<1>8. calm
  <2>1. calm \in BOOLEAN  BY Zenon DEF Base, EnvOK
  <2> QED  BY <1>7, <2>1
<1>9. \A i \in Given(hook, s) : i.unit = s.unit
  <2>1. hook = "exit" => s.seen = Of(s.unit, world)  BY <1>3, <1>5 DEF Stage
  <2> QED  BY <1>2, <1>3, <2>1, GivenOfUnit
<1>10. \A v \in Declared(s) \ s.left : RightIn(v, s.declared, world')
  <2> SUFFICES ASSUME NEW v \in Declared(s) \ s.left PROVE RightIn(v, s.declared, world')
    OBVIOUS
  <2>1. v # s.unit /\ RightIn(v, s.declared, world)  BY <1>5
  <2>2. RightIn(v, s.declared, AfterIn(hook, Given(hook, s), world))
    BY <1>2, <1>9, <2>1, Elsewhere, Zenon
  <2> QED  BY <1>7, <2>2
<1>11. Declared(t) = Declared(s)  BY <1>3 DEF Declared
<1>12. CASE hook = "exit"
  <2>1. Stage(t, world')  BY <1>2, <1>3, <1>5, <1>7, <1>12, AfterExit, Zenon
  <2>2. Progress(t, world')  BY <1>3, <1>5, <1>10, <1>11, <1>12, <2>1, Zenon DEF Progress
  <2>3. t.at # "asleep"  BY <1>3, <1>12
  <2> QED  BY <1>8, <2>2, <2>3 DEF t
<1>13. CASE hook = "update"
  <2>1. Stage(t, world')  BY <1>2, <1>3, <1>5, <1>7, <1>13, AfterUpdate, Zenon
  <2>2. Progress(t, world')  BY <1>3, <1>5, <1>10, <1>11, <1>13, <2>1, Zenon DEF Progress
  <2>3. t.at # "asleep"  BY <1>3, <1>13
  <2> QED  BY <1>8, <2>2, <2>3 DEF t
<1>14. CASE hook = "enter"
  <2>1. RightIn(s.unit, s.declared, world')  BY <1>2, <1>3, <1>5, <1>7, <1>14, AfterEnter, Zenon
  <2>2. t.left \subseteq Declared(t) /\ \A v \in Declared(t) \ t.left : v = s.unit \/ v \notin s.left
    BY <1>3, <1>5, <1>11, <1>14
  <2>3. \A v \in Declared(t) \ t.left : RightIn(v, t.declared, world')
    BY <1>3, <1>10, <1>11, <2>1, <2>2, Zenon
  <2>4. t.at \notin Hook /\ (t.at = "asleep" => t.left = {})  BY <1>3, <1>14 DEF Hook
  <2>5. Progress(t, world')  BY <2>2, <2>3, <2>4, Zenon DEF Progress
  <2> QED  BY <1>8, <2>4, <2>5 DEF t
<1>15. hook \in {"exit", "update", "enter"}  BY DEF Hook
<1> QED  BY <1>12, <1>13, <1>14, <1>15

(* Every step keeps a sweep that nothing disturbs on its way.              *)
LEMMA SweptStep ==
  ASSUME Base, Swept, [Next]_vars
  PROVE  Swept'
<1>1. SUFFICES ASSUME Claimable, calm', NEW m \in 1..MaxLoads, Busy(sweeper'[m])
               PROVE  Progress(sweeper'[m], world')
  <2>1. Claimable /\ calm' => \A m \in 1..MaxLoads : Busy(sweeper'[m]) => Progress(sweeper'[m], world')
    BY <1>1
  <2> QED  BY <2>1, Zenon DEF Swept, Busy, Progress, Stage, Freed, RightIn, Declared, Of, Has, Claimable
<1>2. SweepersOK /\ EnvOK  BY Zenon DEF Base
<1>3. calm' # FALSE  BY <1>1
<1>4. \A n \in 1..MaxLoads : calm /\ Busy(sweeper[n]) => Progress(sweeper[n], world)
  BY <1>1, Zenon DEF Swept
<1>5. ASSUME NEW n \in 1..MaxLoads, Sweep(n) PROVE Progress(sweeper'[m], world')
  <2>1. m = n  BY <1>1, <1>5, OthersRest, Zenon
  <2>2. CASE Stop(n)
    <3>1. sweeper' = [sweeper EXCEPT ![n].at = "over"]  BY <2>2, Zenon DEF Stop
    <3>2. sweeper'[n].at = "over"  BY <1>2, <3>1, Ends, Zenon
    <3>3. ~Busy(sweeper'[n])  BY <3>2 DEF Busy, Hook
    <3> QED  BY <1>1, <2>1, <3>3
  <2>3. CASE Evaluate(n)
    <3>1. shown \in Layout /\ values \in Data /\ globals \in Globals  BY <1>2, Zenon DEF EnvOK
    <3>2. /\ sweeper'[n].at \in {"asleep", "observe"}
          /\ sweeper'[n].left = Declared(sweeper'[n])
      BY <1>2, <2>3, <3>1, Evaluated, Zenon
    <3>3. sweeper'[n].at \notin Hook  BY <3>2 DEF Hook
    <3>4. Progress(sweeper'[n], world')  BY <3>2, <3>3 DEF Progress
    <3> QED  BY <2>1, <3>4
  <2>4. ASSUME NEW u \in Unit, Observe(n, u) PROVE Progress(sweeper'[m], world')
    <3> DEFINE s == sweeper[n]
               t == sweeper'[n]
    <3>1. /\ s.at = "observe" /\ t.at = "exit" /\ u \in s.left /\ t.unit = u
          /\ t.left = s.left /\ t.declared = s.declared
          /\ t.seen = Of(u, world) /\ calm' = calm /\ world' = world
      BY <1>2, <1>3, <2>4, Observed, Zenon
    <3> HIDE DEF s, t
    <3>2. Busy(s)  BY <3>1 DEF Busy
    <3>3. Progress(s, world)  BY <1>1, <1>4, <3>1, <3>2, Zenon DEF s
    <3>4. Declared(t) = Declared(s)  BY <3>1 DEF Declared
    <3>5. Stage(t, world')  BY <3>1 DEF Stage
    <3>6. Progress(t, world')  BY <3>1, <3>3, <3>4, <3>5, Zenon DEF Progress
    <3> QED  BY <2>1, <3>6 DEF t
  <2>5. ASSUME NEW hook \in Hook, RunHook(n, hook) PROVE Progress(sweeper'[m], world')
    <3>1. sweeper[n].at = hook  BY <1>2, <2>5, HookRuns, Zenon
    <3>2. Busy(sweeper[n])  BY <3>1 DEF Busy
    <3>3. calm
      <4>1. calm' \in {calm, FALSE}  BY <1>2, <2>5, HookRuns, Zenon
      <4>2. calm \in BOOLEAN  BY <1>2, Zenon DEF EnvOK
      <4> QED  BY <1>1, <4>1, <4>2
    <3>4. Progress(sweeper[n], world)  BY <1>4, <3>2, <3>3
    <3> QED  BY <1>1, <1>3, <2>1, <2>5, <3>4, HookProgress, Zenon
  <2> QED  BY <1>5, <2>2, <2>3, <2>4, <2>5, Zenon DEF Sweep
<1>6. ASSUME \A n \in 1..MaxLoads : ~Sweep(n) PROVE Progress(sweeper'[m], world')
  <2>1. UNCHANGED <<world, calm>> /\ sweeper'[m] = sweeper[m]
    BY <1>1, <1>3, <1>6, OtherSteps, Zenon
  <2>2. calm /\ Busy(sweeper[m])  BY <1>1, <2>1, Zenon
  <2> QED  BY <1>4, <2>1, <2>2, Zenon
<1> QED  BY <1>5, <1>6, Zenon

(* Of a world that is as declared, a hook is given nothing.                *)
LEMMA GivenNothing ==
  ASSUME NEW s \in Sweeper, NEW there \in SUBSET Item, NEW hook \in Hook, s.at = hook,
         Untouched(s, there)
  PROVE  Given(hook, s) = {}
<1>1. /\ RightIn(s.unit, s.declared, there) /\ s.seen = Of(s.unit, there)
  BY Zenon DEF Untouched
<1>2. hook \in {"exit", "update", "enter"}  BY DEF Hook
<1>3. \A i : i.unit = s.unit =>
        /\ Has(s.seen, i) <=> Has(there, i)
        /\ Has(Of(s.unit, s.declared), i) <=> Has(s.declared, i)
        /\ i \in s.seen <=> i \in there
  BY <1>1 DEF Has, Of
<1>4. \A i \in Of(s.unit, s.declared) : i.unit = s.unit  BY DEF Of
<1>5. \A i \in s.seen : i.unit = s.unit /\ i \in Of(s.unit, there)  BY <1>1 DEF Of
<1>6. ASSUME hook \in Manages[s.unit], NEW i \in Batch(hook, s) PROVE FALSE
  <2>1. CASE hook = "exit"
    <3>1. i \in s.seen /\ ~Has(Of(s.unit, s.declared), i)  BY <1>6, <2>1 DEF Batch
    <3>2. Has(s.declared, i)  BY <1>1, <1>5, <1>6, <2>1, <3>1, Zenon DEF RightIn
    <3> QED  BY <1>3, <1>5, <3>1, <3>2
  <2>2. CASE hook = "update"
    <3>1. i \in Of(s.unit, s.declared) /\ Has(s.seen, i) /\ i \notin s.seen  BY <1>6, <2>2 DEF Batch
    <3>2. Has(there, i) /\ i \notin there  BY <1>3, <1>4, <3>1, Zenon
    <3> QED  BY <1>1, <1>6, <2>2, <3>1, <3>2, Zenon DEF RightIn
  <2>3. CASE hook = "enter"
    <3>1. i \in Of(s.unit, s.declared) /\ ~Has(s.seen, i)  BY <1>6, <2>3 DEF Batch
    <3>2. ~Has(there, i)  BY <1>3, <1>4, <3>1, Zenon
    <3> QED  BY <1>1, <1>6, <2>3, <3>1, <3>2, Zenon DEF RightIn
  <2> QED  BY <1>2, <2>1, <2>2, <2>3
<1> QED  BY <1>6 DEF Given

(* Acting on nothing changes nothing.                                      *)
LEMMA ActsOnNothing ==
  ASSUME NEW there, NEW hook
  PROVE  AfterIn(hook, {}, there) = there
  BY DEF AfterIn, Has

(* Every step leaves a world that was as declared alone, but for a drift.  *)
LEMMA SettledStep ==
  ASSUME Base, Settled, [Next]_vars
  PROVE  Settled'
<1>1. SUFFICES ASSUME calm', settled', NEW m \in 1..MaxLoads, Busy(sweeper'[m])
               PROVE  Untouched(sweeper'[m], world')
  <2>1. calm' /\ settled' => \A m \in 1..MaxLoads : Busy(sweeper'[m]) => Untouched(sweeper'[m], world')
    BY <1>1
  <2> QED  BY <2>1, Zenon DEF Settled, Busy, Untouched, RightIn, Declared, Of, Has
<1>2. SweepersOK /\ EnvOK  BY Zenon DEF Base
<1>3. calm' # FALSE  BY <1>1
<1>4. \A n \in 1..MaxLoads : calm /\ settled /\ Busy(sweeper[n]) => Untouched(sweeper[n], world)
  BY <1>1, Zenon DEF Settled
<1>5. ASSUME NEW n \in 1..MaxLoads, Sweep(n) PROVE Untouched(sweeper'[m], world')
  <2>1. m = n  BY <1>1, <1>5, OthersRest, Zenon
  <2>2. CASE Stop(n)
    <3>1. sweeper' = [sweeper EXCEPT ![n].at = "over"]  BY <2>2, Zenon DEF Stop
    <3>2. sweeper'[n].at = "over"  BY <1>2, <3>1, Ends, Zenon
    <3>3. ~Busy(sweeper'[n])  BY <3>2 DEF Busy, Hook
    <3> QED  BY <1>1, <2>1, <3>3
  <2>3. CASE Evaluate(n)
    <3>1. shown \in Layout /\ values \in Data /\ globals \in Globals  BY <1>2, Zenon DEF EnvOK
    <3> DEFINE t == sweeper'[n]
    <3>2. /\ t.at \in {"asleep", "observe"} /\ t.left = Declared(t)
          /\ settled' = AllRight(t.declared) /\ world' = world
      BY <1>2, <2>3, <3>1, Evaluated, Zenon
    <3> HIDE DEF t
    <3>3. t.at \notin Hook  BY <3>2 DEF Hook
    <3>4. \A v \in Declared(t) : RightIn(v, t.declared, world')
      BY <1>1, <3>2, InThisWorld, Zenon DEF AllRight, Declared
    <3>5. Untouched(t, world')  BY <3>2, <3>3, <3>4 DEF Untouched
    <3> QED  BY <2>1, <3>5 DEF t
  <2>4. ASSUME NEW u \in Unit, Observe(n, u) PROVE Untouched(sweeper'[m], world')
    <3> DEFINE s == sweeper[n]
               t == sweeper'[n]
    <3>1. /\ s.at = "observe" /\ t.at = "exit" /\ u \in s.left /\ t.unit = u
          /\ t.left = s.left /\ t.declared = s.declared
          /\ t.seen = Of(u, world) /\ calm' = calm /\ world' = world /\ settled' = settled
      BY <1>2, <1>3, <2>4, Observed, Zenon
    <3> HIDE DEF s, t
    <3>2. Busy(s)  BY <3>1 DEF Busy
    <3>3. Untouched(s, world)  BY <1>1, <1>4, <3>1, <3>2, Zenon DEF s
    <3>4. Declared(t) = Declared(s)  BY <3>1 DEF Declared
    <3>5. u \in Declared(s)  BY <3>1, <3>3 DEF Untouched
    <3>6. Untouched(t, world')  BY <3>1, <3>3, <3>4, <3>5, Zenon DEF Untouched
    <3> QED  BY <2>1, <3>6 DEF t
  <2>5. ASSUME NEW hook \in Hook, RunHook(n, hook) PROVE Untouched(sweeper'[m], world')
    <3> DEFINE s == sweeper[n]
               t == sweeper'[n]
    <3>1. s.at = hook /\ s \in Sweeper /\ world \in SUBSET Item
      BY <1>2, <2>5, HookRuns, Zenon DEF SweepersOK
    <3>2. Busy(s)  BY <3>1 DEF Busy
    <3>3. calm /\ settled
      <4>1. calm' \in {calm, FALSE} /\ settled' = settled  BY <1>2, <2>5, HookRuns, Zenon
      <4>2. calm \in BOOLEAN  BY <1>2, Zenon DEF EnvOK
      <4> QED  BY <1>1, <4>1, <4>2
    <3>4. Untouched(s, world)  BY <1>4, <3>2, <3>3
    <3>5. Given(hook, s) = {}  BY <3>1, <3>4, GivenNothing
    <3>6. world' = AfterIn(hook, {}, world)
      <4>1. PICK acted \in SUBSET Given(hook, s) : world' = AfterIn(hook, acted, world)
        BY <1>2, <2>5, HookRuns, Zenon
      <4>2. acted = {}  BY <3>5, <4>1
      <4> QED  BY <4>1, <4>2
    <3>7. world' = world  BY <3>6, ActsOnNothing
    <3>8. /\ t.unit = s.unit /\ t.declared = s.declared
          /\ hook = "exit" => t.at = "update" /\ t.left = s.left /\ t.seen = s.seen
          /\ hook = "update" => t.at = "enter" /\ t.left = s.left /\ t.seen = s.seen
          /\ hook = "enter" => t.left = s.left \ {s.unit} /\ t.at = IF t.left = {} THEN "asleep" ELSE "observe"
      BY <1>2, <2>5, HookRuns, Zenon
    <3>9. hook \in {"exit", "update", "enter"}  BY DEF Hook
    <3> HIDE DEF s, t
    <3>10. Declared(t) = Declared(s)  BY <3>8 DEF Declared
    <3>11. t.left \subseteq Declared(t)  BY <3>4, <3>8, <3>9, <3>10 DEF Untouched
    <3>12. t.at \in Hook => t.seen = s.seen  BY <3>8, <3>9 DEF Hook
    <3>13. s.at \in Hook  BY <3>1
    <3>14. Untouched(t, world')
      BY <3>4, <3>7, <3>8, <3>10, <3>11, <3>12, <3>13, Zenon DEF Untouched
    <3> QED  BY <2>1, <3>14 DEF t
  <2> QED  BY <1>5, <2>2, <2>3, <2>4, <2>5, Zenon DEF Sweep
<1>6. ASSUME \A n \in 1..MaxLoads : ~Sweep(n) PROVE Untouched(sweeper'[m], world')
  <2>1. UNCHANGED <<world, calm, settled>> /\ sweeper'[m] = sweeper[m]
    BY <1>1, <1>3, <1>6, OtherSteps, Zenon
  <2>2. calm /\ settled /\ Busy(sweeper[m])  BY <1>1, <2>1, Zenon
  <2> QED  BY <1>4, <2>1, <2>2, Zenon
<1> QED  BY <1>5, <1>6, Zenon

-----------------------------------------------------------------------------
(* The theorems.                                                           *)

(* Nothing has begun when the program starts.                              *)
LEMMA InitHolds ==
  ASSUME Init
  PROVE  IInv
<1>1. /\ shown \in Layout /\ load = 1 /\ values = NoData /\ globals = NoGlobals
      /\ joining = "no" /\ world = {}
      /\ sweeper = [n \in 1..MaxLoads |-> IF n = 1 THEN Start ELSE NoSweeper]
      /\ calm = TRUE /\ settled = FALSE /\ clicked = FALSE /\ warm = {} /\ events = 0
  BY Zenon DEF Init
<1>2. EnvOK
  <2>1. load \in 1..MaxLoads /\ events \in 0..MaxEvents  BY <1>1, BoundsAssumption
  <2>2. values \in Data /\ globals \in Globals  BY <1>1, DataAssumption
  <2>3. joining \in Layout \cup {"no"} /\ warm \subseteq Item  BY <1>1
  <2>4. calm \in BOOLEAN /\ settled \in BOOLEAN /\ clicked \in BOOLEAN  BY <1>1
  <2> QED  BY <1>1, <2>1, <2>2, <2>3, <2>4, Zenon DEF EnvOK
<1>3. SweepersOK  BY <1>1, StartTyped DEF SweepersOK
<1>4. Functional(world)  BY <1>1 DEF Functional
<1>5. Joining  BY <1>1 DEF Joining
<1>6. OneSweeper  BY <1>1, StartTyped DEF OneSweeper
<1>7. \A n \in 1..MaxLoads : sweeper[n].declared = {}  BY <1>1, StartTyped
<1>8. AllSound  BY <1>7 DEF AllSound, Sound, Functional, OneHolder
<1>9. \A n \in 1..MaxLoads : sweeper[n].at \in {"none", "asleep"}  BY <1>1, StartTyped
<1>10. \A n \in 1..MaxLoads : ~Busy(sweeper[n])  BY <1>9 DEF Busy, Hook
<1>11. Swept /\ Settled  BY <1>10, Zenon DEF Swept, Settled
<1> QED  BY <1>2, <1>3, <1>4, <1>5, <1>6, <1>8, <1>11, Zenon DEF IInv, Base

(* The invariant the theorems below rest on.                               *)
LEMMA InvariantHolds == Spec => []IInv
<1>1. Init => IInv  BY InitHolds
<1>2. IInv /\ [Next]_vars => IInv'
  <2> SUFFICES ASSUME IInv, [Next]_vars PROVE IInv'
    OBVIOUS
  <2>1. Base' /\ Swept' /\ Settled'  BY BaseStep, SweptStep, SettledStep, Zenon DEF IInv
  <2> QED  BY <2>1, Zenon DEF IInv
<1> QED  BY <1>1, <1>2, PTL DEF Spec

(* Every variable keeps its type, and the world has each key once.         *)
THEOREM UnitsTyped == Spec => []TypeOK
<1>1. IInv => TypeOK  BY BaseTyped, Zenon DEF IInv
<1> QED  BY <1>1, InvariantHolds, PTL

(* Two layouts never act on the world at once, however reloads and sweeps  *)
(* interleave.                                                             *)
THEOREM OneActsAtATime == Spec => []OneSweeper
<1>1. IInv => OneSweeper  BY Zenon DEF IInv, Base
<1> QED  BY <1>1, InvariantHolds, PTL

(* Unless something drifts or throws, a sweep of a world that is as        *)
(* declared has nothing to give to any hook.                               *)
THEOREM SettledIsQuiet == Spec => []QuietWhenSettled
<1>1. ASSUME IInv, NEW n \in 1..MaxLoads, NEW hook \in Hook, sweeper[n].at = hook, settled, calm,
             hook \in Manages[sweeper[n].unit]
      PROVE  Batch(hook, sweeper[n]) = {}
  <2>1. sweeper[n] \in Sweeper /\ world \in SUBSET Item  BY <1>1 DEF IInv, Base, SweepersOK
  <2>2. Busy(sweeper[n])  BY <1>1 DEF Busy
  <2>3. Untouched(sweeper[n], world)  BY <1>1, <2>2, Zenon DEF IInv, Settled
  <2>4. Given(hook, sweeper[n]) = {}  BY <1>1, <2>1, <2>3, GivenNothing
  <2> QED  BY <1>1, <2>4, Zenon DEF Given
<1>2. IInv => QuietWhenSettled  BY <1>1, Zenon DEF QuietWhenSettled
<1> QED  BY <1>2, InvariantHolds, PTL

(* A sweep that nothing disturbs is enough, whatever the world held when   *)
(* it began, as long as no layout wants two holders of what one can have.  *)
THEOREM OneSweepDoes == ASSUME Claimable PROVE Spec => OneSweepIsEnough
<1> DEFINE P == \A n \in 1..MaxLoads :
       sweeper[n].at \in Hook /\ sweeper'[n].at = "asleep" /\ calm' => AllRight(sweeper[n].declared)'
<1>1. ASSUME IInv, [Next]_vars, NEW n \in 1..MaxLoads,
             sweeper[n].at \in Hook, sweeper'[n].at = "asleep", calm'
      PROVE  AllRight(sweeper[n].declared)'
  <2>1. Base /\ Swept /\ SweepersOK /\ EnvOK  BY <1>1, Zenon DEF IInv, Base
  <2>2. sweeper[n].at \notin {"asleep", "observe", "none", "over", "dead"}  BY <1>1 DEF Hook
  <2>3. PICK hook \in Hook : RunHook(n, hook)
    <3>1. ASSUME \A m \in 1..MaxLoads : ~Sweep(m) PROVE FALSE
      <4>1. sweeper' # sweeper
        BY <1>1, <2>2
      <4>2. CASE Respawn
        <5>1. sweeper[load].at \in {"over", "dead"}  BY <4>2, Zenon DEF Respawn
        <5>2. n = load  BY <2>1, <2>2 DEF Base, OneSweeper
        <5> QED  BY <2>2, <5>1, <5>2
      <4>3. ASSUME NEW m \in 1..MaxLoads, FailToStart(m) PROVE FALSE
        <5>1. sweeper' = [sweeper EXCEPT ![m].at = "dead"]  BY <4>3, Zenon DEF FailToStart
        <5>2. sweeper'[m].at = "dead" /\ (n # m => sweeper'[n] = sweeper[n])
          BY <2>1, <5>1, Ends, Zenon
        <5> QED  BY <1>1, <2>2, <5>2
      <4>4. ASSUME NEW d \in Data, Tick(d) PROVE sweeper' = sweeper  BY <4>4, Zenon DEF Tick
      <4>5. ASSUME NEW g \in Globals, Click(g) PROVE sweeper' = sweeper  BY <4>5, Zenon DEF Click
      <4>6. ASSUME NEW l \in Layout, Reload(l) PROVE sweeper' = sweeper  BY <4>6, Zenon DEF Reload
      <4>7. ASSUME NEW i \in Item, Drift(i) PROVE sweeper' = sweeper  BY <4>7, Zenon DEF Drift
      <4>8. ASSUME UNCHANGED vars PROVE sweeper' = sweeper  BY <4>8, Zenon DEF vars
      <4> QED  BY <1>1, <3>1, <4>1, <4>2, <4>3, <4>4, <4>5, <4>6, <4>7, <4>8, Zenon DEF Next
    <3>2. PICK m \in 1..MaxLoads : Sweep(m)  BY <3>1, Zenon
    <3>3. m = n
      <4>1. m # n => sweeper'[n] = sweeper[n]  BY <2>1, <3>2, ThreadSteps, Zenon
      <4> QED  BY <1>1, <2>2, <4>1
    <3>4. ASSUME Stop(n) PROVE FALSE  BY <2>2, <3>4, Zenon DEF Stop
    <3>5. ASSUME Evaluate(n) PROVE FALSE
      <4>1. sweeper[n].at = "asleep"  BY <3>5, Zenon DEF Evaluate
      <4> QED  BY <2>2, <4>1
    <3>6. ASSUME NEW u \in Unit, Observe(n, u) PROVE FALSE
      <4>1. sweeper[n].at = "observe"  BY <2>1, <3>6, Observed, Zenon
      <4> QED  BY <2>2, <4>1
    <3>7. Sweep(n)  BY <3>2, <3>3
    <3> QED  BY <2>2, <3>4, <3>5, <3>6, <3>7, Zenon DEF Sweep
  <2>4. calm' # FALSE  BY <1>1
  <2>5. calm
    <3>1. calm' \in {calm, FALSE}  BY <2>1, <2>3, HookRuns, Zenon
    <3>2. calm \in BOOLEAN  BY <2>1, Zenon DEF EnvOK
    <3> QED  BY <1>1, <3>1, <3>2
  <2>6. Progress(sweeper[n], world)
    <3>1. Busy(sweeper[n])  BY <1>1 DEF Busy
    <3> QED  BY <2>1, <2>5, <3>1, Zenon DEF Swept
  <2>7. Progress(sweeper'[n], world') /\ sweeper'[n].left = {}
    BY <1>1, <2>1, <2>3, <2>4, <2>6, HookProgress, Zenon
  <2>8. \A v \in Declared(sweeper'[n]) : RightIn(v, sweeper'[n].declared, world')
    BY <2>7 DEF Progress
  <2> QED  BY <2>8, Zenon DEF AllRight, Declared, Right, RightIn, Of, Has
<1>2. IInv /\ [Next]_vars => [P]_vars  BY <1>1, Zenon
<1> QED  BY <1>2, InvariantHolds, PTL DEF Spec, OneSweepIsEnough

-----------------------------------------------------------------------------
(* The thread of the layout in use is over only when it was told to stop;  *)
(* what it rests on declared nothing, or threw, unless somebody clicked    *)
(* since; and it does not rest while it sweeps.                            *)
Rested ==
  LET s == sweeper[load] IN
  /\ joining = "no" => s.at = "asleep" \/ s.at = "dead" \/ Busy(s)
  /\ s.at = "asleep" /\ s.idle /\ ~clicked =>
       Declares[shown][s.saw][globals] = Throws \/ Declares[shown][s.saw][globals] = {}
  /\ Busy(s) => ~s.idle

(* Observations and hooks leave alone what a thread rests on.              *)
LEMMA KeepsIdle ==
  ASSUME SweepersOK, NEW n \in 1..MaxLoads,
         (\E u \in Unit : Observe(n, u)) \/ (\E hook \in Hook : RunHook(n, hook))
  PROVE  sweeper'[n].idle = sweeper[n].idle
<1>1. sweeper \in [1..MaxLoads -> Sweeper] /\ sweeper[n] \in Sweeper
  BY DEF SweepersOK
<1>2. ASSUME NEW u \in Unit, Observe(n, u) PROVE sweeper'[n].idle = sweeper[n].idle
  <2>1. PICK seen \in {Of(u, world), {}} :
          sweeper' = [sweeper EXCEPT ![n].at = Order[1], ![n].unit = u, ![n].seen = seen]
    BY <1>2, Zenon DEF Observe
  <2> QED BY <1>1, <2>1 DEF Sweeper
<1>3. ASSUME NEW hook \in Hook, RunHook(n, hook) PROVE sweeper'[n].idle = sweeper[n].idle
  <2>1. \E at, left, seen : sweeper' = [sweeper EXCEPT ![n].at = at, ![n].left = left, ![n].seen = seen]
    BY <1>3, Zenon DEF RunHook
  <2>2. PICK at, left, seen : sweeper' = [sweeper EXCEPT ![n].at = at, ![n].left = left, ![n].seen = seen]
    BY <2>1, Zenon
  <2> QED BY <1>1, <2>2 DEF Sweeper
<1> QED BY <1>2, <1>3

(* A thread comes to rest on an evaluation that declares nothing, or that  *)
(* throws, of the data it notes.                                           *)
LEMMA EvaluationRests ==
  ASSUME SweepersOK, NEW n \in 1..MaxLoads, Evaluate(n)
  PROVE  /\ sweeper'[n].at \in {"asleep", "observe"}
         /\ sweeper'[n].at = "observe" => ~sweeper'[n].idle
         /\ sweeper'[n].saw = values
         /\ sweeper'[n].idle => \/ Declares[shown][values][globals] = Throws
                                \/ Declares[shown][values][globals] = {}
<1> DEFINE items == Declares[shown][values][globals]
           declared == IF items = Throws THEN {} ELSE items
           s == [Start EXCEPT !.at = IF declared = {} THEN "asleep" ELSE "observe",
                              !.idle = (declared = {}), !.saw = values,
                              !.declared = declared,
                              !.left = {i.unit : i \in declared}]
<1>1. sweeper' = [sweeper EXCEPT ![n] = s]
  BY DEF Evaluate
<1>2. declared = {} => items = Throws \/ items = {}
  OBVIOUS
<1> HIDE DEF declared, items
<1>3. /\ s.at = IF declared = {} THEN "asleep" ELSE "observe"
      /\ s.idle = (declared = {}) /\ s.saw = values
  BY DEF Start, NoSweeper
<1> HIDE DEF s
<1>4. sweeper'[n] = s
  BY <1>1 DEF SweepersOK
<1> QED BY <1>2, <1>3, <1>4 DEF items

(* No step makes the thread of the layout in use rest on something else.   *)
LEMMA StepRests ==
  ASSUME IInv, Rested, [Next]_vars
  PROVE  Rested'
<1>1. Base /\ SweepersOK /\ EnvOK /\ load \in 1..MaxLoads
  BY Zenon DEF IInv, Base, EnvOK
<1>3. ASSUME NEW n \in 1..MaxLoads, Sweep(n) \/ FailToStart(n) PROVE Rested'
  <2>1. n = load /\ UNCHANGED <<shown, load, values, globals, joining>>
    BY <1>1, <1>3, ThreadSteps, Zenon DEF environment
  <2>2. CASE Stop(n)
    <3>1. joining # "no" /\ sweeper' = [sweeper EXCEPT ![n].at = "over"]
      BY <2>2, Zenon DEF Stop
    <3>2. sweeper'[n].at = "over"
      BY <1>1, <3>1, Ends
    <3> QED BY <2>1, <3>1, <3>2 DEF Rested, Busy, Hook
  <2>3. CASE FailToStart(n)
    <3>1. sweeper' = [sweeper EXCEPT ![n].at = "dead"]
      BY <2>3, Zenon DEF FailToStart
    <3>2. sweeper'[n].at = "dead"
      BY <1>1, <3>1, Ends
    <3> QED BY <2>1, <3>2 DEF Rested, Busy, Hook
  <2>4. CASE Evaluate(n)
    <3>1. /\ sweeper'[n].at \in {"asleep", "observe"}
          /\ sweeper'[n].at = "observe" => ~sweeper'[n].idle
          /\ sweeper'[n].saw = values
          /\ sweeper'[n].idle => \/ Declares[shown][values][globals] = Throws
                                 \/ Declares[shown][values][globals] = {}
      BY <1>1, <2>4, EvaluationRests
    <3> QED BY <2>1, <3>1 DEF Rested, Busy, Hook
  <2>5. ASSUME NEW u \in Unit, Observe(n, u) PROVE Rested'
    <3>1. sweeper[n].at = "observe" /\ sweeper'[n].at = "exit"
      BY <1>1, <2>5, Observed, Zenon
    <3>2. ~sweeper'[n].idle
      BY <1>1, <2>1, <2>5, <3>1, KeepsIdle DEF Rested, Busy
    <3> QED BY <2>1, <3>1, <3>2 DEF Rested, Busy, Hook
  <2>6. ASSUME NEW hook \in Hook, RunHook(n, hook) PROVE Rested'
    <3>1. /\ sweeper[n].at = hook
          /\ hook = "exit" => sweeper'[n].at = "update"
          /\ hook = "update" => sweeper'[n].at = "enter"
          /\ hook = "enter" => sweeper'[n].at \in {"asleep", "observe"}
      BY <1>1, <2>6, HookRuns
    <3>2. sweeper'[n].at \in {"asleep", "observe", "update", "enter"}
      BY <3>1 DEF Hook
    <3>3. Busy(sweeper[n])
      BY <3>1 DEF Busy
    <3>4. sweeper'[n].idle = sweeper[n].idle
      BY <1>1, <2>6, KeepsIdle
    <3>5. ~sweeper'[n].idle
      BY <2>1, <3>3, <3>4 DEF Rested
    <3> QED BY <2>1, <3>2, <3>5 DEF Rested, Busy, Hook
  <2> QED BY <1>3, <2>2, <2>3, <2>4, <2>5, <2>6, Zenon DEF Sweep
<1>4. CASE Respawn
  <2>1. load' \in 1..MaxLoads /\ load' = load + 1
    BY <1>1, <1>4, Respawned
  <2>2. sweeper' = [sweeper EXCEPT ![load] = [NoSweeper EXCEPT !.at = "over"], ![load + 1] = Start]
    BY <1>4, Zenon DEF Respawn
  <2>3. sweeper'[load'] = Start
    BY <1>1, <2>1, <2>2 DEF SweepersOK
  <2>4. Start.at = "asleep" /\ ~Start.idle
    BY DEF Start, NoSweeper
  <2> QED BY <2>3, <2>4 DEF Rested, Busy, Hook
<1>5. ASSUME NEW d \in Data, Tick(d) PROVE Rested'
  <2>1. UNCHANGED <<shown, load, globals, sweeper, clicked, joining>>
    BY <1>5, Zenon DEF Tick
  <2> QED BY <2>1, Zenon DEF Rested, Busy
<1>6. ASSUME NEW g \in Globals, Click(g) PROVE Rested'
  <2>1. UNCHANGED <<shown, load, sweeper, joining>> /\ clicked' = TRUE
    BY <1>6, Zenon DEF Click
  <2> QED BY <2>1, Zenon DEF Rested, Busy
<1>7. ASSUME NEW l \in Layout, Reload(l) PROVE Rested'
  <2>1. UNCHANGED <<shown, load, sweeper, globals, clicked>> /\ joining = "no"
    BY <1>7, Zenon DEF Reload
  <2> QED BY <2>1, Zenon DEF Rested, Busy
<1>8. ASSUME NEW i \in Item, Drift(i) PROVE Rested'
  <2>1. UNCHANGED <<shown, load, sweeper, globals, clicked, joining>>
    BY <1>8, Zenon DEF Drift, environment
  <2> QED BY <2>1, Zenon DEF Rested, Busy
<1>9. CASE UNCHANGED vars
  <2>1. UNCHANGED <<shown, load, sweeper, globals, clicked, joining>>
    BY <1>9, Zenon DEF vars, environment
  <2> QED BY <2>1, Zenon DEF Rested, Busy
<1> QED BY <1>3, <1>4, <1>5, <1>6, <1>7, <1>8, <1>9, Zenon DEF Next

(* The reconciler of the layout in use is there until its layout is not,   *)
(* and rests on nothing but data and a layout that declare no Item, or that*)
(* throw: with OneSweepDoes, what is left of Converges is that sweeps end  *)
(* and are left undisturbed in the end (units.rs: Reconciler::spawn).      *)
THEOREM RestsOnNothingElse == Spec => []RestsOnNothing
<1>1. Init => Rested
  <2> SUFFICES ASSUME Init PROVE Rested
    OBVIOUS
  <2>1. sweeper[1] = Start /\ load = 1
    BY BoundsAssumption DEF Init
  <2>2. Start.at = "asleep" /\ ~Start.idle
    BY DEF Start, NoSweeper
  <2> QED BY <2>1, <2>2 DEF Rested, Busy, Hook
<1>2. Rested => RestsOnNothing
  <2>1. ASSUME Rested, joining = "no", sweeper[load].at \notin {"observe"} \cup Hook,
               sweeper[load].at = "asleep" => Idle(load), ~clicked, sweeper[load].at # "dead"
        PROVE  Declares[shown][values][globals] = Throws \/ Declares[shown][values][globals] = {}
    <3>1. sweeper[load].at = "asleep"
      BY <2>1 DEF Rested, Busy
    <3>2. sweeper[load].idle /\ sweeper[load].saw = values
      BY <2>1, <3>1 DEF Idle
    <3> QED BY <2>1, <3>1, <3>2 DEF Rested
  <2> QED BY <2>1, Zenon DEF RestsOnNothing, Excused
<1>3. IInv /\ Rested /\ [Next]_vars => Rested'
  BY StepRests, Zenon
<1> QED BY <1>1, <1>2, <1>3, InvariantHolds, PTL DEF Spec
=============================================================================
