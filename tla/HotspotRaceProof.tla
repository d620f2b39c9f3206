--------------------------- MODULE HotspotRaceProof ---------------------------
(***************************************************************************)
(* What the compare-and-swap loops of core/hotspot keep, for any number of  *)
(* requests, values, goroutines and rules.  Base says that the caches, the  *)
(* pointers and the cells are in order: no cell is shared by two values, or *)
(* by a time and a count, so that a write through a pointer of one value    *)
(* disturbs no other (HotspotProof shows that it always holds).  On it rest *)
(* the invariant of the reject controller, RejectInv, and of the throttling *)
(* controller, ThrottleInv.  The steps <1>Name of RejectNext and            *)
(* ThrottleNext are lemmas about one action or one kind of step each.       *)
(***************************************************************************)
EXTENDS Hotspot, TLAPS

\* A step that does not name another prover is first-order reasoning.
USE Zenon

----------------------------------------------------------------------------
(* The caches                                                                *)

Entry == [arg : Args, cell : Cells]

\* A cache has at most one entry of a value.
Cache(c) ==
    /\ c \in Seq(Entry)
    /\ \A i, j \in 1..Len(c) : c[i].arg = c[j].arg => i = j

\* d maps every value as c does.
SameMap(c, d) == \A a \in Args : Has(d, a) = Has(c, a) /\ (Has(c, a) => CellOf(d, a) = CellOf(c, a))

\* An entry makes its value present and its cell the cell of the value.
LEMMA CellAt ==
    ASSUME NEW c, Cache(c), NEW a \in Args, NEW i \in 1..Len(c), c[i].arg = a
    PROVE  Has(c, a) /\ CellOf(c, a) = c[i].cell /\ Find(c, a) = i
<1>1. Find(c, a) \in 1..Len(c) /\ c[Find(c, a)].arg = a
  BY DEF Find
<1>2. Find(c, a) = i
  BY <1>1 DEF Cache
<1> QED
  BY <1>2 DEF Has, CellOf

\* A value that is present has an entry.
LEMMA CellFound ==
    ASSUME NEW c, Cache(c), NEW a \in Args, Has(c, a)
    PROVE  \E i \in 1..Len(c) : c[i].arg = a /\ c[i].cell = CellOf(c, a) /\ Find(c, a) = i
<1>1. PICK i \in 1..Len(c) : c[i].arg = a
  BY DEF Has
<1> QED
  BY <1>1, CellAt

\* The cell of a value is a cell.
LEMMA CellType ==
    ASSUME NEW c, Cache(c), NEW a \in Args
    PROVE  Has(c, a) \in BOOLEAN /\ (Has(c, a) => CellOf(c, a) \in Cells)
<1>1. Has(c, a) \in BOOLEAN
  BY SMT DEF Has
<1>2. ASSUME Has(c, a)
      PROVE  CellOf(c, a) \in Cells
  <2>1. PICK i \in 1..Len(c) : c[i].cell = CellOf(c, a)
    BY <1>2, CellFound
  <2>2. c[i] \in Entry
    BY SMT DEF Cache
  <2> QED BY SMT, <2>1, <2>2 DEF Entry
<1> QED
  BY <1>1, <1>2

\* Caches with the same entries are the same map.
LEMMA SameEntries ==
    ASSUME NEW c, NEW d, Cache(c), Cache(d),
           \A i \in 1..Len(c) : \E j \in 1..Len(d) : d[j] = c[i],
           \A j \in 1..Len(d) : \E i \in 1..Len(c) : d[j] = c[i]
    PROVE  SameMap(c, d)
<1> SUFFICES ASSUME NEW a \in Args
             PROVE  Has(d, a) = Has(c, a) /\ (Has(c, a) => CellOf(d, a) = CellOf(c, a))
  BY DEF SameMap
<1>1. ASSUME Has(c, a)
      PROVE  Has(d, a) /\ CellOf(d, a) = CellOf(c, a)
  <2>1. PICK i \in 1..Len(c) : c[i].arg = a /\ c[i].cell = CellOf(c, a)
    BY <1>1, CellFound
  <2>2. PICK j \in 1..Len(d) : d[j] = c[i]
    OBVIOUS
  <2>3. d[j].arg = a /\ d[j].cell = CellOf(c, a)
    BY <2>1, <2>2
  <2> QED BY <2>3, CellAt
<1>2. ASSUME Has(d, a)
      PROVE  Has(c, a)
  <2>1. PICK j \in 1..Len(d) : d[j].arg = a
    BY <1>2, CellFound
  <2>2. PICK i \in 1..Len(c) : d[j] = c[i]
    OBVIOUS
  <2> QED BY <2>1, <2>2, CellAt
<1>3. Has(c, a) \in BOOLEAN /\ Has(d, a) \in BOOLEAN
  BY CellType
<1> QED
  BY <1>1, <1>2, <1>3

\* What precedes and what follows the entry at place i.
LEMMA WithoutFact ==
    ASSUME NEW c \in Seq(Entry), NEW i \in 1..Len(c)
    PROVE  /\ SubSeq(c, 1, i - 1) \in Seq(Entry) /\ Len(SubSeq(c, 1, i - 1)) = i - 1
           /\ \A k \in 1..(i - 1) : SubSeq(c, 1, i - 1)[k] = c[k]
           /\ SubSeq(c, i + 1, Len(c)) \in Seq(Entry)
           /\ Len(SubSeq(c, i + 1, Len(c))) = Len(c) - i
           /\ \A k \in 1..(Len(c) - i) : SubSeq(c, i + 1, Len(c))[k] = c[i + k]
BY SMT

\* LRU.Get moves an entry to the front and changes no entry.
LEMMA GetFact ==
    ASSUME NEW c, Cache(c), NEW a \in Args
    PROVE  Cache(Get(c, a)) /\ SameMap(c, Get(c, a))
<1>1. CASE ~Has(c, a)
  <2>1. Get(c, a) = c
    BY <1>1 DEF Get
  <2> QED BY <2>1 DEF SameMap
<1>2. CASE Has(c, a)
  <2>1. PICK i \in 1..Len(c) : c[i].arg = a /\ Find(c, a) = i
    BY <1>2, CellFound
  <2>2. c \in Seq(Entry) /\ c[i] \in Entry
    BY SMT, <2>1 DEF Cache
  <2> DEFINE u == SubSeq(c, 1, i - 1)
             v == SubSeq(c, i + 1, Len(c))
             w == <<c[i]>> \o u
             g == w \o v
             place(k) == IF k = 1 THEN i ELSE IF k <= i THEN k - 1 ELSE k
  <2>3. Get(c, a) = g
    BY <1>2, <2>1 DEF Get
  <2>4. /\ u \in Seq(Entry) /\ Len(u) = i - 1 /\ \A k \in 1..(i - 1) : u[k] = c[k]
        /\ v \in Seq(Entry) /\ Len(v) = Len(c) - i /\ \A k \in 1..(Len(c) - i) : v[k] = c[i + k]
    BY <2>2, WithoutFact
  <2> HIDE DEF u, v
  <2>w. w \in Seq(Entry) /\ Len(w) = i /\ w[1] = c[i] /\ \A k \in 2..i : w[k] = u[k - 1]
    BY SMT, <2>2, <2>4
  <2> HIDE DEF w
  <2>5. g \in Seq(Entry) /\ Len(g) = Len(c) /\ g[1] = c[i]
        /\ \A k \in 2..Len(c) : g[k] = IF k <= i THEN w[k] ELSE v[k - i]
    <3>0. v \in Seq(Entry) /\ Len(v) = Len(c) - i /\ w \in Seq(Entry) /\ Len(w) = i
      BY <2>4, <2>w
    <3>1. g \in Seq(Entry) /\ Len(g) = Len(c)
      BY SMT, <2>2, <3>0
    <3>2. ASSUME NEW k \in 1..i
          PROVE  g[k] = w[k]
      BY SMT, <2>2, <2>4, <2>w
    <3>3. ASSUME NEW k \in (i + 1)..Len(c)
          PROVE  g[k] = v[k - i]
      BY SMT, <2>2, <2>4, <2>w
    <3>4. 1 \in 1..i /\ \A k \in 2..Len(c) : IF k <= i THEN k \in 1..i ELSE k \in (i + 1)..Len(c)
      BY SMT, <2>2
    <3> HIDE DEF g
    <3> QED BY <2>w, <3>1, <3>2, <3>3, <3>4
  <2> HIDE DEF g
  <2>6. ASSUME NEW k \in 1..Len(c)
        PROVE  place(k) \in 1..Len(c) /\ g[k] = c[place(k)]
    <3>1. CASE k = 1
      BY SMT, <3>1, <2>5
    <3>2. CASE k # 1 /\ k <= i
      <4>1. k \in 2..Len(c) /\ k \in 2..i /\ k - 1 \in 1..(i - 1)
        BY SMT, <2>2, <3>2
      <4>2. g[k] = w[k] /\ w[k] = u[k - 1] /\ u[k - 1] = c[k - 1]
        BY SMT, <4>1, <3>2, <2>4, <2>w, <2>5
      <4> QED BY SMT, <4>1, <4>2, <3>2
    <3>3. CASE k # 1 /\ ~(k <= i)
      <4>1. k \in 2..Len(c) /\ k - i \in 1..(Len(c) - i) /\ i + (k - i) = k
        BY SMT, <2>2, <3>3
      <4> QED BY SMT, <4>1, <3>3, <2>4, <2>5
    <3> QED BY SMT, <3>1, <3>2, <3>3
  <2>7. ASSUME NEW k \in 1..Len(c), NEW l \in 1..Len(c), place(k) = place(l)
        PROVE  k = l
    BY SMT, <2>7
  <2>8. ASSUME NEW j \in 1..Len(c)
        PROVE  \E k \in 1..Len(c) : place(k) = j
    <3>1. CASE j = i
      BY SMT, <3>1, <2>2
    <3>2. CASE j < i
      <4>1. j + 1 \in 1..Len(c) /\ place(j + 1) = j
        BY SMT, <3>2, <2>2
      <4> QED BY <4>1
    <3>3. CASE j > i
      <4>1. place(j) = j
        BY SMT, <3>3
      <4> QED BY <4>1
    <3> QED BY SMT, <3>1, <3>2, <3>3
  <2> HIDE DEF place
  <2>9. Cache(g)
    <3>1. ASSUME NEW k \in 1..Len(c), NEW l \in 1..Len(c), g[k].arg = g[l].arg
          PROVE  k = l
      <4>1. place(k) \in 1..Len(c) /\ place(l) \in 1..Len(c)
            /\ c[place(k)].arg = c[place(l)].arg
        BY <2>6, <3>1
      <4>2. place(k) = place(l)
        BY <4>1 DEF Cache
      <4> QED BY <4>2, <2>7
    <3> QED BY <2>5, <3>1 DEF Cache
  <2>10. SameMap(c, g)
    <3>1. \A j \in 1..Len(c) : \E k \in 1..Len(g) : g[k] = c[j]
      <4> SUFFICES ASSUME NEW j \in 1..Len(c)
                   PROVE  \E k \in 1..Len(c) : g[k] = c[j]
        BY <2>5
      <4>1. PICK k \in 1..Len(c) : place(k) = j
        BY <2>8
      <4> QED BY <4>1, <2>6
    <3>2. \A k \in 1..Len(g) : \E j \in 1..Len(c) : g[k] = c[j]
      BY <2>5, <2>6
    <3> QED BY <2>9, <3>1, <3>2, SameEntries
  <2> QED BY <2>3, <2>9, <2>10
<1> QED
  BY <1>1, <1>2

\* LRU.AddIfAbsent of a value that is present.
LEMMA AddPresent ==
    ASSUME NEW c, Cache(c), NEW a \in Args, NEW x, Has(c, a)
    PROVE  Cache(AddIfAbsent(c, a, x)) /\ SameMap(c, AddIfAbsent(c, a, x))
<1>1. AddIfAbsent(c, a, x) = Get(c, a)
  BY DEF AddIfAbsent
<1> QED
  BY <1>1, GetFact

\* LRU.AddIfAbsent of a value that is absent: the value is mapped to the new cell,
\* and what stays of the others is as before.
LEMMA AddAbsent ==
    ASSUME NEW c, Cache(c), NEW a \in Args, NEW x \in Cells, ~Has(c, a), rule \in Rules
    PROVE  /\ Cache(AddIfAbsent(c, a, x))
           /\ Has(AddIfAbsent(c, a, x), a) /\ CellOf(AddIfAbsent(c, a, x), a) = x
           /\ \A b \in Args \ {a} : Has(AddIfAbsent(c, a, x), b) =>
                Has(c, b) /\ CellOf(AddIfAbsent(c, a, x), b) = CellOf(c, b)
<1> DEFINE e == [arg |-> a, cell |-> x]
           u == <<e>> \o c
           d == AddIfAbsent(c, a, x)
<1>1. c \in Seq(Entry) /\ e \in Entry /\ e.arg = a /\ e.cell = x /\ Len(c) \in Nat
  BY SMT DEF Cache, Entry
<1>2. rule.capacity \in Nat \ {0}
  BY SMT, HotspotAssumption DEF Rule
<1>3. d = IF Len(u) > rule.capacity THEN SubSeq(u, 1, Len(u) - 1) ELSE u
  BY DEF AddIfAbsent, Evict
<1> HIDE DEF e
<1>4. u \in Seq(Entry) /\ Len(u) = Len(c) + 1 /\ u[1] = e
      /\ \A k \in 2..(Len(c) + 1) : u[k] = c[k - 1]
  BY SMT, <1>1
<1> HIDE DEF u, d
<1>5. /\ d \in Seq(Entry) /\ Len(d) \in 1..(Len(c) + 1)
      /\ \A k \in 1..Len(d) : d[k] = u[k]
  <2>1. CASE Len(u) > rule.capacity
    <3>1. Len(u) >= 2 /\ Len(u) \in Nat
      BY SMT, <2>1, <1>1, <1>2, <1>4
    <3>2. d = SubSeq(u, 1, Len(u) - 1)
      BY <2>1, <1>3
    <3>3. d \in Seq(Entry) /\ Len(d) = Len(u) - 1 /\ \A k \in 1..(Len(u) - 1) : d[k] = u[k]
      BY SMT, <3>1, <3>2, <1>4
    <3> QED BY SMT, <3>1, <3>3, <1>1, <1>4
  <2>2. CASE ~(Len(u) > rule.capacity)
    BY SMT, <2>2, <1>1, <1>3, <1>4
  <2> QED BY <2>1, <2>2
<1>6. ASSUME NEW k \in 1..Len(d), k # 1
      PROVE  k - 1 \in 1..Len(c) /\ d[k] = c[k - 1]
  BY SMT, <1>1, <1>4, <1>5, <1>6
<1>7. 1 \in 1..Len(d) /\ d[1] = e
  BY SMT, <1>4, <1>5
<1>8. ASSUME NEW k \in 1..Len(c)
      PROVE  c[k].arg # a
  BY <1>8, CellAt
<1>9. Cache(d)
  <2> SUFFICES ASSUME NEW k \in 1..Len(d), NEW l \in 1..Len(d), d[k].arg = d[l].arg
               PROVE  k = l
    BY <1>5 DEF Cache
  <2>1. CASE k = 1 \/ l = 1
    BY <2>1, <1>1, <1>6, <1>7, <1>8
  <2>2. CASE k # 1 /\ l # 1
    <3>1. k - 1 \in 1..Len(c) /\ l - 1 \in 1..Len(c) /\ c[k - 1].arg = c[l - 1].arg
      BY <2>2, <1>6
    <3>2. k - 1 = l - 1
      BY <3>1 DEF Cache
    <3> QED BY SMT, <3>2
  <2> QED BY <2>1, <2>2
<1>10. Has(d, a) /\ CellOf(d, a) = x
  BY <1>1, <1>7, <1>9, CellAt
<1>11. ASSUME NEW b \in Args, b # a, Has(d, b)
       PROVE  Has(c, b) /\ CellOf(d, b) = CellOf(c, b)
  <2>1. PICK k \in 1..Len(d) : d[k].arg = b /\ d[k].cell = CellOf(d, b)
    BY <1>9, <1>11, CellFound
  <2>2. k # 1
    BY <2>1, <1>1, <1>7, <1>11
  <2>3. k - 1 \in 1..Len(c) /\ c[k - 1].arg = b /\ c[k - 1].cell = CellOf(d, b)
    BY <2>1, <2>2, <1>6
  <2> QED BY <2>3, CellAt
<1> QED
  BY <1>9, <1>10, <1>11 DEF d

ConcPcs == {"count", "load", "admitted", "inc", "inside", "uncounted", "dec", "done"}
RejectPcs == {"reject", "fill", "age", "refill", "rest", "swap", "stamp", "take", "left", "spend"}
ThrottlePcs == {"throttle", "last", "claim", "await", "store"}
Pcs == ConcPcs \cup RejectPcs \cup ThrottlePcs \cup {"idle", "passed", "blocked"}
Request ==
    [pc : Pcs, arg : Args, batch : Nat, now : Nat, timePtr : Cells \cup {0}, ptr : Cells \cup {0},
     seen : Int, next : Int, first : BOOLEAN]
TypeOK ==
    /\ rule \in Rules
    /\ clock \in Nat
    /\ Cache(times) /\ Cache(tokens) /\ Cache(conc)
    /\ heap \in [Cells -> Int]
    /\ req \in [Req -> Request]
    /\ refill \in [Args -> [at : Nat, before : Nat, passed : Nat]]
    /\ slots \in [Args -> SUBSET [at : Int, cost : Int, by : Req]]

\* Where a request holds a pointer to a counter, and to a time.
HoldsCount == {"load", "inc", "dec", "rest", "swap", "left", "spend"}
HoldsTime == {"age", "refill", "rest", "swap", "stamp", "last", "claim", "await", "store"}

\* A request is where its rule sends it and holds the pointers it needs there;
\* the caches and the bookkeeping of the other behaviours are untouched.
Fits(q) ==
    /\ q.ptr # 0 <=> q.pc \in HoldsCount
    /\ q.timePtr # 0 <=> q.pc \in HoldsTime
    /\ q.pc \in ConcPcs => rule.behavior = "Concurrency"
    /\ q.pc \in RejectPcs => rule.behavior = "Reject"
    /\ q.pc \in ThrottlePcs => rule.behavior = "Throttling"
    /\ q.pc \in RejectPcs \cup ThrottlePcs => Limit(q.arg) > 0
Unused ==
    /\ rule.behavior = "Concurrency" => times = <<>> /\ tokens = <<>>
    /\ rule.behavior # "Concurrency" => conc = <<>>
    /\ rule.behavior # "Reject" =>
         \A a \in Args : refill[a].at = 0 /\ refill[a].before = 0 /\ refill[a].passed = 0
    /\ rule.behavior # "Throttling" => \A a \in Args : slots[a] = {}
Placed == (\A r \in Req : Fits(req[r])) /\ Unused

\* Cell c is a time, or a count, of value a.
TimeRef(a, c) ==
    \/ Has(times, a) /\ CellOf(times, a) = c
    \/ \E r \in Req : req[r].arg = a /\ req[r].timePtr = c
CountRef(a, c) ==
    \/ Has(tokens, a) /\ CellOf(tokens, a) = c
    \/ Has(conc, a) /\ CellOf(conc, a) = c
    \/ \E r \in Req : req[r].arg = a /\ req[r].ptr = c

\* All pointers to a cell are of one value and one cache.
NoAlias ==
    \A a, b \in Args : \A c \in Cells :
        /\ TimeRef(a, c) /\ TimeRef(b, c) => a = b
        /\ CountRef(a, c) /\ CountRef(b, c) => a = b
        /\ ~(TimeRef(a, c) /\ CountRef(b, c))

\* The state of the caches and the requests, the goroutines that run at once, and the
\* cell that a new variable takes.
Shape == TypeOK /\ Placed /\ NoAlias
BusyBounded == Cardinality(Busy) <= Parallel
Base == Shape /\ BusyBounded /\ Fresh \in Cells /\ Fresh \notin Held
CacheCells(c) == {CellOf(c, a) : a \in {b \in Args : Has(c, b)}}

\* The cells of a cache are those of its entries.
LEMMA CacheCellsHeld ==
    ASSUME NEW c, Cache(c)
    PROVE  /\ \A e \in Range(c) : e.cell \in CacheCells(c)
           /\ \A a \in Args : Has(c, a) => CellOf(c, a) \in {e.cell : e \in Range(c)}
<1>6. DOMAIN c = 1..Len(c) /\ \A i \in 1..Len(c) : c[i].arg \in Args
  <2>1. c \in Seq(Entry)
    BY DEF Cache
  <2>2. ASSUME NEW i \in 1..Len(c)
        PROVE  c[i].arg \in Args
    <3>1. c[i] \in Entry
      BY SMT, <2>1
    <3> QED BY SMT, <3>1 DEF Entry
  <2>3. DOMAIN c = 1..Len(c)
    BY SMT, <2>1
  <2> QED BY <2>2, <2>3
<1>7. ASSUME NEW e \in Range(c)
      PROVE  e.cell \in CacheCells(c)
  <2>1. PICK i \in 1..Len(c) : e = c[i]
    BY <1>6 DEF Range
  <2>2. Has(c, e.arg) /\ CellOf(c, e.arg) = e.cell /\ e.arg \in Args
    BY <2>1, <1>6, CellAt
  <2> QED BY <2>2 DEF CacheCells
<1>8. ASSUME NEW a \in Args, Has(c, a)
      PROVE  CellOf(c, a) \in {e.cell : e \in Range(c)}
  <2>1. PICK i \in 1..Len(c) : c[i].cell = CellOf(c, a)
    BY <1>8, CellFound
  <2>2. c[i] \in Range(c)
    BY <1>6 DEF Range
  <2> QED BY <2>1, <2>2
<1> QED
  BY <1>7, <1>8

\* Whatever points to a cell holds it.
LEMMA RefsAreHeld ==
    ASSUME TypeOK, NEW a \in Args, NEW c, TimeRef(a, c) \/ CountRef(a, c)
    PROVE  c \in Held
<1> DEFINE E == Range(times) \cup Range(tokens) \cup Range(conc)
           P == UNION {{req[r].timePtr, req[r].ptr} : r \in Req}
<1>1. Held = {e.cell : e \in E} \cup P
  BY DEF Held
<1>2. ASSUME NEW r \in Req, c = req[r].timePtr \/ c = req[r].ptr
      PROVE  c \in P
  BY SMT, <1>2
<1>3. ASSUME NEW m, Cache(m), Range(m) \subseteq E, Has(m, a), CellOf(m, a) = c
      PROVE  c \in {e.cell : e \in E}
  <2>1. PICK e \in Range(m) : e.cell = c
    BY <1>3, CacheCellsHeld
  <2> QED BY <2>1, <1>3
<1>4. Cache(times) /\ Cache(tokens) /\ Cache(conc)
  BY DEF TypeOK
<1>5. Range(times) \subseteq E /\ Range(tokens) \subseteq E /\ Range(conc) \subseteq E
  OBVIOUS
<1> HIDE DEF E, P
<1> QED
  BY <1>1, <1>2, <1>3, <1>4, <1>5 DEF TimeRef, CountRef

\* d maps every value as c does, but for k, which may be new.
CacheStep(c, d, k, new) ==
    /\ Cache(d)
    /\ \A a \in Args : Has(d, a) =>
         \/ Has(c, a) /\ CellOf(d, a) = CellOf(c, a)
         \/ new /\ a = k /\ CellOf(d, a) = Fresh

\* A cache that stays, is read, or is added to.
LEMMA CacheSteps ==
    ASSUME Base, NEW c, Cache(c), NEW k \in Args, NEW new \in BOOLEAN
    PROVE  /\ CacheStep(c, c, k, new)
           /\ CacheStep(c, Get(c, k), k, new)
           /\ CacheStep(c, AddIfAbsent(c, k, Fresh), k, TRUE)
<1>1. CacheStep(c, c, k, new)
  BY DEF CacheStep
<1>2. ASSUME NEW d, Cache(d), SameMap(c, d), NEW b \in BOOLEAN
      PROVE  CacheStep(c, d, k, b)
  BY <1>2 DEF CacheStep, SameMap
<1>3. CacheStep(c, Get(c, k), k, new)
  BY <1>2, GetFact
<1>4. CASE Has(c, k)
  BY <1>1, <1>2, <1>3, <1>4, AddPresent
<1>5. CASE ~Has(c, k)
  <2>1. rule \in Rules /\ Fresh \in Cells
    BY DEF Base, Shape, TypeOK
  <2> DEFINE d == AddIfAbsent(c, k, Fresh)
  <2>2. /\ Cache(d) /\ CellOf(d, k) = Fresh
        /\ \A b \in Args \ {k} : Has(d, b) => Has(c, b) /\ CellOf(d, b) = CellOf(c, b)
    BY ZenonT(40), <2>1, <1>5, AddAbsent
  <2> HIDE DEF d
  <2>3. CacheStep(c, d, k, TRUE)
    BY <2>2 DEF CacheStep
  <2> QED BY <1>1, <1>3, <2>3 DEF d
<1> QED
  BY <1>4, <1>5

\* A request at rest holds no pointer.
LEMMA RestFact ==
    ASSUME NEW pc \in Pcs, NEW a \in Args
    PROVE  /\ Rest(pc, a) \in Request
           /\ Rest(pc, a).pc = pc /\ Rest(pc, a).arg = a
           /\ Rest(pc, a).timePtr = 0 /\ Rest(pc, a).ptr = 0 /\ Rest(pc, a).first = FALSE
<1> DEFINE any == CHOOSE b \in Args : TRUE
<1>1. Rest(pc, a) = [[pc |-> "idle", arg |-> any, batch |-> 0, now |-> 0, timePtr |-> 0,
                      ptr |-> 0, seen |-> 0, next |-> 0, first |-> FALSE]
                       EXCEPT !.pc = pc, !.arg = a]
  BY DEF Rest, Idle
<1> HIDE DEF any
<1>2. Rest(pc, a) = [pc |-> pc, arg |-> a, batch |-> 0, now |-> 0, timePtr |-> 0,
                     ptr |-> 0, seen |-> 0, next |-> 0, first |-> FALSE]
  BY <1>1
<1> QED
  BY SMT, <1>2 DEF Request

\* What is known of a request.
LEMMA ReqFact ==
    ASSUME Base, NEW r \in Req
    PROVE  /\ req[r] \in Request /\ req[r].pc \in Pcs /\ req[r].arg \in Args
           /\ req[r].batch \in Nat /\ req[r].now \in Nat
           /\ req[r].timePtr \in Cells \cup {0} /\ req[r].ptr \in Cells \cup {0}
           /\ req[r].seen \in Int /\ req[r].next \in Int /\ req[r].first \in BOOLEAN
           /\ Fits(req[r])
<1>1. req[r] \in Request /\ Fits(req[r])
  BY DEF Base, Shape, TypeOK, Placed
<1> QED
  BY SMT, <1>1 DEF Request

\* The cells of the pointers that are held.
LEMMA PointerFact ==
    ASSUME Base, NEW r \in Req
    PROVE  /\ req[r].pc \in HoldsCount => req[r].ptr \in Cells
           /\ req[r].pc \in HoldsTime => req[r].timePtr \in Cells
BY ReqFact DEF Fits

\* The rule.
LEMMA RuleFact ==
    ASSUME Base
    PROVE  /\ rule.behavior \in {"Concurrency", "Reject", "Throttling"}
           /\ rule.duration \in Nat \ {0} /\ rule.burst \in Nat /\ rule.maxQueue \in Nat
           /\ \A a \in Args : Limit(a) \in Int /\ MaxCount(a) \in Int
<1>1. rule \in Rule
  BY HotspotAssumption DEF Base, Shape, TypeOK
<1> QED
  BY SMT, <1>1 DEF Rule, Limit, MaxCount

\* Where Slot.Check sends a request.
LEMMA CheckShape ==
    ASSUME Base, NEW r \in Req, Check(r)
    PROVE  \E a \in Args, b \in Batches, n \in Request :
             /\ req' = [req EXCEPT ![r] = n]
             /\ n.arg = a /\ n.timePtr = 0 /\ n.ptr = 0 /\ n.first = FALSE
             /\ \/ n.pc = "count" /\ rule.behavior = "Concurrency"
                \/ n.pc = "blocked"
                \/ /\ n.pc = "reject" /\ rule.behavior = "Reject" /\ n.batch = b
                   /\ Limit(a) > 0 /\ b <= MaxCount(a)
                \/ /\ n.pc = "throttle" /\ rule.behavior = "Throttling" /\ n.batch = b
                   /\ Limit(a) > 0
<1> DEFINE S(a, b) ==
             CASE rule.behavior = "Concurrency" -> Rest("count", a)
               [] rule.behavior # "Concurrency" /\ Limit(a) <= 0 -> Rest("blocked", a)
               [] rule.behavior = "Reject" /\ Limit(a) > 0 ->
                    IF b > MaxCount(a) THEN Rest("blocked", a)
                    ELSE [Rest("reject", a) EXCEPT !.batch = b]
               [] rule.behavior = "Throttling" /\ Limit(a) > 0 ->
                    [Rest("throttle", a) EXCEPT !.batch = b]
<1>1. PICK a \in Args, b \in Batches : req' = [req EXCEPT ![r] = S(a, b)]
  BY DEF Check, Set
<1>2. b \in Nat /\ Limit(a) \in Int /\ MaxCount(a) \in Int
  BY SMT, HotspotAssumption, RuleFact
<1>3. \A pc \in {"count", "blocked", "reject", "throttle"} :
        /\ Rest(pc, a) \in Request
        /\ Rest(pc, a).pc = pc /\ Rest(pc, a).arg = a
        /\ Rest(pc, a).timePtr = 0 /\ Rest(pc, a).ptr = 0 /\ Rest(pc, a).first = FALSE
  BY RestFact DEF Pcs, ConcPcs, RejectPcs, ThrottlePcs
<1>4. ASSUME NEW pc \in {"reject", "throttle"}, NEW q, q = Rest(pc, a)
      PROVE  /\ [q EXCEPT !.batch = b] \in Request
             /\ [q EXCEPT !.batch = b].pc = pc /\ [q EXCEPT !.batch = b].arg = a
             /\ [q EXCEPT !.batch = b].timePtr = 0 /\ [q EXCEPT !.batch = b].ptr = 0
             /\ [q EXCEPT !.batch = b].first = FALSE /\ [q EXCEPT !.batch = b].batch = b
  <2>1. q \in Request /\ q.pc = pc /\ q.arg = a /\ q.timePtr = 0 /\ q.ptr = 0 /\ q.first = FALSE
    BY <1>3, <1>4
  <2> QED BY SMT, <2>1, <1>2 DEF Request
<1>5. CASE rule.behavior = "Concurrency"
  <2>1. S(a, b) = Rest("count", a)
    BY SMT, <1>5
  <2> QED BY <1>1, <1>3, <1>5, <2>1
<1>6. CASE rule.behavior # "Concurrency"
               /\ (Limit(a) <= 0 \/ (rule.behavior = "Reject" /\ b > MaxCount(a)))
  <2>1. S(a, b) = Rest("blocked", a)
    BY SMT, <1>2, <1>6
  <2> QED BY <1>1, <1>3, <2>1
<1>7. CASE rule.behavior = "Reject" /\ Limit(a) > 0 /\ b <= MaxCount(a)
  <2>1. S(a, b) = [Rest("reject", a) EXCEPT !.batch = b]
    BY SMT, <1>2, <1>7
  <2> QED BY <1>1, <1>4, <1>7, <2>1
<1>8. CASE rule.behavior = "Throttling" /\ Limit(a) > 0
  <2>1. S(a, b) = [Rest("throttle", a) EXCEPT !.batch = b]
    BY SMT, <1>2, <1>8
  <2> QED BY <1>1, <1>4, <1>8, <2>1
<1> QED
  <2>1. \/ rule.behavior = "Concurrency"
        \/ rule.behavior # "Concurrency"
               /\ (Limit(a) <= 0 \/ (rule.behavior = "Reject" /\ b > MaxCount(a)))
        \/ rule.behavior = "Reject" /\ Limit(a) > 0 /\ b <= MaxCount(a)
        \/ rule.behavior = "Throttling" /\ Limit(a) > 0
    <3>1. rule.behavior \in {"Concurrency", "Reject", "Throttling"}
      BY RuleFact
    <3>2. (Limit(a) <= 0 \/ Limit(a) > 0) /\ (b > MaxCount(a) \/ b <= MaxCount(a))
      BY SMT, <1>2
    <3> QED BY <3>1, <3>2
  <2> QED BY <2>1, <1>5, <1>6, <1>7, <1>8

\* A request that stops, or starts its loop over, drops its pointers.
LEMMA EndFits ==
    ASSUME NEW pc \in Pcs, NEW a \in Args, pc \notin HoldsCount, pc \notin HoldsTime,
           pc \in ConcPcs => rule.behavior = "Concurrency",
           pc \in RejectPcs => rule.behavior = "Reject",
           pc \in ThrottlePcs => rule.behavior = "Throttling",
           pc \in RejectPcs \cup ThrottlePcs => Limit(a) > 0
    PROVE  Rest(pc, a) \in Request /\ Fits(Rest(pc, a))
           /\ Rest(pc, a).pc = pc /\ Rest(pc, a).arg = a
           /\ Rest(pc, a).timePtr = 0 /\ Rest(pc, a).ptr = 0
BY ZenonT(40), RestFact DEF Fits

\* A request that passes or is blocked.
LEMMA StopFact ==
    ASSUME Base, NEW r \in Req, NEW pc \in {"passed", "blocked"}
    PROVE  LET n == Rest(pc, req[r].arg)
           IN  /\ n \in Request /\ Fits(n) /\ n.pc = pc /\ n.pc \in Resting /\ n.arg = req[r].arg
               /\ n.timePtr = 0 /\ n.ptr = 0
<1>1. req[r].arg \in Args
  BY ReqFact
<1>2. pc \in Pcs /\ pc \notin HoldsCount /\ pc \notin HoldsTime /\ pc \in Resting
      /\ pc \notin ConcPcs /\ pc \notin RejectPcs /\ pc \notin ThrottlePcs
  BY SMT DEF Pcs, HoldsCount, HoldsTime, ConcPcs, RejectPcs, ThrottlePcs, Resting
<1> QED
  BY ZenonT(40), <1>1, <1>2, EndFits

\* A request that starts its loop over.
LEMMA AgainFact ==
    ASSUME Base, NEW r \in Req, NEW pc \in {"reject", "throttle"},
           pc = "reject" => req[r].pc \in RejectPcs,
           pc = "throttle" => req[r].pc \in ThrottlePcs
    PROVE  LET n == [Rest(pc, req[r].arg) EXCEPT !.batch = req[r].batch]
           IN  /\ n \in Request /\ Fits(n) /\ n.pc = pc /\ n.arg = req[r].arg
               /\ n.batch = req[r].batch /\ n.timePtr = 0 /\ n.ptr = 0 /\ n.first = FALSE
<1> DEFINE m == Rest(pc, req[r].arg)
           n == [m EXCEPT !.batch = req[r].batch]
<1>1. req[r].arg \in Args /\ req[r].batch \in Nat /\ Fits(req[r])
  BY ReqFact
<1>2. pc \in Pcs
  BY SMT DEF Pcs, RejectPcs, ThrottlePcs
<1>3. m \in Request /\ m.pc = pc /\ m.arg = req[r].arg /\ m.timePtr = 0 /\ m.ptr = 0
      /\ m.first = FALSE
  <2>1. /\ Rest(pc, req[r].arg) \in Request
        /\ Rest(pc, req[r].arg).pc = pc /\ Rest(pc, req[r].arg).arg = req[r].arg
        /\ Rest(pc, req[r].arg).timePtr = 0 /\ Rest(pc, req[r].arg).ptr = 0
        /\ Rest(pc, req[r].arg).first = FALSE
    BY <1>1, <1>2, RestFact
  <2> QED BY SMT, <2>1
<1> HIDE DEF m
<1>4. n \in Request /\ n.pc = pc /\ n.arg = req[r].arg /\ n.timePtr = 0 /\ n.ptr = 0
      /\ n.first = FALSE /\ n.batch = req[r].batch
  BY SMT, <1>1, <1>3 DEF Request
<1> HIDE DEF n
<1>5. /\ pc \notin HoldsCount /\ pc \notin HoldsTime /\ pc \notin ConcPcs
      /\ pc \in RejectPcs => pc = "reject"
      /\ pc \in ThrottlePcs => pc = "throttle"
  BY SMT DEF HoldsCount, HoldsTime, ConcPcs, RejectPcs, ThrottlePcs
<1>6. Fits(n)
  BY <1>1, <1>4, <1>5 DEF Fits
<1> QED
  BY <1>4, <1>6 DEF n, m

\* What a refill leaves is a number, and at most MaxCount with what it takes.
LEMMA NewQpsType ==
    ASSUME Base, NEW r \in Req, NEW q \in Int
    PROVE  NewQps(r, q) \in Int /\ NewQps(r, q) + req[r].batch <= MaxCount(req[r].arg)
<1> DEFINE add == (req[r].next * Limit(req[r].arg)) \div rule.duration
           top == MaxCount(req[r].arg)
<1>1. req[r].next \in Int /\ req[r].arg \in Args /\ req[r].batch \in Int
  BY SMT, ReqFact
<1>2. Limit(req[r].arg) \in Int /\ top \in Int /\ rule.duration \in Nat \ {0}
  BY SMT, <1>1, RuleFact
<1>3. add \in Int
  BY SMT, <1>1, <1>2
<1> HIDE DEF add, top
<1>4. NewQps(r, q) = IF add + q > top THEN top - req[r].batch ELSE add + q - req[r].batch
  BY DEF NewQps, add, top
<1>5. NewQps(r, q) \in Int /\ NewQps(r, q) + req[r].batch <= top
  BY SMT, <1>1, <1>2, <1>3, <1>4
<1> QED
  BY <1>5 DEF top

\* The cost of a throttled request is a number of ticks.
LEMMA CostFact ==
    ASSUME Base, NEW r \in Req, req[r].pc \in ThrottlePcs
    PROVE  IntervalCost(r) \in Nat
<1> DEFINE p == req[r].batch * rule.duration
           l == Limit(req[r].arg)
<1>1. req[r].batch \in Nat /\ rule.duration \in Nat
  BY SMT, ReqFact, RuleFact
<1>2. l \in Int /\ l > 0
  BY ReqFact, RuleFact DEF Fits
<1>3. p \in Nat
  BY SMT, <1>1
<1>4. IntervalCost(r) = p \div l
  BY DEF IntervalCost
<1> HIDE DEF p, l
<1> QED
  BY SMT, <1>2, <1>3, <1>4

\* What a throttled request reads and expects are numbers.
LEMMA TimeFact ==
    ASSUME Base, NEW r \in Req, req[r].pc \in ThrottlePcs \cap HoldsTime
    PROVE  /\ heap[req[r].timePtr] \in Int /\ Current(r) \in Int
           /\ \A t, c \in Int : ExpectedTime(r, t, c) \in Int
<1>1. heap[req[r].timePtr] \in Int
  <2>1. heap \in [Cells -> Int] /\ req[r].timePtr \in Cells
    BY PointerFact DEF Base, Shape, TypeOK
  <2> QED BY SMT, <2>1
<1>2. Current(r) \in Int
  <2>1. req[r].now \in Int
    BY SMT, ReqFact
  <2> QED BY <1>1, <2>1 DEF Current
<1>3. ASSUME NEW t \in Int, NEW c \in Int
      PROVE  ExpectedTime(r, t, c) \in Int
  <2>1. IntervalCost(r) \in Int /\ rule.duration \in Int
    <3>1. IntervalCost(r) \in Nat
      BY CostFact
    <3>2. rule.duration \in Nat
      BY SMT, RuleFact
    <3> QED BY SMT, <3>1, <3>2
  <2>2. c - rule.duration + IntervalCost(r) \in Int /\ t + IntervalCost(r) \in Int
    BY SMT, <2>1
  <2> QED BY <2>2 DEF ExpectedTime
<1> QED
  BY <1>1, <1>2, <1>3

\* The cell of a value is not the fresh one, nor one of another cache or value.
LEMMA CellApart ==
    ASSUME Base, NEW a \in Args, NEW r \in Req
    PROVE  /\ Has(times, a) =>
                /\ CellOf(times, a) # Fresh /\ CellOf(times, a) # req[r].ptr
                /\ a # req[r].arg => CellOf(times, a) # req[r].timePtr
           /\ Has(tokens, a) =>
                /\ CellOf(tokens, a) # Fresh /\ CellOf(tokens, a) # req[r].timePtr
                /\ a # req[r].arg => CellOf(tokens, a) # req[r].ptr
           /\ Has(conc, a) =>
                /\ CellOf(conc, a) # Fresh /\ CellOf(conc, a) # req[r].timePtr
                /\ a # req[r].arg => CellOf(conc, a) # req[r].ptr
<1>1. \A b \in Args : ~TimeRef(b, Fresh) /\ ~CountRef(b, Fresh)
  BY RefsAreHeld DEF Base, Shape
<1>2. req[r].arg \in Args
  BY ReqFact
<1>3. TimeRef(req[r].arg, req[r].timePtr) /\ CountRef(req[r].arg, req[r].ptr)
  BY DEF TimeRef, CountRef
<1>4. Cache(times) /\ Cache(tokens) /\ Cache(conc)
  BY DEF Base, Shape, TypeOK
<1>5. ASSUME Has(times, a)
      PROVE  CellOf(times, a) \in Cells /\ TimeRef(a, CellOf(times, a))
  BY <1>4, <1>5, CellType DEF TimeRef
<1>6. ASSUME Has(tokens, a)
      PROVE  CellOf(tokens, a) \in Cells /\ CountRef(a, CellOf(tokens, a))
  BY <1>4, <1>6, CellType DEF CountRef
<1>7. ASSUME Has(conc, a)
      PROVE  CellOf(conc, a) \in Cells /\ CountRef(a, CellOf(conc, a))
  BY <1>4, <1>7, CellType DEF CountRef
<1>8. ASSUME NEW x \in Cells, TimeRef(a, x)
      PROVE  x # Fresh /\ x # req[r].ptr /\ (a # req[r].arg => x # req[r].timePtr)
  BY <1>1, <1>2, <1>3, <1>8 DEF Base, Shape, NoAlias
<1>9. ASSUME NEW x \in Cells, CountRef(a, x)
      PROVE  x # Fresh /\ x # req[r].timePtr /\ (a # req[r].arg => x # req[r].ptr)
  BY <1>1, <1>2, <1>3, <1>9 DEF Base, Shape, NoAlias
<1> QED
  BY <1>5, <1>6, <1>7, <1>8, <1>9

\* AtAny for the requests m.
Among(m, a, T) == {q \in Req : m[q].arg = a /\ m[q].pc \in T}

\* An entry is evicted only with its value among the lost, where that is noted.
LEMMA LostFact ==
    ASSUME NEW c, Cache(c), NEW d, Cache(d), Loses(c, d), NEW a \in Args, a \notin lost'
    PROVE  /\ a \notin lost
           /\ Has(c, a) /\ ~Has(d, a) =>
                rule.behavior = "Concurrency" /\ Among(req, a, InFlight) = {}
<1>1. a \notin lost
  BY DEF Loses
<1>2. ASSUME Has(c, a), ~Has(d, a)
      PROVE  a \in {e.arg : e \in Range(c)} \ {e.arg : e \in Range(d)}
  <2>1. DOMAIN c = 1..Len(c) /\ DOMAIN d = 1..Len(d)
    BY SMT DEF Cache
  <2>2. PICK i \in 1..Len(c) : c[i].arg = a
    BY <1>2 DEF Has
  <2>3. c[i] \in Range(c)
    BY <2>1 DEF Range
  <2>4. ASSUME NEW e \in Range(d)
        PROVE  e.arg # a
    <3>1. PICK j \in 1..Len(d) : e = d[j]
      BY <2>1 DEF Range
    <3> QED BY <3>1, <1>2 DEF Has
  <2> QED BY <2>2, <2>3, <2>4
<1>3. AtAny(a, InFlight) = Among(req, a, InFlight)
  BY DEF AtAny, Among
<1> QED
  BY <1>1, <1>2, <1>3 DEF Loses

\* A step of request r.
OnlyReq(r) == \A q \in Req : q # r => req'[q] = req[q]

\* A step of request r leaves the others alone.
LEMMA ReqStep ==
    ASSUME Base, NEW r \in Req, NEW n, req' = [req EXCEPT ![r] = n]
    PROVE  OnlyReq(r) /\ req'[r] = n
BY DEF Base, Shape, TypeOK, OnlyReq

\* The requests of a value: the same, one more, or one less.
LEMMA AmongSame ==
    ASSUME NEW r \in Req, OnlyReq(r), NEW a \in Args, NEW T,
           \/ a # req[r].arg /\ req'[r].arg = req[r].arg
           \/ req'[r].pc \notin T /\ req[r].pc \notin T
           \/ req'[r].arg = req[r].arg /\ req'[r].pc \in T /\ req[r].pc \in T
    PROVE  Among(req', a, T) = Among(req, a, T)
<1>1. \A q \in Req : (req'[q].arg = a /\ req'[q].pc \in T) <=> (req[q].arg = a /\ req[q].pc \in T)
  BY DEF OnlyReq
<1> QED
  BY <1>1 DEF Among

\* The steps of the three behaviours.
ConcStep(r) ==
    \/ CountFirst(r) \/ CheckConcurrency(r) \/ OnEntryPassed(r) \/ Increment(r)
    \/ OnCompleted(r) \/ Decrement(r)
RejectStep(r) ==
    \/ RejectLoop(r) \/ FirstFill(r) \/ Age(r) \/ RefillTokens(r) \/ RestQps(r)
    \/ SwapRefill(r) \/ Stamp(r) \/ GetTokens(r) \/ LoadTokens(r) \/ Spend(r)
ThrottleStep(r) ==
    ThrottleLoop(r) \/ LoadLast(r) \/ Claim(r) \/ AwaitTime(r) \/ StoreExpected(r)

\* A step of a behaviour is one of the rule.
LEMMA StepFits ==
    ASSUME Base, NEW r \in Req
    PROVE  /\ ConcStep(r) => rule.behavior = "Concurrency" /\ rule' = rule
           /\ RejectStep(r) => rule.behavior = "Reject" /\ rule' = rule
           /\ ThrottleStep(r) => rule.behavior = "Throttling" /\ rule' = rule
<1>1. Fits(req[r])
  BY ReqFact
<1>2. ASSUME ConcStep(r)
      PROVE  rule.behavior = "Concurrency" /\ rule' = rule
  <2>1. req[r].pc \in ConcPcs /\ rule' = rule
    BY <1>2 DEF ConcStep, CountFirst, CheckConcurrency, OnEntryPassed, Increment, OnCompleted,
       Decrement, Callback, AddInt64, At, ConcPcs
  <2> QED BY <1>1, <2>1 DEF Fits
<1>3. ASSUME RejectStep(r)
      PROVE  rule.behavior = "Reject" /\ rule' = rule
  <2>1. req[r].pc \in RejectPcs /\ rule' = rule
    BY <1>3 DEF RejectStep, RejectLoop, FirstFill, Age, RefillTokens, RestQps, SwapRefill, Stamp,
       GetTokens, LoadTokens, Spend, At, RejectPcs
  <2> QED BY <1>1, <2>1 DEF Fits
<1>4. ASSUME ThrottleStep(r)
      PROVE  rule.behavior = "Throttling" /\ rule' = rule
  <2>1. req[r].pc \in ThrottlePcs /\ rule' = rule
    BY <1>4 DEF ThrottleStep, ThrottleLoop, LoadLast, Claim, AwaitTime, StoreExpected, At,
       ThrottlePcs
  <2> QED BY <1>1, <2>1 DEF Fits
<1> QED
  BY <1>2, <1>3, <1>4

\* What can happen.
LEMMA NextCases ==
    ASSUME [Next]_vars
    PROVE  \/ UNCHANGED <<rule, times, tokens, conc, heap, req, ghosts>>
           \/ \E r \in Req : Check(r) \/ ConcStep(r) \/ RejectStep(r) \/ ThrottleStep(r)
<1>1. CASE UNCHANGED vars
  BY <1>1 DEF vars, ghosts
<1>2. CASE Tick
  BY <1>2 DEF Tick, caches
<1>3. CASE \E r \in Req :
         \/ Check(r)
         \/ CountFirst(r) \/ CheckConcurrency(r) \/ OnEntryPassed(r) \/ Increment(r)
         \/ OnCompleted(r) \/ Decrement(r)
         \/ RejectLoop(r) \/ FirstFill(r) \/ Age(r) \/ RefillTokens(r) \/ RestQps(r)
         \/ SwapRefill(r) \/ Stamp(r) \/ GetTokens(r) \/ LoadTokens(r) \/ Spend(r)
         \/ ThrottleLoop(r) \/ LoadLast(r) \/ Claim(r) \/ AwaitTime(r) \/ StoreExpected(r)
  BY <1>3 DEF ConcStep, RejectStep, ThrottleStep
<1> QED
  BY <1>1, <1>2, <1>3 DEF Next

Time(a) == heap[CellOf(times, a)]

\* The entries of a value stay.
SameEntry(c, d, a) == Has(d, a) = Has(c, a) /\ (Has(c, a) => CellOf(d, a) = CellOf(c, a))
SameCell(c, a) == Has(c, a) => heap'[CellOf(c, a)] = heap[CellOf(c, a)]

\* What LRU.AddIfAbsent leaves of a value of which no entry was lost.
LEMMA AddFrame ==
    ASSUME Base, rule.behavior # "Concurrency", NEW c, Cache(c), NEW d, NEW k \in Args,
           d = AddIfAbsent(c, k, Fresh), Loses(c, d), NEW a \in Args, a \notin lost'
    PROVE  /\ a \notin lost /\ Cache(d)
           /\ a # k \/ Has(c, k) => SameEntry(c, d, a)
           /\ ~Has(c, k) => Has(d, k) /\ CellOf(d, k) = Fresh
<1>1. CacheStep(c, d, k, TRUE)
  BY CacheSteps
<1>2. Cache(d)
  BY <1>1 DEF CacheStep
<1>3. a \notin lost /\ (Has(c, a) => Has(d, a))
  BY <1>2, LostFact
<1>4. Has(c, a) \in BOOLEAN /\ Has(d, a) \in BOOLEAN
  BY <1>2, CellType
<1>5. ASSUME a # k
      PROVE  SameEntry(c, d, a)
  <2>1. Has(d, a) => Has(c, a) /\ CellOf(d, a) = CellOf(c, a)
    BY <1>1, <1>5 DEF CacheStep
  <2> QED BY <1>3, <1>4, <2>1 DEF SameEntry
<1>6. ASSUME Has(c, k)
      PROVE  SameEntry(c, d, a)
  <2>1. SameMap(c, d)
    BY <1>6, AddPresent
  <2> QED BY <2>1 DEF SameMap, SameEntry
<1>7. ASSUME ~Has(c, k)
      PROVE  Has(d, k) /\ CellOf(d, k) = Fresh
  <2>1. rule \in Rules /\ Fresh \in Cells
    BY DEF Base, Shape, TypeOK
  <2> QED BY <1>7, <2>1, AddAbsent
<1> QED
  BY <1>2, <1>3, <1>5, <1>6, <1>7

\* What a write leaves of the cells of a value.
LEMMA WriteFrame ==
    ASSUME Base, NEW r \in Req, NEW p \in {Fresh, req[r].ptr, req[r].timePtr}, NEW v,
           heap' = [heap EXCEPT ![p] = v], NEW a \in Args
    PROVE  /\ p # req[r].timePtr \/ a # req[r].arg \/ p = Fresh => SameCell(times, a)
           /\ p # req[r].ptr \/ a # req[r].arg \/ p = Fresh => SameCell(tokens, a)
<1>1. heap \in [Cells -> Int] /\ Cache(times) /\ Cache(tokens)
  BY DEF Base, Shape, TypeOK
<1>2. ASSUME NEW x \in Cells, x # p
      PROVE  heap'[x] = heap[x]
  BY <1>1, <1>2
<1>3. ASSUME Has(times, a), p # req[r].timePtr \/ a # req[r].arg \/ p = Fresh
      PROVE  heap'[CellOf(times, a)] = heap[CellOf(times, a)]
  <2>1. CellOf(times, a) \in Cells
    BY <1>1, <1>3, CellType
  <2>2. CellOf(times, a) # p
    BY <1>3, CellApart
  <2> QED BY <1>2, <2>1, <2>2
<1>4. ASSUME Has(tokens, a), p # req[r].ptr \/ a # req[r].arg \/ p = Fresh
      PROVE  heap'[CellOf(tokens, a)] = heap[CellOf(tokens, a)]
  <2>1. CellOf(tokens, a) \in Cells
    BY <1>1, <1>4, CellType
  <2>2. CellOf(tokens, a) # p
    BY <1>4, CellApart
  <2> QED BY <1>2, <2>1, <2>2
<1> QED
  BY <1>3, <1>4 DEF SameCell

\* A new variable disturbs no cell and has its value.
LEMMA StoredFrame ==
    ASSUME Base, NEW r \in Req, NEW c, NEW k, NEW v, heap' = Stored(c, k, v), NEW a \in Args
    PROVE  /\ SameCell(times, a) /\ SameCell(tokens, a)
           /\ ~Has(c, k) => heap'[Fresh] = v
<1>1. CASE Has(c, k)
  BY <1>1 DEF Stored, SameCell
<1>2. CASE ~Has(c, k)
  <2>1. heap' = [heap EXCEPT ![Fresh] = v]
    BY <1>2 DEF Stored
  <2>2. heap \in [Cells -> Int] /\ Fresh \in Cells
    BY DEF Base, Shape, TypeOK
  <2> QED BY <2>1, <2>2, WriteFrame
<1> QED
  BY <1>1, <1>2

----------------------------------------------------------------------------
(* Rejecting                                                                 *)

Left(a) == heap[CellOf(tokens, a)]

\* A request asks for what the rule can give, and knows what it may take.
RejectReq(q) ==
    q.pc \in RejectPcs =>
        /\ q.batch >= 1 /\ q.batch <= MaxCount(q.arg)
        /\ q.pc = "swap" => q.next >= 0 /\ q.next + q.batch <= MaxCount(q.arg)
        /\ q.pc = "spend" => q.seen >= q.batch

\* While no entry was evicted, the pointers of a request are those of the caches.
NeedsTime == {"fill", "age", "refill", "rest", "swap", "stamp"}
NeedsTokens == {"rest", "swap", "stamp", "left", "spend"}
HeldBy(q, t, k) ==
    /\ q.pc \in NeedsTime => Has(t, q.arg)
    /\ q.pc \in {"age", "refill", "rest", "swap", "stamp"} => q.timePtr = CellOf(t, q.arg)
    /\ q.pc \in NeedsTokens => Has(k, q.arg)
    /\ q.pc \in {"rest", "swap", "left", "spend"} => q.ptr = CellOf(k, q.arg)
RejectHeld(a) ==
    /\ Has(tokens, a) => Has(times, a) /\ Limit(a) > 0
    /\ \A q \in Req : req[q].arg = a => HeldBy(req[q], times, tokens)

\* What is left and what has passed come from one refill.
LeftOk(a) ==
    Has(tokens, a) => Left(a) >= 0 /\ (a \notin free => Left(a) + refill[a].passed <= MaxCount(a))

\* Before the first refill nothing has passed, and the time is the one of the
\* request that fills.
Unfilled(a) ==
    ~Has(tokens, a) =>
        /\ refill[a].at = 0 /\ refill[a].passed = 0 /\ refill[a].before = 0
        /\ \A q \in Among(req, a, {"fill"}) : Time(a) = req[q].now

\* While one goroutine refills at a time: it found the time a duration old, and
\* between its refill and its store it alone knows the time of the refill.
Deciding == {"refill", "rest", "swap"}
RefillsApart(a) ==
    /\ \A q, s \in Among(req, a, Refilling) : q = s
    /\ \A q \in Among(req, a, Deciding) : req[q].now - Time(a) > rule.duration
    /\ \A q \in Among(req, a, {"stamp"}) : refill[a].at = req[q].now
    /\ Has(times, a) /\ Among(req, a, {"stamp"}) = {} => refill[a].at <= Time(a)
    /\ refill[a].before > 0 => refill[a].at - refill[a].before > rule.duration
RejectOk(a) ==
    RejectHeld(a) /\ LeftOk(a) /\ Unfilled(a) /\ (a \notin overlapped => RefillsApart(a))
RejectInv ==
    rule.behavior = "Reject" =>
        (\A q \in Req : RejectReq(req[q])) /\ \A a \in Args \ lost : RejectOk(a)

\* Request r does not get to a fill, a refill or its store.
Moves(r) ==
    /\ HeldBy(req'[r], times', tokens')
    /\ req'[r].pc \notin {"fill", "stamp"} /\ req[r].pc # "stamp"
    /\ req'[r].pc \in Deciding =>
         req[r].pc \in Deciding /\ req'[r].arg = req[r].arg /\ req'[r].now = req[r].now

\* Every step keeps the invariant of the reject controller: the facts about a step
\* of one request come first, then the actions one by one.
LEMMA RejectNext ==
    ASSUME Base, RejectInv, [Next]_vars
    PROVE  RejectInv'
\* The pointers of a value after a step of request r.
<1>HeldStep.
      ASSUME NEW r \in Req, OnlyReq(r), NEW a \in Args, rule' = rule, RejectHeld(a),
             Has(times, a) => Has(times', a) /\ CellOf(times', a) = CellOf(times, a),
             Has(tokens, a) => Has(tokens', a) /\ CellOf(tokens', a) = CellOf(tokens, a),
             Has(tokens', a) => Has(times', a) /\ Limit(a) > 0,
             req'[r].arg = a => HeldBy(req'[r], times', tokens')
      PROVE  RejectHeld(a)'
  <2> USE <1>HeldStep
  <2>1. ASSUME NEW q \in Req, req'[q].arg = a
        PROVE  HeldBy(req'[q], times', tokens')
    <3>1. CASE q = r
      BY <2>1, <3>1
    <3>2. CASE q # r
      <4> DEFINE p == req'[q]
      <4>1. HeldBy(p, times, tokens) /\ p.arg = a
        BY <2>1, <3>2 DEF RejectHeld, OnlyReq
      <4> HIDE DEF p
      <4>2. /\ p.pc \in {"age", "refill", "rest", "swap", "stamp"} => p.pc \in NeedsTime
            /\ p.pc \in {"rest", "swap", "left", "spend"} => p.pc \in NeedsTokens
        BY SMT DEF NeedsTime, NeedsTokens
      <4>3. HeldBy(p, times', tokens')
        BY <4>1, <4>2 DEF HeldBy
      <4> QED BY <4>3 DEF p
    <3> QED BY <3>1, <3>2
  <2>2. (\A q \in Req : req[q].arg = a => HeldBy(req[q], times, tokens))'
    BY <2>1
  <2> QED
    BY <2>2 DEF RejectHeld, Limit
\* Nothing changes for a value but where its requests are, and none of them gets
\* to a refill.
<1>BoundsQuiet.
      ASSUME NEW a \in Args, rule' = rule, LeftOk(a), Unfilled(a),
             a \notin overlapped => RefillsApart(a),
             Has(tokens, a) => Has(times, a),
             Among(req', a, {"fill"}) # {} => Has(times, a),
             Among(req', a, Deciding) # {} => Has(times, a),
             SameEntry(times, times', a), SameEntry(tokens, tokens', a),
             SameCell(times, a), SameCell(tokens, a),
             refill'[a] = refill[a], a \notin free' => a \notin free,
             a \notin overlapped' => a \notin overlapped,
             Among(req', a, {"fill"}) \subseteq Among(req, a, {"fill"}),
             Among(req', a, Refilling) \subseteq Among(req, a, Refilling),
             Among(req', a, Deciding) \subseteq Among(req, a, Deciding),
             Among(req', a, {"stamp"}) = Among(req, a, {"stamp"}),
             \A q \in Among(req', a, {"fill"}) : req'[q].now = req[q].now,
             \A q \in Among(req', a, Refilling) : req'[q].now = req[q].now
      PROVE  LeftOk(a)' /\ Unfilled(a)' /\ (a \notin overlapped' => RefillsApart(a)')
  <2> USE <1>BoundsQuiet
  <2>1. Deciding \subseteq Refilling /\ {"stamp"} \subseteq Refilling
    BY SMT DEF Deciding, Refilling
  <2>2. Among(req', a, Deciding) \subseteq Among(req', a, Refilling)
        /\ Among(req', a, {"stamp"}) \subseteq Among(req', a, Refilling)
    BY <2>1 DEF Among
  <2>3. Has(times, a) => heap'[CellOf(times', a)] = heap[CellOf(times, a)]
    BY DEF SameEntry, SameCell
  <2>4. Has(tokens, a) => heap'[CellOf(tokens', a)] = heap[CellOf(tokens, a)]
    BY DEF SameEntry, SameCell
  <2>5. Has(times', a) = Has(times, a) /\ Has(tokens', a) = Has(tokens, a)
    BY DEF SameEntry
  <2>6. MaxCount(a)' = MaxCount(a)
    BY DEF MaxCount, Limit
  <2>7. LeftOk(a)'
    BY <2>4, <2>5, <2>6 DEF LeftOk, Left
  <2>8. Unfilled(a)'
    BY <2>3, <2>5 DEF Unfilled, Time
  <2>9. ASSUME a \notin overlapped'
        PROVE  RefillsApart(a)'
    <3>1. RefillsApart(a)
      BY <2>9
    <3>2. \A q, s \in Among(req', a, Refilling) : q = s
      BY <3>1 DEF RefillsApart
    <3>3. \A q \in Among(req', a, Deciding) :
              req'[q].now - heap'[CellOf(times', a)] > rule'.duration
      BY <2>2, <2>3, <3>1 DEF RefillsApart, Time
    <3>4. \A q \in Among(req', a, {"stamp"}) : refill'[a].at = req'[q].now
      BY <2>2, <3>1 DEF RefillsApart
    <3>5. Has(times', a) /\ Among(req', a, {"stamp"}) = {}
              => refill'[a].at <= heap'[CellOf(times', a)]
      BY <2>3, <2>5, <3>1 DEF RefillsApart, Time
    <3>6. refill'[a].before > 0 => refill'[a].at - refill'[a].before > rule'.duration
      BY <3>1 DEF RefillsApart
    <3> QED BY <3>2, <3>3, <3>4, <3>5, <3>6 DEF RefillsApart, Time
  <2> QED
    BY <2>7, <2>8, <2>9
\* A value that a step does not concern, or of which a request only moves on.
<1>RejectQuiet.
      ASSUME NEW r \in Req, OnlyReq(r), NEW a \in Args, rule' = rule, RejectOk(a),
             (a # req[r].arg /\ req'[r].arg = req[r].arg) \/ Moves(r),
             SameEntry(times, times', a), SameEntry(tokens, tokens', a),
             SameCell(times, a), SameCell(tokens, a),
             refill'[a] = refill[a], a \notin free' => a \notin free,
             a \notin overlapped' => a \notin overlapped
      PROVE  RejectOk(a)'
  <2> USE <1>RejectQuiet
  <2>1. RejectHeld(a)'
    <3>1. req'[r].arg = a => HeldBy(req'[r], times', tokens')
      BY DEF Moves
    <3> QED BY <3>1, <1>HeldStep DEF RejectOk, RejectHeld, SameEntry
  <2>2. ASSUME NEW T, r \in Among(req', a, T) =>
                        r \in Among(req, a, T) /\ req'[r].now = req[r].now
        PROVE  /\ Among(req', a, T) \subseteq Among(req, a, T)
               /\ \A q \in Among(req', a, T) : req'[q].now = req[q].now
    <3>1. ASSUME NEW q \in Among(req', a, T), q # r
          PROVE  q \in Among(req, a, T) /\ req'[q].now = req[q].now
      BY <3>1 DEF Among, OnlyReq
    <3>2. \A q \in Among(req', a, T) : q \in Among(req, a, T) /\ req'[q].now = req[q].now
      BY <2>2, <3>1
    <3> QED BY <3>2
  <2>3. /\ r \in Among(req', a, {"fill"}) =>
             r \in Among(req, a, {"fill"}) /\ req'[r].now = req[r].now
        /\ r \in Among(req', a, Deciding) =>
             r \in Among(req, a, Deciding) /\ req'[r].now = req[r].now
        /\ r \notin Among(req', a, {"stamp"}) /\ r \notin Among(req, a, {"stamp"})
    <3>1. CASE a # req[r].arg /\ req'[r].arg = req[r].arg
      BY <3>1 DEF Among
    <3>2. CASE Moves(r)
      BY <3>2 DEF Among, Moves
    <3> QED BY <3>1, <3>2
  <2>4. Refilling = Deciding \cup {"stamp"}
    BY SMT DEF Deciding, Refilling
  <2>5. ASSUME NEW m
        PROVE  Among(m, a, Refilling) = Among(m, a, Deciding) \cup Among(m, a, {"stamp"})
    BY <2>4 DEF Among
  <2>7. /\ Among(req', a, {"fill"}) \subseteq Among(req, a, {"fill"})
        /\ \A q \in Among(req', a, {"fill"}) : req'[q].now = req[q].now
    BY <2>2, <2>3
  <2>8. /\ Among(req', a, Deciding) \subseteq Among(req, a, Deciding)
        /\ \A q \in Among(req', a, Deciding) : req'[q].now = req[q].now
    BY <2>2, <2>3
  <2>9. /\ Among(req', a, {"stamp"}) = Among(req, a, {"stamp"})
        /\ \A q \in Among(req', a, {"stamp"}) : req'[q].now = req[q].now
    <3>1. \A q \in Among(req, a, {"stamp"}) : q # r /\ q \in Among(req', a, {"stamp"})
      BY <2>3 DEF Among, OnlyReq
    <3>2. \A q \in Among(req', a, {"stamp"}) :
            q # r /\ q \in Among(req, a, {"stamp"}) /\ req'[q].now = req[q].now
      BY <2>3 DEF Among, OnlyReq
    <3> QED BY <3>1, <3>2
  <2>10. /\ Among(req', a, Refilling) \subseteq Among(req, a, Refilling)
         /\ \A q \in Among(req', a, Refilling) : req'[q].now = req[q].now
    BY <2>5, <2>8, <2>9
  <2>11. ASSUME NEW q \in Req, req[q].arg = a, req[q].pc \in NeedsTime
         PROVE  Has(times, a)
    BY <2>11 DEF RejectOk, RejectHeld, HeldBy
  <2>12. "fill" \in NeedsTime /\ Deciding \subseteq NeedsTime
    BY SMT DEF NeedsTime, Deciding
  <2>13. LeftOk(a)' /\ Unfilled(a)' /\ (a \notin overlapped' => RefillsApart(a)')
    <3>1. /\ Among(req', a, {"fill"}) # {} => Has(times, a)
          /\ Among(req', a, Deciding) # {} => Has(times, a)
      <4>1. /\ Among(req, a, {"fill"}) # {} => Has(times, a)
            /\ Among(req, a, Deciding) # {} => Has(times, a)
        BY <2>11, <2>12 DEF Among
      <4>2. /\ Among(req', a, {"fill"}) # {} => Among(req, a, {"fill"}) # {}
            /\ Among(req', a, Deciding) # {} => Among(req, a, Deciding) # {}
        BY <2>7, <2>8
      <4> QED BY <4>1, <4>2
    <3>2. /\ LeftOk(a) /\ Unfilled(a) /\ (a \notin overlapped => RefillsApart(a))
          /\ (Has(tokens, a) => Has(times, a))
      BY DEF RejectOk, RejectHeld
    <3> QED BY <2>7, <2>8, <2>9, <2>10, <3>1, <3>2, <1>BoundsQuiet
  <2> QED
    BY <2>1, <2>13 DEF RejectOk
\* The clock.
<1>RejectTick.
      ASSUME RejectInv, UNCHANGED <<rule, times, tokens, heap, req, ghosts>>
      PROVE  RejectInv'
  <2> USE <1>RejectTick
  <2>1. UNCHANGED <<rule, times, tokens, heap, req, lost, refill, overlapped, free>>
    BY DEF ghosts
  <2>2. \A a \in Args : (RejectHeld(a) => RejectHeld(a)')
    BY <2>1 DEF RejectHeld, Limit
  <2>3. \A a \in Args : (LeftOk(a) => LeftOk(a)') /\ (Unfilled(a) => Unfilled(a)')
    BY <2>1 DEF LeftOk, Unfilled, Left, Time, MaxCount, Limit
  <2>4. \A a \in Args : (RefillsApart(a) => RefillsApart(a)')
    BY <2>1 DEF RefillsApart, Time
  <2>5. (\A q \in Req : RejectReq(req[q])) => (\A q \in Req : RejectReq(req[q]))'
    BY <2>1 DEF RejectReq, MaxCount, Limit
  <2> QED
    BY <2>1, <2>2, <2>3, <2>4, <2>5 DEF RejectInv, RejectOk
\* The requests keep what they know, where r does.
<1>ReqsStep.
      ASSUME RejectInv, NEW r \in Req, OnlyReq(r), rule' = rule, rule.behavior = "Reject",
             RejectReq(req'[r])
      PROVE  (\A q \in Req : RejectReq(req[q]))'
  <2> USE <1>ReqsStep
  <2>1. \A q \in Req : RejectReq(req'[q])
    BY DEF OnlyReq, RejectInv
  <2> QED
    BY <2>1 DEF RejectReq, MaxCount, Limit
\* Slot.Check starts a goroutine when it may.
<1>RejectCheck.
      ASSUME Base, RejectInv, NEW r \in Req, Check(r)
      PROVE  RejectInv'
  <2> USE <1>RejectCheck
  <2> SUFFICES ASSUME rule.behavior = "Reject"
               PROVE  (\A q \in Req : RejectReq(req[q]))' /\ \A a \in Args \ lost' : RejectOk(a)'
    BY DEF RejectInv, Check
  <2>1. UNCHANGED <<rule, times, tokens, heap, lost, refill, overlapped, free>>
            /\ req[r].pc = "idle"
    BY DEF Check, At, caches, ghosts
  <2>2. PICK a \in Args, b \in Batches, n \in Request :
           /\ req' = [req EXCEPT ![r] = n]
           /\ n.arg = a
           /\ n.pc \in {"count", "blocked", "reject", "throttle"}
           /\ n.pc = "reject" => n.batch = b /\ b <= MaxCount(a)
    <3>1. "count" # "reject" /\ "blocked" # "reject" /\ "throttle" # "reject"
      BY SMT
    <3> QED BY <3>1, CheckShape
  <2>3. OnlyReq(r) /\ req'[r] = n
    BY <2>2, ReqStep
  <2>4. RejectReq(n)
    <3>1. b >= 1
      BY SMT, HotspotAssumption
    <3> QED BY SMT, <2>2, <3>1 DEF RejectReq, RejectPcs
  <2>5. HeldBy(n, times', tokens') /\ n.pc \notin Deciding /\ n.pc \notin {"fill", "stamp"}
        /\ req[r].pc # "stamp"
    BY SMT, <2>1, <2>2 DEF HeldBy, NeedsTime, NeedsTokens, Deciding
  <2>6. Moves(r)
    BY <2>3, <2>5 DEF Moves
  <2>7. ASSUME NEW c \in Args \ lost
        PROVE  RejectOk(c)'
    <3>1. RejectOk(c)
      BY DEF RejectInv
    <3>2. SameEntry(times, times', c) /\ SameEntry(tokens, tokens', c)
          /\ SameCell(times, c) /\ SameCell(tokens, c)
      BY <2>1 DEF SameEntry, SameCell
    <3> QED BY <2>1, <2>3, <2>6, <3>1, <3>2, <1>RejectQuiet
  <2> QED
    BY <2>1, <2>3, <2>4, <2>7, <1>ReqsStep
\* What is known of a request under a rejecting rule.
<1>RejectFact.
      ASSUME Base, RejectInv, NEW r \in Req, req[r].pc \in RejectPcs
      PROVE  /\ rule.behavior = "Reject" /\ req[r].arg \in Args /\ RejectReq(req[r])
             /\ Limit(req[r].arg) > 0
             /\ req[r].arg \notin lost => RejectOk(req[r].arg) /\ HeldBy(req[r], times, tokens)
  <2> USE <1>RejectFact
  <2>1. rule.behavior = "Reject" /\ req[r].arg \in Args /\ Limit(req[r].arg) > 0
    BY ReqFact DEF Fits
  <2>2. req[r].arg \notin lost => RejectOk(req[r].arg)
    BY <2>1 DEF RejectInv
  <2>3. RejectReq(req[r])
    BY <2>1 DEF RejectInv
  <2> QED
    BY <2>1, <2>2, <2>3 DEF RejectOk, RejectHeld
\* The reject loop looks the time of the last refill up, or puts it in.
<1>RejectRejectLoop.
      ASSUME Base, RejectInv, NEW r \in Req, RejectLoop(r)
      PROVE  RejectInv'
  <2> USE <1>RejectRejectLoop
  <2> DEFINE k == req[r].arg
             pc == IF Has(times, k) THEN "age" ELSE "fill"
             x == IF Has(times, k) THEN CellOf(times, k) ELSE 0
             n == [req[r] EXCEPT !.now = clock, !.pc = pc, !.timePtr = x]
  <2>1. /\ req[r].pc = "reject" /\ times' = AddIfAbsent(times, k, Fresh)
        /\ heap' = Stored(times, k, clock) /\ Loses(times, times')
        /\ req' = [req EXCEPT ![r] = n]
        /\ UNCHANGED <<rule, clock, tokens, refill, overlapped, free>>
    BY DEF RejectLoop, At, Set
  <2>2. req[r].pc \in RejectPcs
    BY SMT, <2>1 DEF RejectPcs
  <2>3. /\ rule.behavior = "Reject" /\ k \in Args /\ RejectReq(req[r]) /\ req[r] \in Request
        /\ Cache(times) /\ Cache(tokens) /\ clock \in Nat
    BY <2>2, <1>RejectFact, ReqFact DEF Base, Shape, TypeOK
  <2>4. /\ Has(times, k) => pc = "age" /\ x = CellOf(times, k)
        /\ ~Has(times, k) => pc = "fill"
    OBVIOUS
  <2> HIDE DEF pc, x
  <2>5. n.arg = k /\ n.pc = pc /\ n.now = clock /\ n.timePtr = x /\ n.batch = req[r].batch
    BY SMT, <2>3 DEF Request
  <2> HIDE DEF n
  <2>6. OnlyReq(r) /\ req'[r] = n
    BY <2>1, ReqStep
  <2>7. pc \in {"age", "fill"}
    BY <2>4, CellType, <2>3
  <2> HIDE DEF k
  <2>8. RejectReq(n)
    <3>1. req[r].batch >= 1 /\ req[r].batch <= MaxCount(k)
      BY <2>2, <2>3 DEF RejectReq, k
    <3> QED BY SMT, <2>5, <2>7, <3>1 DEF RejectReq, RejectPcs
  <2>9. ASSUME NEW a \in Args, a \notin lost'
        PROVE  RejectOk(a)'
    <3>1. rule.behavior # "Concurrency"
      BY SMT, <2>3
    <3>2. /\ a \notin lost /\ (a # k \/ Has(times, k) => SameEntry(times, times', a))
          /\ ~Has(times, k) => Has(times', k) /\ CellOf(times', k) = Fresh
      BY <2>1, <2>3, <2>9, <3>1, AddFrame
    <3>3. RejectOk(a)
      BY <2>3, <3>2 DEF RejectInv
    <3>4. /\ SameCell(times, a) /\ SameCell(tokens, a) /\ SameEntry(tokens, tokens', a)
          /\ ~Has(times, k) => heap'[Fresh] = clock
      BY <2>1, StoredFrame DEF SameEntry
    <3>5. CASE a # k
      BY <2>1, <2>5, <2>6, <3>2, <3>3, <3>4, <3>5, <1>RejectQuiet DEF k
    <3>6. CASE a = k /\ Has(times, k)
      <4>1. n.pc = "age" /\ n.timePtr = CellOf(times', k) /\ Has(times', k)
        BY <2>4, <2>5, <3>2, <3>6 DEF SameEntry
      <4>2. HeldBy(n, times', tokens') /\ n.pc \notin {"fill", "stamp"} /\ n.pc \notin Deciding
            /\ req[r].pc # "stamp"
        BY SMT, <2>1, <2>5, <4>1 DEF HeldBy, NeedsTime, NeedsTokens, Deciding
      <4>3. Moves(r)
        BY <2>6, <4>2 DEF Moves
      <4> QED BY <2>1, <2>6, <3>2, <3>3, <3>4, <3>6, <4>3, <1>RejectQuiet
    <3>7. CASE a = k /\ ~Has(times, k)
      <4>1. ~Has(times, a) /\ ~Has(tokens, a) /\ ~Has(tokens', a)
            /\ Has(times', a) /\ CellOf(times', a) = Fresh /\ heap'[Fresh] = clock
        BY <2>1, <3>2, <3>3, <3>4, <3>7 DEF RejectOk, RejectHeld
      <4>2. req'[r] = n /\ n.arg = a /\ n.pc = "fill" /\ n.now = clock
        BY <2>4, <2>5, <2>6, <3>7
      <4>3. RejectHeld(a)'
        <5>1. HeldBy(n, times', tokens')
          BY SMT, <4>1, <4>2 DEF HeldBy, NeedsTime, NeedsTokens
        <5> QED BY <2>1, <2>6, <3>3, <4>1, <5>1, <1>HeldStep DEF RejectOk
      <4>4. \A q \in Req : req[q].arg = a => req[q].pc \notin NeedsTime
        BY <3>3, <4>1 DEF RejectOk, RejectHeld, HeldBy
      <4>5. \A q \in Req : req'[q].arg = a /\ q # r => req'[q].pc \notin NeedsTime
        BY <2>6, <4>4 DEF OnlyReq
      <4>6. "fill" \in NeedsTime /\ Refilling \subseteq NeedsTime /\ "fill" \notin Refilling
            /\ Deciding \subseteq NeedsTime /\ "fill" \notin Deciding
            /\ "stamp" \in NeedsTime /\ "fill" # "stamp"
        BY SMT DEF NeedsTime, Refilling, Deciding
      <4>7. /\ Among(req', a, Refilling) = {} /\ Among(req', a, Deciding) = {}
            /\ Among(req', a, {"stamp"}) = {}
        BY <4>2, <4>5, <4>6 DEF Among
      <4>8. \A q \in Among(req', a, {"fill"}) : q = r
        BY <4>5, <4>6 DEF Among
      <4>9. LeftOk(a)'
        BY <4>1 DEF LeftOk
      <4>10. refill'[a].at = 0 /\ refill'[a].passed = 0 /\ refill'[a].before = 0
        BY <2>1, <3>3, <4>1 DEF RejectOk, Unfilled
      <4>11. Unfilled(a)'
        BY <4>1, <4>2, <4>8, <4>10 DEF Unfilled, Time
      <4>12. RefillsApart(a)'
        <5>1. refill'[a].at <= heap'[CellOf(times', a)] /\ ~(refill'[a].before > 0)
          BY SMT, <2>3, <4>1, <4>10
        <5> QED BY <4>7, <5>1 DEF RefillsApart, Time
      <4> QED BY <4>3, <4>9, <4>11, <4>12 DEF RejectOk
    <3> QED BY <3>5, <3>6, <3>7
  <2> QED
    BY <2>1, <2>3, <2>6, <2>8, <2>9, <1>ReqsStep DEF RejectInv
\* What the bookkeeping of the refills notes.
<1>RefillFact.
      ASSUME Base, NEW r \in Req
      PROVE  /\ Spent(req[r].arg, req[r].batch) =>
                  /\ refill'[req[r].arg].at = refill[req[r].arg].at
                  /\ refill'[req[r].arg].before = refill[req[r].arg].before
                  /\ refill'[req[r].arg].passed = refill[req[r].arg].passed + req[r].batch
                  /\ \A a \in Args : a # req[r].arg => refill'[a] = refill[a]
             /\ Refilled(r) =>
                  /\ refill'[req[r].arg].at = req[r].now
                  /\ refill'[req[r].arg].before = refill[req[r].arg].at
                  /\ refill'[req[r].arg].passed = req[r].batch
                  /\ \A a \in Args : a # req[r].arg => refill'[a] = refill[a]
  <2> USE <1>RefillFact
  <2> DEFINE k == req[r].arg
  <2>1. k \in Args /\ refill \in [Args -> [at : Nat, before : Nat, passed : Nat]]
    BY ReqFact DEF Base, Shape, TypeOK
  <2>2. ASSUME Spent(k, req[r].batch)
        PROVE  /\ refill'[k].at = refill[k].at /\ refill'[k].before = refill[k].before
               /\ refill'[k].passed = refill[k].passed + req[r].batch
               /\ \A a \in Args : a # k => refill'[a] = refill[a]
    BY SMT, <2>1, <2>2 DEF Spent
  <2>3. ASSUME Refilled(r)
        PROVE  /\ refill'[k].at = req[r].now /\ refill'[k].before = refill[k].at
               /\ refill'[k].passed = req[r].batch
               /\ \A a \in Args : a # k => refill'[a] = refill[a]
    BY SMT, <2>1, <2>3 DEF Refilled
  <2> QED
    BY <2>2, <2>3
\* A step of request r that is not about a refill leaves the refills apart.
<1>ApartQuiet.
      ASSUME NEW r \in Req, OnlyReq(r), NEW a \in Args, rule' = rule, RejectHeld(a),
             RefillsApart(a),
             req[r].pc \notin Refilling, req'[r].pc \notin Refilling,
             SameEntry(times, times', a), SameCell(times, a),
             refill'[a].at = refill[a].at, refill'[a].before = refill[a].before
      PROVE  RefillsApart(a)'
  <2> USE <1>ApartQuiet
  <2>1. Deciding \subseteq Refilling /\ "stamp" \in Refilling /\ Deciding \subseteq NeedsTime
    BY SMT DEF Deciding, Refilling, NeedsTime
  <2>2. /\ Among(req', a, Refilling) = Among(req, a, Refilling)
        /\ Among(req', a, Deciding) = Among(req, a, Deciding)
        /\ Among(req', a, {"stamp"}) = Among(req, a, {"stamp"})
    BY <2>1, AmongSame
  <2>3. \A q \in Among(req, a, Refilling) : req'[q].now = req[q].now
    BY DEF Among, OnlyReq
  <2>4. Among(req, a, Deciding) \subseteq Among(req, a, Refilling)
        /\ Among(req, a, {"stamp"}) \subseteq Among(req, a, Refilling)
    BY <2>1 DEF Among
  <2>5. Has(times, a) => heap'[CellOf(times', a)] = heap[CellOf(times, a)]
    BY DEF SameEntry, SameCell
  <2>6. \A q \in Among(req, a, Deciding) : Has(times, a)
    BY <2>1 DEF Among, RejectHeld, HeldBy
  <2>7. \A q \in Among(req', a, Deciding) : req'[q].now - heap'[CellOf(times', a)] > rule'.duration
    BY <2>2, <2>3, <2>4, <2>5, <2>6 DEF RefillsApart, Time
  <2>8. \A q \in Among(req', a, {"stamp"}) : refill'[a].at = req'[q].now
    BY <2>2, <2>3, <2>4 DEF RefillsApart
  <2>9. Has(times', a) /\ Among(req', a, {"stamp"}) = {}
            => refill'[a].at <= heap'[CellOf(times', a)]
    BY <2>2, <2>5 DEF RefillsApart, Time, SameEntry
  <2> QED
    BY <2>2, <2>7, <2>8, <2>9 DEF RefillsApart, Time
\* The first request of a value fills its tokens.
<1>RejectFirstFill.
      ASSUME Base, RejectInv, NEW r \in Req, FirstFill(r)
      PROVE  RejectInv'
  <2> USE <1>RejectFirstFill
  <2> DEFINE k == req[r].arg
             n == Rest("passed", k)
             v == MaxCount(k) - req[r].batch
  <2>1. /\ req[r].pc = "fill" /\ tokens' = AddIfAbsent(tokens, k, Fresh)
        /\ heap' = Stored(tokens, k, v) /\ Loses(tokens, tokens')
        /\ Has(tokens, k) => free' = free \cup {k} /\ Spent(k, req[r].batch)
        /\ ~Has(tokens, k) => Refilled(r) /\ free' = free
        /\ req' = [req EXCEPT ![r] = n]
        /\ UNCHANGED <<rule, times, overlapped>>
    BY DEF FirstFill, At, End, Set
  <2>2. req[r].pc \in RejectPcs /\ req[r].pc \notin Refilling /\ req[r].pc # "stamp"
        /\ "passed" \notin Refilling /\ req[r].pc \in NeedsTime
    BY SMT, <2>1 DEF RejectPcs, Refilling, NeedsTime
  <2>3. /\ rule.behavior = "Reject" /\ k \in Args /\ RejectReq(req[r]) /\ Limit(k) > 0
        /\ Cache(times) /\ Cache(tokens)
    BY <2>2, <1>RejectFact DEF Base, Shape, TypeOK
  <2>4. req[r].batch \in Nat /\ MaxCount(k) \in Int /\ req[r].batch <= MaxCount(k)
        /\ req[r].now \in Nat
    BY <2>2, <2>3, ReqFact, RuleFact DEF RejectReq
  <2>5. n.arg = k /\ n.pc = "passed"
    BY StopFact
  <2> HIDE DEF n
  <2>6. OnlyReq(r) /\ req'[r] = n
    BY <2>1, ReqStep
  <2>7. RejectReq(n)
    BY SMT, <2>5 DEF RejectReq, RejectPcs
  <2>8. HeldBy(n, times', tokens')
    BY SMT, <2>5 DEF HeldBy, NeedsTime, NeedsTokens
  <2>9. ASSUME NEW a \in Args, a \notin lost'
        PROVE  RejectOk(a)'
    <3>1. rule.behavior # "Concurrency"
      BY SMT, <2>3
    <3>2. /\ a \notin lost /\ (a # k \/ Has(tokens, k) => SameEntry(tokens, tokens', a))
          /\ ~Has(tokens, k) => Has(tokens', k) /\ CellOf(tokens', k) = Fresh
      BY <2>1, <2>3, <2>9, <3>1, AddFrame
    <3>3. RejectOk(a)
      BY <2>3, <3>2 DEF RejectInv
    <3>4. /\ SameCell(times, a) /\ SameCell(tokens, a) /\ SameEntry(times, times', a)
          /\ ~Has(tokens, k) => heap'[Fresh] = v
      BY <2>1, StoredFrame DEF SameEntry
    <3>5. CASE a # k
      <4>1. refill'[a] = refill[a] /\ (a \notin free' => a \notin free)
        BY <2>1, <3>5, <1>RefillFact
      <4> QED BY <2>1, <2>5, <2>6, <3>2, <3>3, <3>4, <3>5, <4>1, <1>RejectQuiet
    <3>6. CASE a = k /\ Has(tokens, k)
      <4>1. /\ refill'[a].at = refill[a].at /\ refill'[a].before = refill[a].before
            /\ a \in free' /\ SameEntry(tokens, tokens', a)
        BY <2>1, <3>2, <3>6, <1>RefillFact
      <4>2. Has(tokens', a) /\ CellOf(tokens', a) = CellOf(tokens, a)
        BY <3>6, <4>1 DEF SameEntry
      <4>3. RejectHeld(a)'
        <5>1. Has(times, a) /\ Limit(a) > 0 /\ RejectHeld(a)
          BY <3>3, <3>6 DEF RejectOk, RejectHeld
        <5> QED BY <2>1, <2>6, <2>8, <4>2, <5>1, <1>HeldStep
      <4>4. LeftOk(a)'
        BY <3>3, <3>4, <3>6, <4>1, <4>2 DEF RejectOk, LeftOk, Left, SameCell
      <4>5. Unfilled(a)'
        BY <4>2 DEF Unfilled
      <4>6. a \notin overlapped' => RefillsApart(a)'
        BY <2>1, <2>2, <2>5, <2>6, <3>3, <3>4, <4>1, <1>ApartQuiet DEF RejectOk
      <4> QED BY <4>3, <4>4, <4>5, <4>6 DEF RejectOk
    <3>7. CASE a = k /\ ~Has(tokens, k)
      <4>1. /\ refill'[a].at = req[r].now /\ refill'[a].before = refill[a].at
            /\ refill'[a].passed = req[r].batch
        BY <2>1, <3>7, <1>RefillFact
      <4>2. refill[a].at = 0 /\ Time(a) = req[r].now
        <5>1. r \in Among(req, a, {"fill"})
          BY <2>1, <3>7 DEF Among
        <5> QED BY <3>3, <3>7, <5>1 DEF RejectOk, Unfilled
      <4>3. Has(tokens', a) /\ CellOf(tokens', a) = Fresh /\ heap'[Fresh] = v
        BY <3>2, <3>4, <3>7
      <4>4. Has(times, a) /\ times' = times /\ heap'[CellOf(times, a)] = heap[CellOf(times, a)]
        BY <2>1, <2>2, <2>3, <3>3, <3>4, <3>7 DEF RejectOk, RejectHeld, HeldBy, SameCell
      <4>5. RejectHeld(a)'
        BY <2>1, <2>3, <2>6, <2>8, <3>3, <3>7, <4>3, <4>4, <1>HeldStep DEF RejectOk
      <4>6. LeftOk(a)'
        <5>1. v >= 0 /\ v + refill'[a].passed <= MaxCount(k)
          BY SMT, <2>4, <4>1
        <5>2. MaxCount(a)' = MaxCount(k)
          BY <2>1, <3>7 DEF MaxCount, Limit
        <5> QED BY <4>3, <5>1, <5>2 DEF LeftOk, Left
      <4>7. Unfilled(a)'
        BY <4>3 DEF Unfilled
      <4>8. ASSUME a \notin overlapped'
            PROVE  RefillsApart(a)'
        <5>1. RefillsApart(a)
          BY <2>1, <3>3, <4>8 DEF RejectOk
        <5>2. Deciding \subseteq Refilling /\ "stamp" \in Refilling /\ "stamp" \in NeedsTokens
          BY SMT DEF Deciding, Refilling, NeedsTokens
        <5>3. /\ Among(req', a, Refilling) = Among(req, a, Refilling)
              /\ Among(req', a, Deciding) = Among(req, a, Deciding)
              /\ Among(req', a, {"stamp"}) = Among(req, a, {"stamp"})
          BY <2>2, <2>5, <2>6, <5>2, AmongSame
        <5>4. Among(req, a, {"stamp"}) = {}
          BY <3>3, <3>7, <5>2 DEF Among, RejectOk, RejectHeld, HeldBy
        <5>5. \A q \in Among(req, a, Deciding) : req'[q].now = req[q].now
          BY <2>2, <2>6, <5>2 DEF Among, OnlyReq
        <5>6. \A q \in Among(req', a, Deciding) :
                  req'[q].now - heap'[CellOf(times', a)] > rule'.duration
          BY <2>1, <4>4, <5>1, <5>3, <5>5 DEF RefillsApart, Time
        <5>7. refill'[a].at <= heap'[CellOf(times', a)] /\ ~(refill'[a].before > 0)
          <6>1. heap'[CellOf(times', a)] = req[r].now
            BY <4>2, <4>4 DEF Time
          <6> QED BY SMT, <2>4, <4>1, <4>2, <6>1
        <5> QED BY <5>1, <5>3, <5>4, <5>6, <5>7 DEF RefillsApart, Time
      <4> QED BY <4>5, <4>6, <4>7, <4>8 DEF RejectOk
    <3> QED BY <3>5, <3>6, <3>7
  <2> QED
    BY <2>1, <2>3, <2>6, <2>7, <2>9, <1>ReqsStep DEF RejectInv
\* A step of request r that writes nothing.
<1>RejectStays.
      ASSUME Base, RejectInv, NEW r \in Req, rule.behavior = "Reject", OnlyReq(r),
             req'[r].arg = req[r].arg, RejectReq(req'[r]), req[r].arg \notin lost => Moves(r),
             UNCHANGED <<rule, times, tokens, heap, lost, refill, overlapped, free>>
      PROVE  RejectInv'
  <2> USE <1>RejectStays
  <2>1. ASSUME NEW a \in Args \ lost
        PROVE  RejectOk(a)'
    <3>1. RejectOk(a)
      BY DEF RejectInv
    <3>2. /\ SameEntry(times, times', a) /\ SameEntry(tokens, tokens', a)
          /\ SameCell(times, a) /\ SameCell(tokens, a)
      BY DEF SameEntry, SameCell
    <3> QED BY <3>1, <3>2, <1>RejectQuiet
  <2> QED
    BY <2>1, <1>ReqsStep DEF RejectInv
\* A refill reads what is left.
<1>RejectRestQps.
      ASSUME Base, RejectInv, NEW r \in Req, RestQps(r)
      PROVE  RejectInv'
  <2> USE <1>RejectRestQps
  <2> DEFINE k == req[r].arg
             q == heap[req[r].ptr]
             v == NewQps(r, q)
             m == [req[r] EXCEPT !.pc = "swap", !.seen = q, !.next = v]
             n == Rest("blocked", k)
  <2>1. /\ req[r].pc = "rest"
        /\ (v >= 0 /\ req' = [req EXCEPT ![r] = m]) \/ req' = [req EXCEPT ![r] = n]
        /\ UNCHANGED <<rule, times, tokens, heap, lost, refill, overlapped, free>>
    <3>1. v \in Int
      <4>1. heap \in [Cells -> Int] /\ req[r].pc = "rest"
        BY DEF Base, Shape, TypeOK, RestQps, At
      <4>2. req[r].ptr \in Cells
        BY <4>1, PointerFact DEF HoldsCount
      <4>3. q \in Int
        BY SMT, <4>1, <4>2
      <4> QED BY <4>3, NewQpsType
    <3>2. v < 0 \/ v >= 0
      BY SMT, <3>1
    <3> QED BY <3>2 DEF RestQps, At, Set, End, caches, ghosts
  <2>2. req[r].pc \in RejectPcs /\ req[r].pc \in HoldsCount
    BY SMT, <2>1 DEF RejectPcs, HoldsCount
  <2>3. /\ rule.behavior = "Reject" /\ k \in Args /\ RejectReq(req[r]) /\ req[r] \in Request
        /\ k \notin lost => HeldBy(req[r], times, tokens)
    BY <2>2, <1>RejectFact, ReqFact
  <2>4. v \in Int /\ v + req[r].batch <= MaxCount(k)
    <3>1. heap \in [Cells -> Int] /\ req[r].ptr \in Cells
      BY <2>2, PointerFact DEF Base, Shape, TypeOK
    <3>2. q \in Int
      BY SMT, <3>1
    <3> QED BY <3>2, NewQpsType
  <2>5. n.arg = k /\ n.pc = "blocked"
    BY StopFact
  <2> HIDE DEF q, v
  <2>6. /\ m.arg = k /\ m.pc = "swap" /\ m.now = req[r].now /\ m.timePtr = req[r].timePtr
        /\ m.ptr = req[r].ptr /\ m.next = v /\ m.batch = req[r].batch
    BY SMT, <2>3 DEF Request
  <2> HIDE DEF m, n
  <2>7. CASE v >= 0 /\ req' = [req EXCEPT ![r] = m]
    <3>1. OnlyReq(r) /\ req'[r] = m
      BY <2>7, ReqStep
    <3>2. RejectReq(m)
      <4>1. req[r].batch >= 1 /\ req[r].batch <= MaxCount(k)
        BY <2>2, <2>3 DEF RejectReq
      <4> QED BY SMT, <2>4, <2>6, <2>7, <4>1 DEF RejectReq, RejectPcs
    <3>3. ASSUME k \notin lost
          PROVE  Moves(r)
      <4>1. HeldBy(req[r], times, tokens)
        BY <2>3, <3>3
      <4>2. HeldBy(m, times, tokens)
        BY SMT, <2>1, <2>6, <4>1 DEF HeldBy, NeedsTime, NeedsTokens
      <4>3. m.pc \notin {"fill", "stamp"} /\ req[r].pc # "stamp" /\ req[r].pc \in Deciding
        BY SMT, <2>1, <2>6 DEF Deciding
      <4> QED BY <2>1, <2>6, <3>1, <4>2, <4>3 DEF Moves
    <3> QED BY <2>1, <2>3, <2>6, <3>1, <3>2, <3>3, <1>RejectStays
  <2>8. CASE req' = [req EXCEPT ![r] = n]
    <3>1. OnlyReq(r) /\ req'[r] = n
      BY <2>8, ReqStep
    <3>2. RejectReq(n) /\ HeldBy(n, times', tokens') /\ n.pc \notin {"fill", "stamp"}
          /\ n.pc \notin Deciding /\ req[r].pc # "stamp"
      BY SMT, <2>1, <2>5 DEF RejectReq, RejectPcs, HeldBy, NeedsTime, NeedsTokens, Deciding
    <3>3. Moves(r)
      BY <3>1, <3>2 DEF Moves
    <3> QED BY <2>1, <2>3, <2>5, <3>1, <3>2, <3>3, <1>RejectStays
  <2> QED
    BY <2>1, <2>7, <2>8
\* A request reads what is left.
<1>RejectLoadTokens.
      ASSUME Base, RejectInv, NEW r \in Req, LoadTokens(r)
      PROVE  RejectInv'
  <2> USE <1>RejectLoadTokens
  <2> DEFINE k == req[r].arg
             q == heap[req[r].ptr]
             m == [req[r] EXCEPT !.pc = "spend", !.seen = q]
             n == Rest("blocked", k)
  <2>1. /\ req[r].pc = "left"
        /\ (q - req[r].batch >= 0 /\ req' = [req EXCEPT ![r] = m]) \/ req' = [req EXCEPT ![r] = n]
        /\ UNCHANGED <<rule, times, tokens, heap, lost, refill, overlapped, free>>
    BY DEF LoadTokens, At, Set, End, caches, ghosts
  <2>2. req[r].pc \in RejectPcs /\ req[r].pc \in HoldsCount
    BY SMT, <2>1 DEF RejectPcs, HoldsCount
  <2>3. /\ rule.behavior = "Reject" /\ k \in Args /\ RejectReq(req[r]) /\ req[r] \in Request
        /\ k \notin lost => HeldBy(req[r], times, tokens)
    BY <2>2, <1>RejectFact, ReqFact
  <2>4. q \in Int /\ req[r].batch \in Nat
    <3>1. heap \in [Cells -> Int] /\ req[r].ptr \in Cells /\ req[r].batch \in Nat
      BY <2>2, PointerFact, ReqFact DEF Base, Shape, TypeOK
    <3> QED BY SMT, <3>1
  <2>5. n.arg = k /\ n.pc = "blocked"
    BY StopFact
  <2> HIDE DEF q
  <2>6. /\ m.arg = k /\ m.pc = "spend" /\ m.ptr = req[r].ptr /\ m.seen = q /\ m.batch = req[r].batch
    BY SMT, <2>3 DEF Request
  <2> HIDE DEF m, n
  <2>7. CASE q - req[r].batch >= 0 /\ req' = [req EXCEPT ![r] = m]
    <3>1. OnlyReq(r) /\ req'[r] = m
      BY <2>7, ReqStep
    <3>2. RejectReq(m)
      <4>1. req[r].batch >= 1 /\ req[r].batch <= MaxCount(k)
        BY <2>2, <2>3 DEF RejectReq
      <4> QED BY SMT, <2>4, <2>6, <2>7, <4>1 DEF RejectReq, RejectPcs
    <3>3. ASSUME k \notin lost
          PROVE  Moves(r)
      <4>1. HeldBy(req[r], times, tokens)
        BY <2>3, <3>3
      <4>2. HeldBy(m, times, tokens)
        BY SMT, <2>1, <2>6, <4>1 DEF HeldBy, NeedsTime, NeedsTokens
      <4>3. m.pc \notin {"fill", "stamp"} /\ req[r].pc # "stamp" /\ m.pc \notin Deciding
        BY SMT, <2>1, <2>6 DEF Deciding
      <4> QED BY <2>1, <2>6, <3>1, <4>2, <4>3 DEF Moves
    <3> QED BY <2>1, <2>3, <2>6, <3>1, <3>2, <3>3, <1>RejectStays
  <2>8. CASE req' = [req EXCEPT ![r] = n]
    <3>1. OnlyReq(r) /\ req'[r] = n
      BY <2>8, ReqStep
    <3>2. RejectReq(n) /\ HeldBy(n, times', tokens') /\ n.pc \notin {"fill", "stamp"}
          /\ n.pc \notin Deciding /\ req[r].pc # "stamp"
      BY SMT, <2>1, <2>5 DEF RejectReq, RejectPcs, HeldBy, NeedsTime, NeedsTokens, Deciding
    <3>3. Moves(r)
      BY <3>1, <3>2 DEF Moves
    <3> QED BY <2>1, <2>3, <2>5, <3>1, <3>2, <3>3, <1>RejectStays
  <2> QED
    BY <2>1, <2>7, <2>8
\* A request that lost a race begins anew.
<1>RejectRestart.
      ASSUME Base, RejectInv, NEW r \in Req, req[r].pc \in RejectPcs, req[r].pc # "stamp",
             Again(r, "reject"),
             UNCHANGED <<rule, times, tokens, heap, lost, refill, overlapped, free>>
      PROVE  RejectInv'
  <2> USE <1>RejectRestart
  <2> DEFINE k == req[r].arg
             n == [Rest("reject", k) EXCEPT !.batch = req[r].batch]
  <2>1. req' = [req EXCEPT ![r] = n]
    BY DEF Again, Set
  <2>2. /\ rule.behavior = "Reject" /\ k \in Args /\ RejectReq(req[r])
    BY <1>RejectFact
  <2>3. n.pc = "reject" /\ n.arg = k /\ n.batch = req[r].batch
    <3>1. "reject" \in {"reject", "throttle"} /\ "reject" # "throttle"
      BY SMT
    <3> QED BY <3>1, AgainFact
  <2> HIDE DEF n
  <2>4. OnlyReq(r) /\ req'[r] = n
    BY <2>1, ReqStep
  <2>5. RejectReq(n)
    <3>1. req[r].batch >= 1 /\ req[r].batch <= MaxCount(k)
      BY <2>2 DEF RejectReq
    <3> QED BY SMT, <2>3, <3>1 DEF RejectReq
  <2>6. HeldBy(n, times', tokens') /\ n.pc \notin {"fill", "stamp"} /\ n.pc \notin Deciding
    BY SMT, <2>3 DEF HeldBy, NeedsTime, NeedsTokens, Deciding
  <2>7. Moves(r)
    BY <2>4, <2>6 DEF Moves
  <2> QED
    BY <2>2, <2>3, <2>4, <2>5, <2>7, <1>RejectStays
\* A request looks the tokens up.
<1>RejectGetTokens.
      ASSUME Base, RejectInv, NEW r \in Req, GetTokens(r)
      PROVE  RejectInv'
  <2> USE <1>RejectGetTokens
  <2> DEFINE k == req[r].arg
             m == [req[r] EXCEPT !.pc = "left", !.ptr = CellOf(tokens, k)]
             n == [Rest("reject", k) EXCEPT !.batch = req[r].batch]
             x == req'[r]
  <2>1. /\ req[r].pc = "take" /\ tokens' = Get(tokens, k)
        /\ (Has(tokens, k) /\ req' = [req EXCEPT ![r] = m])
           \/ (~Has(tokens, k) /\ req' = [req EXCEPT ![r] = n])
        /\ UNCHANGED <<rule, times, heap, lost, refill, overlapped, free>>
    BY DEF GetTokens, Again, At, Set, ghosts
  <2>2. req[r].pc \in RejectPcs
    BY SMT, <2>1 DEF RejectPcs
  <2>3. /\ rule.behavior = "Reject" /\ k \in Args /\ RejectReq(req[r]) /\ req[r] \in Request
        /\ Cache(tokens)
    BY <2>2, <1>RejectFact, ReqFact DEF Base, Shape, TypeOK
  <2>4. /\ n.pc = "reject" /\ n.arg = k /\ n.batch = req[r].batch
        /\ m.pc = "left" /\ m.arg = k /\ m.batch = req[r].batch /\ m.ptr = CellOf(tokens, k)
    <3>1. "reject" \in {"reject", "throttle"} /\ "reject" # "throttle"
      BY SMT
    <3>2. m.pc = "left" /\ m.arg = k /\ m.batch = req[r].batch /\ m.ptr = CellOf(tokens, k)
      BY SMT, <2>3 DEF Request
    <3> QED BY <2>2, <3>1, <3>2, AgainFact
  <2> HIDE DEF m, n
  <2>5. /\ OnlyReq(r) /\ x.arg = k /\ x.batch = req[r].batch
        /\ (Has(tokens, k) /\ x.pc = "left" /\ x.ptr = CellOf(tokens, k)) \/ x.pc = "reject"
    BY <2>1, <2>4, ReqStep
  <2> HIDE DEF x
  <2>6. \A a \in Args : SameEntry(tokens, tokens', a)
    BY <2>1, <2>3, GetFact DEF SameMap, SameEntry
  <2>7. RejectReq(x)
    <3>1. req[r].batch >= 1 /\ req[r].batch <= MaxCount(k)
      BY <2>2, <2>3 DEF RejectReq
    <3> QED BY SMT, <2>5, <3>1 DEF RejectReq
  <2>8. Moves(r)
    <3>1. Has(tokens, k) => Has(tokens', k) /\ CellOf(tokens', k) = CellOf(tokens, k)
      BY <2>3, <2>6 DEF SameEntry
    <3>2. HeldBy(x, times', tokens') /\ x.pc \notin {"fill", "stamp"} /\ x.pc \notin Deciding
          /\ req[r].pc # "stamp"
      BY SMT, <2>1, <2>5, <3>1 DEF HeldBy, NeedsTime, NeedsTokens, Deciding
    <3> QED BY <3>2 DEF Moves, x
  <2>9. ASSUME NEW a \in Args \ lost'
        PROVE  RejectOk(a)'
    <3>1. RejectOk(a)
      BY <2>1, <2>3 DEF RejectInv
    <3>2. SameEntry(times, times', a) /\ SameCell(times, a) /\ SameCell(tokens, a)
      BY <2>1 DEF SameEntry, SameCell
    <3> QED BY <2>1, <2>5, <2>6, <2>8, <3>1, <3>2, <1>RejectQuiet
  <2> QED
    BY <2>1, <2>3, <2>5, <2>7, <2>9, <1>ReqsStep DEF RejectInv, x
\* A request finds how old the last refill is.
<1>RejectAge.
      ASSUME Base, RejectInv, NEW r \in Req, Age(r)
      PROVE  RejectInv'
  <2> USE <1>RejectAge
  <2> DEFINE k == req[r].arg
             p == req[r].now - heap[req[r].timePtr]
             m == [req[r] EXCEPT !.pc = "refill", !.next = p]
             n == [req[r] EXCEPT !.pc = "take", !.timePtr = 0]
  <2>1. /\ req[r].pc = "age"
        /\ \/ /\ p > rule.duration /\ req' = [req EXCEPT ![r] = m]
              /\ overlapped' = overlapped \cup {a \in {k} : Among(req, a, Refilling) # {}}
           \/ req' = [req EXCEPT ![r] = n] /\ overlapped' = overlapped
        /\ UNCHANGED <<rule, times, tokens, heap, lost, refill, free>>
    BY DEF Age, At, Set, caches, AtAny, Among
  <2>2. req[r].pc \in RejectPcs /\ req[r].pc \in HoldsTime
    BY SMT, <2>1 DEF RejectPcs, HoldsTime
  <2>3. /\ rule.behavior = "Reject" /\ k \in Args /\ RejectReq(req[r]) /\ req[r] \in Request
        /\ k \notin lost => HeldBy(req[r], times, tokens)
    BY <2>2, <1>RejectFact, ReqFact
  <2>4. req[r].batch >= 1 /\ req[r].batch <= MaxCount(k)
    BY <2>2, <2>3 DEF RejectReq
  <2> HIDE DEF p
  <2>5. /\ m.arg = k /\ m.pc = "refill" /\ m.now = req[r].now /\ m.timePtr = req[r].timePtr
        /\ m.batch = req[r].batch
        /\ n.arg = k /\ n.pc = "take" /\ n.batch = req[r].batch
    BY SMT, <2>3 DEF Request
  <2> HIDE DEF m, n
  <2>6. CASE req' = [req EXCEPT ![r] = n] /\ overlapped' = overlapped
    <3>1. OnlyReq(r) /\ req'[r] = n
      BY <2>6, ReqStep
    <3>2. RejectReq(n)
      BY SMT, <2>4, <2>5 DEF RejectReq
    <3>3. HeldBy(n, times', tokens') /\ n.pc \notin {"fill", "stamp"} /\ n.pc \notin Deciding
          /\ req[r].pc # "stamp"
      BY SMT, <2>1, <2>5 DEF HeldBy, NeedsTime, NeedsTokens, Deciding
    <3>4. Moves(r)
      BY <3>1, <3>3 DEF Moves
    <3> QED BY <2>1, <2>3, <2>5, <2>6, <3>1, <3>2, <3>4, <1>RejectStays
  <2>7. CASE /\ p > rule.duration /\ req' = [req EXCEPT ![r] = m]
             /\ overlapped' = overlapped \cup {a \in {k} : Among(req, a, Refilling) # {}}
    <3>1. OnlyReq(r) /\ req'[r] = m
      BY <2>7, ReqStep
    <3>2. RejectReq(m)
      BY SMT, <2>4, <2>5 DEF RejectReq
    <3>3. ASSUME NEW a \in Args \ lost'
          PROVE  RejectOk(a)'
      <4>1. RejectOk(a)
        BY <2>1, <2>3 DEF RejectInv
      <4>2. /\ SameEntry(times, times', a) /\ SameEntry(tokens, tokens', a)
            /\ SameCell(times, a) /\ SameCell(tokens, a) /\ refill'[a] = refill[a]
            /\ (a \notin free' => a \notin free) /\ (a \notin overlapped' => a \notin overlapped)
        BY <2>1, <2>7 DEF SameEntry, SameCell
      <4>3. CASE a # k
        BY <2>1, <2>5, <3>1, <4>1, <4>2, <4>3, <1>RejectQuiet
      <4>4. CASE a = k
        <5>1. /\ HeldBy(req[r], times, tokens) /\ req'[r].arg = a /\ req[r].arg = a
              /\ req'[r].pc = "refill" /\ req'[r].now = req[r].now
          BY <2>1, <2>3, <2>5, <3>1, <4>4
        <5>2. HeldBy(m, times, tokens) /\ Has(times, a) /\ req[r].timePtr = CellOf(times, a)
          BY SMT, <2>1, <2>5, <4>4, <5>1 DEF HeldBy, NeedsTime, NeedsTokens
        <5>3. RejectHeld(a)'
          BY <2>1, <3>1, <4>1, <5>2, <1>HeldStep DEF RejectOk, RejectHeld
        <5>4. LeftOk(a)'
          BY <2>1, <4>1 DEF RejectOk, LeftOk, Left, MaxCount, Limit
        <5>5. /\ "refill" \in Refilling /\ "refill" \in Deciding
              /\ "refill" \notin {"fill", "stamp"}
              /\ req[r].pc \notin Refilling /\ req[r].pc \notin Deciding
              /\ req[r].pc \notin {"fill", "stamp"}
              /\ Deciding \subseteq Refilling /\ {"stamp"} \subseteq Refilling
          BY SMT, <2>1 DEF Refilling, Deciding
        <5>6. /\ Among(req', a, {"fill"}) = Among(req, a, {"fill"})
              /\ r \notin Among(req, a, {"fill"})
              /\ Among(req', a, {"stamp"}) = Among(req, a, {"stamp"})
          <6>1. /\ req'[r].pc \notin {"fill"} /\ req[r].pc \notin {"fill"}
                /\ req'[r].pc \notin {"stamp"} /\ req[r].pc \notin {"stamp"}
            BY SMT, <5>1, <5>5
          <6>2. /\ Among(req', a, {"fill"}) = Among(req, a, {"fill"})
                /\ Among(req', a, {"stamp"}) = Among(req, a, {"stamp"})
            BY <3>1, <6>1, AmongSame
          <6>3. r \notin Among(req, a, {"fill"})
            BY <6>1 DEF Among
          <6> QED BY <6>2, <6>3
        <5>7. Unfilled(a)'
          <6>1. \A q \in Among(req', a, {"fill"}) : req'[q].now = req[q].now
            BY <3>1, <5>6 DEF OnlyReq, Among
          <6> QED BY <2>1, <4>1, <5>6, <6>1 DEF RejectOk, Unfilled, Time
        <5>8. ASSUME a \notin overlapped'
              PROVE  RefillsApart(a)'
          <6>1. Among(req, a, Refilling) = {} /\ RefillsApart(a)
            BY <2>7, <4>1, <4>4, <5>8 DEF RejectOk
          <6>2. /\ \A q \in Among(req', a, Refilling) : q = r
                /\ \A q \in Among(req', a, Deciding) : q = r
            BY <3>1, <5>5, <6>1 DEF Among, OnlyReq
          <6>3. Among(req', a, {"stamp"}) = {} /\ Among(req, a, {"stamp"}) = {}
            BY ZenonT(40), <5>5, <5>6, <6>1 DEF Among
          <6>4. req'[r].now - heap'[CellOf(times', a)] > rule'.duration
            BY <2>1, <2>7, <5>1, <5>2 DEF p
          <6>5. \A q, s \in Among(req', a, Refilling) : q = s
            BY <6>2
          <6>6. \A q \in Among(req', a, Deciding) :
                    req'[q].now - heap'[CellOf(times', a)] > rule'.duration
            BY <6>2, <6>4
          <6>7. Has(times', a) => refill'[a].at <= heap'[CellOf(times', a)]
            BY <2>1, <6>1, <6>3 DEF RefillsApart, Time
          <6>8. refill'[a].before > 0 => refill'[a].at - refill'[a].before > rule'.duration
            BY <2>1, <6>1 DEF RefillsApart
          <6> QED BY <6>3, <6>5, <6>6, <6>7, <6>8 DEF RefillsApart, Time
        <5> QED BY <5>3, <5>4, <5>7, <5>8 DEF RejectOk
      <4> QED BY <4>3, <4>4
    <3> QED BY <2>1, <2>3, <3>1, <3>2, <3>3, <1>ReqsStep DEF RejectInv
  <2> QED
    BY <2>1, <2>6, <2>7
\* A request swaps its tokens off.
<1>RejectSpend.
      ASSUME Base, RejectInv, NEW r \in Req, Spend(r)
      PROVE  RejectInv'
  <2> USE <1>RejectSpend
  <2> DEFINE k == req[r].arg
             n == Rest("passed", k)
             v == heap[req[r].ptr] - req[r].batch
  <2>1. /\ req[r].pc = "spend"
        /\ \/ /\ heap[req[r].ptr] = req[r].seen /\ heap' = [heap EXCEPT ![req[r].ptr] = v]
              /\ req' = [req EXCEPT ![r] = n] /\ Spent(k, req[r].batch)
           \/ Again(r, "reject") /\ UNCHANGED <<heap, refill>>
        /\ UNCHANGED <<rule, times, tokens, lost, overlapped, free>>
    BY DEF Spend, At, End, Set, caches
  <2>2. /\ req[r].pc \in RejectPcs /\ req[r].pc \in HoldsCount /\ req[r].pc # "stamp"
        /\ req[r].pc \notin Refilling /\ "passed" \notin Refilling /\ req[r].pc \notin HoldsTime
    BY SMT, <2>1 DEF RejectPcs, HoldsCount, Refilling, HoldsTime
  <2>3. /\ rule.behavior = "Reject" /\ k \in Args /\ RejectReq(req[r])
        /\ k \notin lost => HeldBy(req[r], times, tokens)
        /\ req[r].batch \in Nat /\ req[r].seen \in Int /\ req[r].ptr \in Cells
        /\ req[r].timePtr = 0 /\ heap \in [Cells -> Int]
        /\ refill \in [Args -> [at : Nat, before : Nat, passed : Nat]]
    BY <2>2, <1>RejectFact, ReqFact, PointerFact DEF Base, Shape, TypeOK, Fits
  <2>4. CASE Again(r, "reject") /\ UNCHANGED <<heap, refill>>
    BY <2>1, <2>2, <2>4, <1>RejectRestart
  <2>5. CASE /\ heap[req[r].ptr] = req[r].seen /\ heap' = [heap EXCEPT ![req[r].ptr] = v]
             /\ req' = [req EXCEPT ![r] = n] /\ Spent(k, req[r].batch)
    <3>1. OnlyReq(r) /\ req'[r] = n
      BY <2>5, ReqStep
    <3>2. n.arg = k /\ n.pc = "passed"
      BY StopFact
    <3> HIDE DEF n
    <3>3. RejectReq(n) /\ HeldBy(n, times', tokens')
      BY SMT, <3>2 DEF RejectReq, RejectPcs, HeldBy, NeedsTime, NeedsTokens
    <3>4. v >= 0 /\ heap'[req[r].ptr] = v
      <4>1. req[r].seen >= req[r].batch
        BY <2>1, <2>2, <2>3 DEF RejectReq
      <4>2. v >= 0
        BY SMT, <2>3, <2>5, <4>1
      <4> QED BY <2>3, <2>5, <4>2
    <3>5. ASSUME NEW a \in Args \ lost'
          PROVE  RejectOk(a)'
      <4>1. RejectOk(a)
        BY <2>1, <2>3 DEF RejectInv
      <4>2. /\ SameEntry(times, times', a) /\ SameEntry(tokens, tokens', a)
            /\ (a \notin free' => a \notin free) /\ (a \notin overlapped' => a \notin overlapped)
        BY <2>1 DEF SameEntry
      <4>3. req[r].ptr # req[r].timePtr
        BY SMT, <2>3 DEF Cells
      <4>4. SameCell(times, a) /\ (a # k => SameCell(tokens, a))
        BY <2>5, <4>3, WriteFrame
      <4>5. CASE a # k
        <5>1. refill'[a] = refill[a]
          BY <2>5, <4>5, <1>RefillFact
        <5> QED BY <2>1, <3>1, <3>2, <4>1, <4>2, <4>4, <4>5, <5>1, <1>RejectQuiet
      <4>6. CASE a = k
        <5>1. /\ refill'[a].at = refill[a].at /\ refill'[a].before = refill[a].before
              /\ refill'[a].passed = refill[a].passed + req[r].batch
          BY <2>5, <4>6, <1>RefillFact
        <5>2. HeldBy(req[r], times, tokens)
          BY <2>1, <2>3, <4>6
        <5>3. Has(tokens, a) /\ req[r].ptr = CellOf(tokens, a)
          BY SMT, <2>1, <4>6, <5>2 DEF HeldBy, NeedsTokens
        <5>4. RejectHeld(a)'
          BY <2>1, <3>1, <3>3, <4>1, <1>HeldStep DEF RejectOk, RejectHeld
        <5>5. LeftOk(a)'
          <6>1. Left(a) = heap[req[r].ptr] /\ heap'[CellOf(tokens', a)] = v /\ Left(a) \in Int
            BY <2>1, <2>3, <3>4, <5>3 DEF Left
          <6>2. a \notin free' => Left(a) + refill[a].passed <= MaxCount(a)
            BY <4>1, <4>2, <5>3 DEF RejectOk, LeftOk
          <6>3. MaxCount(a)' = MaxCount(a) /\ MaxCount(a) \in Int
            BY <2>1, RuleFact DEF MaxCount, Limit
          <6>4. refill[a].passed \in Nat
            BY SMT, <2>3
          <6>5. a \notin free' => v + refill'[a].passed <= MaxCount(a)
            BY SMT, <2>3, <5>1, <6>1, <6>2, <6>3, <6>4
          <6> QED BY <3>4, <6>1, <6>3, <6>5 DEF LeftOk, Left
        <5>6. Unfilled(a)'
          BY <2>1, <5>3 DEF Unfilled
        <5>7. a \notin overlapped' => RefillsApart(a)'
          BY <2>1, <2>2, <3>1, <3>2, <4>1, <4>2, <4>4, <5>1, <1>ApartQuiet DEF RejectOk
        <5> QED BY <5>4, <5>5, <5>6, <5>7 DEF RejectOk
      <4> QED BY <4>5, <4>6
    <3> QED BY <2>1, <2>3, <3>1, <3>3, <3>5, <1>ReqsStep DEF RejectInv
  <2> QED
    BY <2>1, <2>4, <2>5
\* The time of a refill is stored.
<1>RejectStamp.
      ASSUME Base, RejectInv, NEW r \in Req, Stamp(r)
      PROVE  RejectInv'
  <2> USE <1>RejectStamp
  <2> DEFINE k == req[r].arg
             n == Rest("passed", k)
             v == req[r].now
  <2>1. /\ req[r].pc = "stamp" /\ heap' = [heap EXCEPT ![req[r].timePtr] = v]
        /\ req' = [req EXCEPT ![r] = n]
        /\ UNCHANGED <<rule, times, tokens, lost, refill, overlapped, free>>
    BY DEF Stamp, At, End, Set, caches, ghosts
  <2>2. /\ req[r].pc \in RejectPcs /\ req[r].pc \in HoldsTime /\ req[r].pc \notin HoldsCount
        /\ req[r].pc \in Refilling /\ req[r].pc \in NeedsTokens
    BY SMT, <2>1 DEF RejectPcs, HoldsCount, Refilling, HoldsTime, NeedsTokens
  <2>3. /\ rule.behavior = "Reject" /\ k \in Args /\ RejectReq(req[r])
        /\ k \notin lost => HeldBy(req[r], times, tokens)
        /\ v \in Nat /\ req[r].timePtr \in Cells /\ req[r].ptr = 0 /\ heap \in [Cells -> Int]
    BY <2>2, <1>RejectFact, ReqFact, PointerFact DEF Base, Shape, TypeOK, Fits
  <2>4. OnlyReq(r) /\ req'[r] = n
    BY <2>1, ReqStep
  <2>5. n.arg = k /\ n.pc = "passed"
    BY StopFact
  <2> HIDE DEF n
  <2>6. RejectReq(n) /\ HeldBy(n, times', tokens')
    BY SMT, <2>5 DEF RejectReq, RejectPcs, HeldBy, NeedsTime, NeedsTokens
  <2>7. ASSUME NEW a \in Args \ lost'
        PROVE  RejectOk(a)'
    <3>1. RejectOk(a)
      BY <2>1, <2>3 DEF RejectInv
    <3>2. SameEntry(times, times', a) /\ SameEntry(tokens, tokens', a)
      BY <2>1 DEF SameEntry
    <3>3. req[r].ptr # req[r].timePtr
      BY SMT, <2>3 DEF Cells
    <3>4. SameCell(tokens, a) /\ (a # k => SameCell(times, a))
      BY <2>1, <3>3, WriteFrame
    <3>5. CASE a # k
      BY <2>1, <2>4, <2>5, <3>1, <3>2, <3>4, <3>5, <1>RejectQuiet
    <3>6. CASE a = k
      <4>1. HeldBy(req[r], times, tokens)
        BY <2>1, <2>3, <3>6
      <4>2. Has(tokens, a) /\ req[r].timePtr = CellOf(times, a)
        BY SMT, <2>1, <2>2, <3>6, <4>1 DEF HeldBy
      <4>3. RejectHeld(a)'
        <5>1. RejectHeld(a) /\ (Has(tokens, a) => Has(times, a) /\ Limit(a) > 0)
          BY <3>1 DEF RejectOk, RejectHeld
        <5>2. times' = times /\ tokens' = tokens /\ rule' = rule
              /\ HeldBy(req'[r], times', tokens')
          BY <2>1, <2>4, <2>6
        <5> QED BY <5>1, <5>2, <2>4, <1>HeldStep
      <4>4. LeftOk(a)'
        BY <2>1, <3>1, <3>4, <4>2 DEF RejectOk, LeftOk, Left, SameCell, MaxCount, Limit
      <4>5. Unfilled(a)'
        BY <2>1, <4>2 DEF Unfilled
      <4>6. ASSUME a \notin overlapped'
            PROVE  RefillsApart(a)'
        <5>1. RefillsApart(a)
          BY <2>1, <3>1, <4>6 DEF RejectOk
        <5>2. Deciding \subseteq Refilling /\ {"stamp"} \subseteq Refilling
                  /\ "passed" \notin Refilling
          BY SMT DEF Deciding, Refilling
        <5>3. r \in Among(req, a, Refilling) /\ r \in Among(req, a, {"stamp"})
          BY <2>1, <2>2, <3>6 DEF Among
        <5>4. \A q \in Among(req, a, Refilling) : q = r
          BY <5>1, <5>3 DEF RefillsApart
        <5>5. Among(req', a, Refilling) = {}
          BY <2>4, <2>5, <5>2, <5>4 DEF Among, OnlyReq
        <5>6. Among(req', a, Deciding) = {} /\ Among(req', a, {"stamp"}) = {}
          BY <5>2, <5>5 DEF Among
        <5>7. refill'[a].at = v /\ heap'[CellOf(times', a)] = v
          BY <2>1, <2>3, <4>2, <5>1, <5>3 DEF RefillsApart
        <5>8. refill'[a].at <= heap'[CellOf(times', a)]
          BY SMT, <2>3, <5>7
        <5>9. refill'[a].before > 0 => refill'[a].at - refill'[a].before > rule'.duration
          BY <2>1, <5>1 DEF RefillsApart
        <5> QED BY <5>5, <5>6, <5>8, <5>9 DEF RefillsApart, Time
      <4> QED BY <4>3, <4>4, <4>5, <4>6 DEF RejectOk
    <3> QED BY <3>5, <3>6
  <2> QED
    BY <2>1, <2>3, <2>4, <2>6, <2>7, <1>ReqsStep DEF RejectInv
\* A refill by the only request that refills the value comes more than a
\* duration after the one before.
<1>RefillApart.
      ASSUME Base, NEW r \in Req, OnlyReq(r), NEW a \in Args, rule' = rule, RefillsApart(a),
             req[r].arg = a, req'[r].arg = a, req[r].pc \in Deciding, req'[r].pc = "stamp",
             req'[r].now = req[r].now, Has(times, a), SameEntry(times, times', a),
             refill'[a].at = req[r].now, refill'[a].before = refill[a].at
      PROVE  RefillsApart(a)'
  <2> USE <1>RefillApart
  <2>1. /\ Deciding \subseteq Refilling /\ {"stamp"} \subseteq Refilling /\ "stamp" \notin Deciding
        /\ "stamp" \in Refilling
    BY SMT DEF Deciding, Refilling
  <2>2. r \in Among(req, a, Refilling) /\ r \in Among(req, a, Deciding)
    BY <2>1 DEF Among
  <2>3. \A q \in Among(req, a, Refilling) : q = r
    BY <2>2 DEF RefillsApart
  <2>4. Among(req, a, {"stamp"}) = {}
    BY <2>1, <2>3 DEF Among
  <2>5. Among(req', a, Refilling) = Among(req, a, Refilling)
    BY <2>1, AmongSame
  <2>6. \A q \in Among(req', a, Refilling) : q = r
    BY <2>3, <2>5
  <2>7. Among(req', a, Deciding) = {}
    BY <2>1, <2>6 DEF Among
  <2>8. r \in Among(req', a, {"stamp"}) /\ \A q \in Among(req', a, {"stamp"}) : q = r
    BY <2>1, <2>6 DEF Among
  <2>9. refill'[a].before > 0 => refill'[a].at - refill'[a].before > rule'.duration
    <3>1. req[r].now - Time(a) > rule.duration /\ refill[a].at <= Time(a)
      BY <2>2, <2>4 DEF RefillsApart
    <3>2. /\ req[r].now \in Nat /\ rule.duration \in Nat
          /\ heap \in [Cells -> Int] /\ CellOf(times, a) \in Cells
          /\ refill \in [Args -> [at : Nat, before : Nat, passed : Nat]]
      BY ReqFact, RuleFact, CellType DEF Base, Shape, TypeOK
    <3>3. Time(a) \in Int /\ refill[a].at \in Nat
      BY SMT, <3>2 DEF Time
    <3> QED BY SMT, <3>1, <3>2, <3>3
  <2>10. \A q \in Among(req', a, {"stamp"}) : refill'[a].at = req'[q].now
    BY <2>8
  <2>11. \A q, s \in Among(req', a, Refilling) : q = s
    BY <2>6
  <2> QED
    BY <2>7, <2>8, <2>9, <2>10, <2>11 DEF RefillsApart
\* A refill is swapped in.
<1>RejectSwapRefill.
      ASSUME Base, RejectInv, NEW r \in Req, SwapRefill(r)
      PROVE  RejectInv'
  <2> USE <1>RejectSwapRefill
  <2> DEFINE k == req[r].arg
             m == [req[r] EXCEPT !.pc = "stamp"]
             n == [m EXCEPT !.ptr = 0]
             v == req[r].next
  <2>1. /\ req[r].pc = "swap"
        /\ \/ /\ heap' = [heap EXCEPT ![req[r].ptr] = v]
              /\ req' = [req EXCEPT ![r] = n] /\ Refilled(r)
           \/ Again(r, "reject") /\ UNCHANGED <<heap, refill>>
        /\ UNCHANGED <<rule, times, tokens, lost, overlapped, free>>
    BY SMT DEF SwapRefill, At, Set, caches
  <2>2. /\ req[r].pc \in RejectPcs /\ req[r].pc \in HoldsCount /\ req[r].pc # "stamp"
        /\ req[r].pc \in Deciding /\ req[r].pc \in HoldsTime
    BY SMT, <2>1 DEF RejectPcs, HoldsCount, Deciding, HoldsTime
  <2>3. /\ rule.behavior = "Reject" /\ k \in Args /\ RejectReq(req[r])
        /\ k \notin lost => HeldBy(req[r], times, tokens)
        /\ req[r] \in Request /\ req[r].ptr \in Cells /\ req[r].timePtr \in Cells
        /\ heap \in [Cells -> Int] /\ req[r].batch \in Nat /\ v \in Int
    BY <2>2, <1>RejectFact, ReqFact, PointerFact DEF Base, Shape, TypeOK
  <2>4. CASE Again(r, "reject") /\ UNCHANGED <<heap, refill>>
    BY <2>1, <2>2, <2>4, <1>RejectRestart
  <2>5. CASE /\ heap' = [heap EXCEPT ![req[r].ptr] = v]
             /\ req' = [req EXCEPT ![r] = n] /\ Refilled(r)
    <3>1. OnlyReq(r) /\ req'[r] = n
      BY <2>5, ReqStep
    <3>2. /\ n.arg = k /\ n.pc = "stamp" /\ n.now = req[r].now /\ n.timePtr = req[r].timePtr
          /\ n.batch = req[r].batch
      BY SMT, <2>3 DEF Request
    <3> HIDE DEF m, n
    <3>3. req[r].batch >= 1 /\ req[r].batch <= MaxCount(k) /\ v >= 0
              /\ v + req[r].batch <= MaxCount(k)
      BY <2>1, <2>2, <2>3 DEF RejectReq
    <3>4. RejectReq(n)
      BY SMT, <3>2, <3>3 DEF RejectReq
    <3>5. ASSUME NEW a \in Args \ lost'
          PROVE  RejectOk(a)'
      <4>1. RejectOk(a)
        BY <2>1, <2>3 DEF RejectInv
      <4>2. /\ SameEntry(times, times', a) /\ SameEntry(tokens, tokens', a)
            /\ (a \notin free' => a \notin free) /\ (a \notin overlapped' => a \notin overlapped)
        BY <2>1 DEF SameEntry
      <4>3. CASE a # k
        <5>1. refill'[a] = refill[a]
          BY <2>5, <4>3, <1>RefillFact
        <5>2. SameCell(times, a) /\ SameCell(tokens, a)
          BY <2>5, <4>3, WriteFrame
        <5> QED BY <2>1, <3>1, <3>2, <4>1, <4>2, <4>3, <5>1, <5>2, <1>RejectQuiet
      <4>4. CASE a = k
        <5>1. /\ refill'[a].at = req[r].now /\ refill'[a].before = refill[a].at
              /\ refill'[a].passed = req[r].batch
          BY <2>5, <4>4, <1>RefillFact
        <5>2. HeldBy(req[r], times, tokens)
          BY <2>1, <2>3, <4>4
        <5>3. /\ Has(tokens, a) /\ Has(times, a) /\ req[r].ptr = CellOf(tokens, a)
              /\ req[r].timePtr = CellOf(times, a)
          BY SMT, <2>1, <4>4, <5>2 DEF HeldBy, NeedsTokens, NeedsTime
        <5>4. RejectHeld(a)'
          <6>1. HeldBy(n, times, tokens)
            BY SMT, <3>2, <4>4, <5>3 DEF HeldBy
          <6> QED BY <2>1, <3>1, <4>1, <6>1, <1>HeldStep DEF RejectOk, RejectHeld
        <5>5. LeftOk(a)'
          <6>1. heap'[CellOf(tokens', a)] = v
            BY <2>1, <2>3, <2>5, <5>3
          <6>2. MaxCount(a)' = MaxCount(k)
            BY <2>1, <4>4 DEF MaxCount, Limit
          <6> QED BY <3>3, <5>1, <6>1, <6>2 DEF LeftOk, Left
        <5>6. Unfilled(a)'
          BY <2>1, <5>3 DEF Unfilled
        <5>7. a \notin overlapped' => RefillsApart(a)'
          <6>1. a \notin overlapped' => RefillsApart(a)
            BY <4>1, <4>2 DEF RejectOk
          <6> QED BY <2>1, <2>2, <3>1, <3>2, <4>2, <4>4, <5>1, <5>3, <6>1, <1>RefillApart
        <5> QED BY <5>4, <5>5, <5>6, <5>7 DEF RejectOk
      <4> QED BY <4>3, <4>4
    <3> QED BY <2>1, <2>3, <3>1, <3>4, <3>5, <1>ReqsStep DEF RejectInv
  <2> QED
    BY <2>1, <2>4, <2>5
\* A refill looks the tokens up, or puts them in.
<1>RejectRefillTokens.
      ASSUME Base, RejectInv, NEW r \in Req, RefillTokens(r)
      PROVE  RejectInv'
  <2> USE <1>RejectRefillTokens
  <2> DEFINE k == req[r].arg
             m == [req[r] EXCEPT !.pc = "rest", !.ptr = CellOf(tokens, k)]
             n == [req[r] EXCEPT !.pc = "stamp"]
             v == MaxCount(k) - req[r].batch
             x == req'[r]
  <2>1. /\ req[r].pc = "refill" /\ tokens' = AddIfAbsent(tokens, k, Fresh)
        /\ heap' = Stored(tokens, k, v) /\ Loses(tokens, tokens')
        /\ Has(tokens, k) => req' = [req EXCEPT ![r] = m] /\ refill' = refill
        /\ ~Has(tokens, k) => Refilled(r) /\ req' = [req EXCEPT ![r] = n]
        /\ UNCHANGED <<rule, times, overlapped, free>>
    BY DEF RefillTokens, At, Goto, Set
  <2>2. /\ req[r].pc \in RejectPcs /\ req[r].pc # "stamp" /\ req[r].pc \in Deciding
    BY SMT, <2>1 DEF RejectPcs, Deciding
  <2>3. /\ rule.behavior = "Reject" /\ k \in Args /\ RejectReq(req[r]) /\ Limit(k) > 0
        /\ req[r] \in Request /\ Cache(times) /\ Cache(tokens)
        /\ k \notin lost => HeldBy(req[r], times, tokens)
    BY <2>2, <1>RejectFact, ReqFact DEF Base, Shape, TypeOK
  <2>4. req[r].batch \in Nat /\ MaxCount(k) \in Int /\ req[r].batch >= 1
            /\ req[r].batch <= MaxCount(k)
    BY <2>2, <2>3, ReqFact, RuleFact DEF RejectReq
  <2>5. /\ m.arg = k /\ m.pc = "rest" /\ m.batch = req[r].batch /\ m.timePtr = req[r].timePtr
        /\ m.now = req[r].now /\ m.ptr = CellOf(tokens, k)
        /\ n.arg = k /\ n.pc = "stamp" /\ n.batch = req[r].batch /\ n.timePtr = req[r].timePtr
        /\ n.now = req[r].now
    BY SMT, <2>3 DEF Request
  <2> HIDE DEF m, n
  <2>6. /\ OnlyReq(r) /\ x.arg = k /\ x.batch = req[r].batch /\ x.timePtr = req[r].timePtr
        /\ x.now = req[r].now
        /\ Has(tokens, k) => x.pc = "rest" /\ x.ptr = CellOf(tokens, k)
        /\ ~Has(tokens, k) => x.pc = "stamp"
    <3>1. CASE Has(tokens, k)
      <4>1. OnlyReq(r) /\ x = m
        BY <2>1, <3>1, ReqStep
      <4> QED BY <2>5, <3>1, <4>1
    <3>2. CASE ~Has(tokens, k)
      <4>1. OnlyReq(r) /\ x = n
        BY <2>1, <3>2, ReqStep
      <4> QED BY <2>5, <3>2, <4>1
    <3> QED BY <3>1, <3>2
  <2>7. RejectReq(x)
    <3> HIDE DEF x
    <3>1. x.pc \in {"rest", "stamp"}
      BY <2>6
    <3> QED BY SMT, <2>4, <2>6, <3>1 DEF RejectReq
  <2>8. ASSUME NEW a \in Args, a \notin lost'
        PROVE  RejectOk(a)'
    <3>1. rule.behavior # "Concurrency"
      BY SMT, <2>3
    <3>2. /\ a \notin lost /\ (a # k \/ Has(tokens, k) => SameEntry(tokens, tokens', a))
          /\ ~Has(tokens, k) => Has(tokens', k) /\ CellOf(tokens', k) = Fresh
      BY <2>1, <2>3, <2>8, <3>1, AddFrame
    <3>3. RejectOk(a)
      BY <2>3, <3>2 DEF RejectInv
    <3>4. /\ SameCell(times, a) /\ SameCell(tokens, a) /\ SameEntry(times, times', a)
          /\ ~Has(tokens, k) => heap'[Fresh] = v
      BY <2>1, StoredFrame DEF SameEntry
    <3>5. CASE a # k
      <4>1. refill'[a] = refill[a]
        BY <2>1, <3>5, <1>RefillFact
      <4> QED BY <2>1, <2>6, <3>2, <3>3, <3>4, <3>5, <4>1, <1>RejectQuiet
    <3>6. ASSUME a = k
          PROVE  Has(times, a) /\ req[r].timePtr = CellOf(times, a)
      <4>1. HeldBy(req[r], times, tokens)
        BY <2>3, <3>2, <3>6
      <4> QED BY SMTT(40), <2>1, <3>6, <4>1 DEF HeldBy, NeedsTime
    <3>7. CASE a = k /\ Has(tokens, k)
      <4>1. SameEntry(tokens, tokens', a) /\ Has(tokens', k)
                /\ CellOf(tokens', k) = CellOf(tokens, k)
        BY <3>2, <3>7 DEF SameEntry
      <4>2. HeldBy(x, times', tokens')
        <5> HIDE DEF x
        <5>1. /\ x.pc = "rest" /\ x.ptr = CellOf(tokens', k) /\ x.timePtr = CellOf(times', k)
              /\ Has(times', k) /\ Has(tokens', k) /\ x.arg = k
          BY <2>1, <2>6, <3>6, <3>7, <4>1
        <5> QED BY SMT, <5>1 DEF HeldBy
      <4>3. x.pc \notin {"fill", "stamp"}
        <5> HIDE DEF x
        <5> QED BY SMT, <2>6, <3>7
      <4>4. Moves(r)
        BY <2>2, <2>6, <4>2, <4>3 DEF Moves
      <4> QED BY <2>1, <2>6, <3>3, <3>4, <3>7, <4>1, <4>4, <1>RejectQuiet
    <3>8. CASE a = k /\ ~Has(tokens, k)
      <4>1. /\ refill'[a].at = req[r].now /\ refill'[a].before = refill[a].at
            /\ refill'[a].passed = req[r].batch
        BY <2>1, <3>8, <1>RefillFact
      <4>2. Has(tokens', a) /\ CellOf(tokens', a) = Fresh /\ heap'[Fresh] = v
        BY <3>2, <3>4, <3>8
      <4>3. HeldBy(x, times', tokens')
        <5> HIDE DEF x
        <5>1. /\ x.pc = "stamp" /\ x.timePtr = CellOf(times', k)
              /\ Has(times', k) /\ Has(tokens', k) /\ x.arg = k
          BY <2>1, <2>6, <3>6, <3>8, <4>2
        <5> QED BY SMT, <5>1 DEF HeldBy
      <4>4. RejectHeld(a)'
        BY <2>1, <2>3, <2>6, <3>3, <3>6, <3>8, <4>2, <4>3, <1>HeldStep DEF RejectOk
      <4>5. LeftOk(a)'
        <5>1. v >= 0 /\ v + refill'[a].passed <= MaxCount(k)
          BY SMT, <2>4, <4>1
        <5>2. MaxCount(a)' = MaxCount(k)
          BY <2>1, <3>8 DEF MaxCount, Limit
        <5> QED BY <4>2, <5>1, <5>2 DEF LeftOk, Left
      <4>6. Unfilled(a)'
        BY <4>2 DEF Unfilled
      <4>7. a \notin overlapped' => RefillsApart(a)'
        <5>1. a \notin overlapped' => RefillsApart(a)
          BY <2>1, <3>3 DEF RejectOk
        <5> QED BY <2>1, <2>2, <2>6, <3>4, <3>6, <3>8, <4>1, <5>1, <1>RefillApart
      <4> QED BY <4>4, <4>5, <4>6, <4>7 DEF RejectOk
    <3> QED BY <3>5, <3>7, <3>8
  <2> QED
    BY <2>1, <2>3, <2>6, <2>7, <2>8, <1>ReqsStep DEF RejectInv
<1>1. CASE UNCHANGED <<rule, times, tokens, conc, heap, req, ghosts>>
  BY <1>1, <1>RejectTick
<1>2. ASSUME NEW r \in Req, RejectStep(r)
      PROVE  RejectInv'
  <2>1. CASE RejectLoop(r) \/ FirstFill(r) \/ Age(r) \/ RefillTokens(r) \/ RestQps(r)
    BY <2>1, <1>RejectRejectLoop, <1>RejectFirstFill, <1>RejectAge, <1>RejectRefillTokens,
       <1>RejectRestQps
  <2>2. CASE SwapRefill(r) \/ Stamp(r) \/ GetTokens(r) \/ LoadTokens(r) \/ Spend(r)
    BY <2>2, <1>RejectSwapRefill, <1>RejectStamp, <1>RejectGetTokens, <1>RejectLoadTokens,
       <1>RejectSpend
  <2> QED BY <1>2, <2>1, <2>2 DEF RejectStep
<1>3. ASSUME NEW r \in Req, ConcStep(r) \/ ThrottleStep(r)
      PROVE  RejectInv'
  <2>1. rule.behavior \in {"Concurrency", "Throttling"} /\ rule' = rule
    BY <1>3, StepFits
  <2>2. rule'.behavior # "Reject"
    BY SMT, <2>1
  <2> QED BY <2>2 DEF RejectInv
<1> QED
  BY <1>1, <1>2, <1>3, NextCases, <1>RejectCheck

\* Nothing has been filled in the beginning.
LEMMA RejectInit == Init => RejectInv
<1> SUFFICES ASSUME Init
             PROVE  (\A q \in Req : RejectReq(req[q])) /\ \A a \in Args : RejectOk(a)
  BY DEF RejectInv
<1>1. times = <<>> /\ tokens = <<>> /\ \A r \in Req : req[r].pc = "idle"
  <2>1. Idle.pc = "idle"
    BY SMT DEF Idle
  <2> QED BY <2>1 DEF Init
<1>2. \A a \in Args : ~Has(times, a) /\ ~Has(tokens, a)
  BY SMT, <1>1 DEF Has
<1>3. /\ "idle" \notin RejectPcs /\ "idle" \notin NeedsTime /\ "idle" \notin NeedsTokens
      /\ "idle" \notin {"age", "refill", "rest", "swap", "stamp"}
      /\ "idle" \notin {"rest", "swap", "left", "spend"} /\ "idle" \notin {"fill"}
      /\ "idle" \notin Refilling /\ "idle" \notin Deciding /\ "idle" \notin {"stamp"}
  BY SMT DEF RejectPcs, NeedsTime, NeedsTokens, Refilling, Deciding
<1>4. \A q \in Req : RejectReq(req[q])
  BY <1>1, <1>3 DEF RejectReq
<1>5. ASSUME NEW a \in Args
      PROVE  RejectOk(a)
  <2>1. RejectHeld(a) /\ LeftOk(a)
    BY <1>1, <1>2, <1>3 DEF RejectHeld, HeldBy, LeftOk
  <2>2. refill[a].at = 0 /\ refill[a].passed = 0 /\ refill[a].before = 0
    BY SMT DEF Init
  <2>3. /\ Among(req, a, {"fill"}) = {} /\ Among(req, a, Refilling) = {}
        /\ Among(req, a, Deciding) = {} /\ Among(req, a, {"stamp"}) = {}
    BY <1>1, <1>3 DEF Among
  <2>4. ~(refill[a].before > 0)
    BY SMT, <2>2
  <2> QED BY <1>2, <2>1, <2>2, <2>3, <2>4 DEF RejectOk, Unfilled, RefillsApart
<1> QED
  BY <1>4, <1>5

----------------------------------------------------------------------------
(* Throttling                                                                *)

\* The slots of a value.
LEMMA SlotType ==
    ASSUME Base, NEW a \in Args, NEW s \in slots[a]
    PROVE  s.at \in Int /\ s.cost \in Int
<1>1. slots \in [Args -> SUBSET [at : Int, cost : Int, by : Req]]
  BY DEF Base, Shape, TypeOK
<1>2. s \in [at : Int, cost : Int, by : Req]
  BY <1>1
<1> QED
  BY SMT, <1>2

\* The interval of a request, and what it knows of the time it read.
Cost(q) == (q.batch * rule.duration) \div Limit(q.arg)
ThrottleReq(q) ==
    /\ q.pc = "claim" /\ ~q.first => q.seen + Cost(q) <= q.next
    /\ q.pc = "await" => q.first

\* The request that has put the variable of its value in, until it waits.
Leader(q) == q.pc \in {"last", "claim", "await"} /\ q.first
Leaders(m, a) == {q \in Req : m[q].arg = a /\ Leader(m[q])}

\* While no entry was evicted, a request waits at the variable of the cache, and
\* one request is the first.
Waiting == {"last", "claim", "await", "store"}
OnTime(q, t) == q.pc \in Waiting => Has(t, q.arg) /\ q.timePtr = CellOf(t, q.arg)
ThrottleHeld(a) ==
    /\ slots[a] # {} => Has(times, a)
    /\ \A q \in Req : req[q].arg = a => OnTime(req[q], times)
    /\ \A q, s \in Leaders(req, a) : q = s

\* Nothing has passed after x, and the first request will not pass after x.
NotAfter(S, m, a, x) == (\A s \in S : s.at <= x) /\ \A q \in Leaders(m, a) : m[q].now <= x
Spaced(s, t) == s = t \/ s.at + t.cost <= t.at \/ t.at + s.cost <= s.at
SlotsApart(a) ==
    /\ \A q, s \in Among(req, a, {"store"}) : q = s
    /\ Has(times, a) /\ Among(req, a, {"store"}) = {} => NotAfter(slots[a], req, a, Time(a))
    /\ \A q \in Among(req, a, {"store"}) :
         NotAfter(slots[a], req, a, req[q].next - Cost(req[q]))
    /\ \A q \in Leaders(req, a) : \A s \in slots[a] : req[q].now + s.cost <= s.at
    /\ \A s, t \in slots[a] : Spaced(s, t)
    /\ \A s \in slots[a] : s.cost >= 0
ThrottleOk(a) == ThrottleHeld(a) /\ (a \notin overtaken => SlotsApart(a))
ThrottleInv ==
    rule.behavior = "Throttling" =>
        (\A q \in Req : ThrottleReq(req[q])) /\ \A a \in Args \ lost : ThrottleOk(a)

\* Request r does not become the first of its value.
Follows(r) ==
    Leader(req'[r]) => Leader(req[r]) /\ req'[r].arg = req[r].arg /\ req'[r].now = req[r].now

\* The slot of a request that passes.
Slot(r, x) == [at |-> x, cost |-> IntervalCost(r), by |-> r]

\* Every step keeps the invariant of the throttling controller.
LEMMA ThrottleNext ==
    ASSUME Base, ThrottleInv, [Next]_vars
    PROVE  ThrottleInv'
\* The pointers of a value after a step of request r.
<1>OnTimeStep.
      ASSUME NEW r \in Req, OnlyReq(r), NEW a \in Args, ThrottleHeld(a),
             Has(times, a) => Has(times', a) /\ CellOf(times', a) = CellOf(times, a),
             req'[r].arg = a => OnTime(req'[r], times')
      PROVE  \A q \in Req : req'[q].arg = a => OnTime(req'[q], times')
  <2> USE <1>OnTimeStep
  <2>1. ASSUME NEW q \in Req, req'[q].arg = a
        PROVE  OnTime(req'[q], times')
    <3>1. CASE q = r
      BY <2>1, <3>1
    <3>2. CASE q # r
      <4> DEFINE p == req'[q]
      <4>1. OnTime(p, times) /\ p.arg = a
        BY <2>1, <3>2 DEF ThrottleHeld, OnlyReq
      <4> HIDE DEF p
      <4>2. OnTime(p, times')
        BY <4>1 DEF OnTime
      <4> QED BY <4>2 DEF p
    <3> QED BY <3>1, <3>2
  <2> QED
    BY <2>1
\* Then the first requests of a value are among those before.
<1>LeadersStep.
      ASSUME NEW r \in Req, OnlyReq(r), NEW a \in Args,
             (a # req[r].arg /\ req'[r].arg = req[r].arg) \/ Follows(r)
      PROVE  \A q \in Leaders(req', a) : q \in Leaders(req, a) /\ req'[q].now = req[q].now
  <2> USE <1>LeadersStep
  <2>1. ASSUME NEW q \in Leaders(req', a), q # r
        PROVE  q \in Leaders(req, a) /\ req'[q].now = req[q].now
    BY <2>1 DEF Leaders, OnlyReq
  <2>2. ASSUME r \in Leaders(req', a)
        PROVE  r \in Leaders(req, a) /\ req'[r].now = req[r].now
    <3>1. Leader(req'[r]) /\ req'[r].arg = a
      BY <2>2 DEF Leaders
    <3>2. Leader(req[r]) /\ req[r].arg = a /\ req'[r].now = req[r].now
      BY <3>1 DEF Follows
    <3> QED BY <3>2 DEF Leaders
  <2> QED
    BY <2>1, <2>2
\* What may pass no later than x stays so when nothing passes.
<1>NotAfterStep.
      ASSUME NEW a, NEW x, NEW S, NotAfter(S, req, a, x),
             \A q \in Leaders(req', a) : q \in Leaders(req, a) /\ req'[q].now = req[q].now
      PROVE  NotAfter(S, req', a, x)
  BY <1>NotAfterStep DEF NotAfter
\* A value that a step does not concern, or of which a request only moves on.
<1>ThrottleQuiet.
      ASSUME NEW r \in Req, OnlyReq(r), NEW a \in Args, rule' = rule, ThrottleOk(a),
             \/ a # req[r].arg /\ req'[r].arg = req[r].arg
             \/ /\ Follows(r) /\ OnTime(req'[r], times')
                /\ req[r].pc \notin {"store"} /\ req'[r].pc \notin {"store"},
             SameEntry(times, times', a), SameCell(times, a), slots'[a] = slots[a],
             a \notin overtaken' => a \notin overtaken
      PROVE  ThrottleOk(a)'
  <2> USE <1>ThrottleQuiet
  <2>1. \A q \in Leaders(req', a) : q \in Leaders(req, a) /\ req'[q].now = req[q].now
    BY <1>LeadersStep
  <2>2. ThrottleHeld(a) /\ (a \notin overtaken => SlotsApart(a))
    BY DEF ThrottleOk
  <2>3. Has(times', a) = Has(times, a) /\ (Has(times, a) => CellOf(times', a) = CellOf(times, a))
        /\ (Has(times, a) => heap'[CellOf(times', a)] = heap[CellOf(times, a)])
    BY DEF SameEntry, SameCell
  <2>4. ThrottleHeld(a)'
    <3>1. \A q \in Req : req'[q].arg = a => OnTime(req'[q], times')
      BY <2>2, <2>3, <1>OnTimeStep
    <3>2. slots'[a] # {} => Has(times', a)
      BY <2>2, <2>3 DEF ThrottleHeld
    <3>3. \A q, s \in Leaders(req', a) : q = s
      BY <2>1, <2>2 DEF ThrottleHeld
    <3> QED BY <3>1, <3>2, <3>3 DEF ThrottleHeld
  <2>5. ASSUME a \notin overtaken'
        PROVE  SlotsApart(a)'
    <3>1. SlotsApart(a)
      BY <2>2, <2>5
    <3>2. Among(req', a, {"store"}) = Among(req, a, {"store"})
      BY AmongSame
    <3>3. \A q \in Among(req, a, {"store"}) : req'[q] = req[q]
      BY DEF Among, OnlyReq
    <3>4. \A q, s \in Among(req', a, {"store"}) : q = s
      BY <3>1, <3>2 DEF SlotsApart
    <3>5. Has(times', a) /\ Among(req', a, {"store"}) = {}
             => NotAfter(slots'[a], req', a, heap'[CellOf(times', a)])
      BY <2>1, <2>3, <3>1, <3>2, <1>NotAfterStep DEF SlotsApart, Time
    <3>6. ASSUME NEW q \in Among(req', a, {"store"})
          PROVE  NotAfter(slots'[a], req', a, req'[q].next - Cost(req'[q]))
      <4>1. NotAfter(slots[a], req, a, req[q].next - Cost(req[q])) /\ req'[q] = req[q]
        BY <3>1, <3>2, <3>3 DEF SlotsApart
      <4>2. NotAfter(slots[a], req', a, req[q].next - Cost(req[q]))
        BY <2>1, <4>1, <1>NotAfterStep
      <4> QED BY <4>1, <4>2
    <3>7. \A q \in Among(req', a, {"store"}) :
              NotAfter(slots[a], req, a, req[q].next - Cost(req[q]))'
      BY <3>6 DEF Cost, Limit, NotAfter, Leaders, Leader
    <3>8. \A q \in Leaders(req', a) : \A s \in slots'[a] : req'[q].now + s.cost <= s.at
      BY <2>1, <3>1 DEF SlotsApart
    <3>9. /\ \A s, t \in slots'[a] : Spaced(s, t)
          /\ \A s \in slots'[a] : s.cost >= 0
      BY <3>1 DEF SlotsApart
    <3> QED BY <3>4, <3>5, <3>7, <3>8, <3>9 DEF SlotsApart, Time
  <2> QED
    BY <2>4, <2>5 DEF ThrottleOk
\* The clock.
<1>ThrottleTick.
      ASSUME ThrottleInv, UNCHANGED <<rule, times, tokens, heap, req, ghosts>>
      PROVE  ThrottleInv'
  <2> USE <1>ThrottleTick
  <2>1. UNCHANGED <<rule, times, heap, req, lost, slots, overtaken>>
    BY DEF ghosts
  <2>2. \A a \in Args : (ThrottleHeld(a) => ThrottleHeld(a)')
    BY <2>1 DEF ThrottleHeld
  <2>3. \A a \in Args : (SlotsApart(a) => SlotsApart(a)')
    BY <2>1 DEF SlotsApart, Time, Cost, Limit
  <2>4. (\A q \in Req : ThrottleReq(req[q])) => (\A q \in Req : ThrottleReq(req[q]))'
    BY <2>1 DEF ThrottleReq, Cost, Limit
  <2> QED
    BY <2>1, <2>2, <2>3, <2>4 DEF ThrottleInv, ThrottleOk
\* The requests keep what they know, where r does.
<1>ThrottleReqsStep.
      ASSUME ThrottleInv, NEW r \in Req, OnlyReq(r), rule' = rule, rule.behavior = "Throttling",
             ThrottleReq(req'[r])
      PROVE  (\A q \in Req : ThrottleReq(req[q]))'
  <2> USE <1>ThrottleReqsStep
  <2>1. \A q \in Req : ThrottleReq(req'[q])
    BY DEF OnlyReq, ThrottleInv
  <2> QED
    BY <2>1 DEF ThrottleReq, Cost, Limit
\* What holds of a request that is being throttled.
<1>ThrottleFact.
      ASSUME Base, ThrottleInv, NEW r \in Req, req[r].pc \in ThrottlePcs
      PROVE  /\ rule.behavior = "Throttling" /\ req[r].arg \in Args /\ ThrottleReq(req[r])
             /\ Cost(req[r]) \in Nat /\ IntervalCost(r) = Cost(req[r])
             /\ req[r].arg \notin lost => ThrottleOk(req[r].arg) /\ OnTime(req[r], times)
  <2> USE <1>ThrottleFact
  <2>1. rule.behavior = "Throttling" /\ req[r].arg \in Args
    BY ReqFact DEF Fits
  <2>2. IntervalCost(r) = Cost(req[r]) /\ IntervalCost(r) \in Nat
    BY CostFact DEF IntervalCost, Cost
  <2>3. ThrottleReq(req[r]) /\ (req[r].arg \notin lost => ThrottleOk(req[r].arg))
    BY <2>1 DEF ThrottleInv
  <2>4. req[r].arg \notin lost => OnTime(req[r], times)
    BY <2>3 DEF ThrottleOk, ThrottleHeld
  <2> QED
    BY <2>1, <2>2, <2>3, <2>4
\* A step of request r that writes nothing.
<1>ThrottleStays.
      ASSUME Base, ThrottleInv, NEW r \in Req, rule.behavior = "Throttling", OnlyReq(r),
             ThrottleReq(req'[r]), Follows(r), req[r].pc # "store", req'[r].pc # "store",
             \/ req'[r].pc \notin Waiting
             \/ req'[r].arg = req[r].arg /\ (req[r].arg \notin lost => OnTime(req'[r], times)),
             UNCHANGED <<rule, times, heap, lost, slots, overtaken>>
      PROVE  ThrottleInv'
  <2> USE <1>ThrottleStays
  <2>1. ASSUME NEW a \in Args \ lost
        PROVE  ThrottleOk(a)'
    <3>1. ThrottleOk(a) /\ SameEntry(times, times', a) /\ SameCell(times, a)
      BY DEF ThrottleInv, SameEntry, SameCell
    <3>2. req[r].pc \notin {"store"} /\ req'[r].pc \notin {"store"}
      OBVIOUS
    <3>3. CASE req'[r].pc \notin Waiting
      <4>1. OnTime(req'[r], times')
        BY <3>3 DEF OnTime
      <4> QED BY <3>1, <3>2, <4>1, <1>ThrottleQuiet
    <3>4. CASE req'[r].arg = req[r].arg /\ (req[r].arg \notin lost => OnTime(req'[r], times))
      <4>1. (a # req[r].arg /\ req'[r].arg = req[r].arg) \/ OnTime(req'[r], times')
        BY <3>4
      <4> QED BY <3>1, <3>2, <4>1, <1>ThrottleQuiet
    <3> QED BY <3>3, <3>4
  <2> QED
    BY <2>1, <1>ThrottleReqsStep DEF ThrottleInv
\* Slot.Check starts a goroutine when it may.
<1>ThrottleCheck.
      ASSUME Base, ThrottleInv, NEW r \in Req, Check(r)
      PROVE  ThrottleInv'
  <2> USE <1>ThrottleCheck
  <2> SUFFICES ASSUME rule.behavior = "Throttling"
               PROVE  ThrottleInv'
    BY DEF ThrottleInv, Check
  <2>1. UNCHANGED <<rule, times, heap, lost, slots, overtaken>> /\ req[r].pc = "idle"
    BY DEF Check, At, caches, ghosts
  <2>2. PICK n \in Request :
           req' = [req EXCEPT ![r] = n] /\ n.pc \in {"count", "blocked", "reject", "throttle"}
    BY CheckShape
  <2>3. OnlyReq(r) /\ req'[r] = n
    BY <2>2, ReqStep
  <2>4. ThrottleReq(n) /\ ~Leader(n) /\ n.pc # "store" /\ n.pc \notin Waiting /\ req[r].pc # "store"
    BY SMT, <2>1, <2>2 DEF ThrottleReq, Leader, Waiting
  <2> QED
    BY <2>1, <2>3, <2>4, <1>ThrottleStays DEF Follows
\* A throttled request reads the last time.
<1>ThrottleLoadLast.
      ASSUME Base, ThrottleInv, NEW r \in Req, LoadLast(r)
      PROVE  ThrottleInv'
  <2> USE <1>ThrottleLoadLast
  <2> DEFINE k == req[r].arg
             q == heap[req[r].timePtr]
             v == ExpectedTime(r, q, Current(r))
             m == [req[r] EXCEPT !.pc = "claim", !.seen = q, !.next = v]
             n == Rest("blocked", req[r].arg)
  <2>1. /\ req[r].pc = "last"
        /\ req' = [req EXCEPT ![r] = m] \/ req' = [req EXCEPT ![r] = n]
        /\ UNCHANGED <<rule, times, heap, lost, slots, overtaken>>
    BY DEF LoadLast, At, Set, End, caches, ghosts
  <2>2. req[r].pc \in ThrottlePcs \cap HoldsTime /\ req[r].pc # "store" /\ req[r].pc \in Waiting
        /\ req[r].pc \in {"last", "claim", "await"}
    BY SMT, <2>1 DEF HoldsTime, ThrottlePcs, Waiting
  <2>3. /\ rule.behavior = "Throttling" /\ k \in Args /\ req[r] \in Request
        /\ Cost(req[r]) \in Nat /\ IntervalCost(r) = Cost(req[r])
        /\ k \notin lost => OnTime(req[r], times)
        /\ q \in Int /\ v \in Int /\ req[r].now \in Nat /\ rule.duration \in Nat
    BY <2>2, <1>ThrottleFact, ReqFact, TimeFact, RuleFact
  <2>4. ~req[r].first => q + Cost(req[r]) <= v
    <3>1. ~req[r].first => v = IF q < req[r].now - rule.duration
                               THEN req[r].now - rule.duration + Cost(req[r])
                               ELSE q + Cost(req[r])
      BY <2>3 DEF ExpectedTime, Current
    <3> HIDE DEF q, v
    <3> QED BY SMT, <2>3, <3>1
  <2> HIDE DEF q, v
  <2>5. /\ m.pc = "claim" /\ m.arg = k /\ m.timePtr = req[r].timePtr /\ m.seen = q /\ m.next = v
        /\ m.first = req[r].first /\ m.now = req[r].now /\ m.batch = req[r].batch
    BY SMT, <2>3 DEF Request
  <2>6. n.pc = "blocked"
    BY StopFact
  <2> HIDE DEF m, n
  <2>7. CASE req' = [req EXCEPT ![r] = m]
    <3>1. OnlyReq(r) /\ req'[r] = m
      BY <2>7, ReqStep
    <3>2. Cost(m) = Cost(req[r])
      BY <2>5 DEF Cost
    <3>3. ThrottleReq(m)
      BY SMT, <2>4, <2>5, <3>2 DEF ThrottleReq
    <3>4. Follows(r)
      BY <2>2, <2>5, <3>1 DEF Follows, Leader
    <3>5. k \notin lost => OnTime(m, times)
      BY <2>2, <2>3, <2>5 DEF OnTime
    <3>6. m.pc # "store"
      BY SMT, <2>5
    <3> QED BY <2>1, <2>2, <2>3, <2>5, <3>1, <3>3, <3>4, <3>5, <3>6, <1>ThrottleStays
  <2>8. CASE req' = [req EXCEPT ![r] = n]
    <3>1. OnlyReq(r) /\ req'[r] = n
      BY <2>8, ReqStep
    <3>2. ThrottleReq(n) /\ ~Leader(n) /\ n.pc # "store" /\ n.pc \notin Waiting
      BY SMT, <2>6 DEF ThrottleReq, Leader, Waiting
    <3> QED BY <2>1, <2>2, <2>3, <3>1, <3>2, <1>ThrottleStays DEF Follows
  <2> QED
    BY <2>1, <2>7, <2>8
\* A throttled request looks the last time up, or puts it in.
<1>ThrottleThrottleLoop.
      ASSUME Base, ThrottleInv, NEW r \in Req, ThrottleLoop(r)
      PROVE  ThrottleInv'
  <2> USE <1>ThrottleThrottleLoop
  <2> DEFINE k == req[r].arg
             f == ~Has(times, k)
             x == IF Has(times, k) THEN CellOf(times, k) ELSE Fresh
             m == [req[r] EXCEPT !.pc = "last", !.now = clock]
             n == [m EXCEPT !.first = f, !.timePtr = x]
  <2>1. /\ req[r].pc = "throttle" /\ times' = AddIfAbsent(times, k, Fresh)
        /\ heap' = Stored(times, k, clock) /\ Loses(times, times')
        /\ req' = [req EXCEPT ![r] = n]
        /\ UNCHANGED <<rule, slots, overtaken>>
    BY DEF ThrottleLoop, At, Set
  <2>2. req[r].pc \in ThrottlePcs /\ req[r].pc # "store" /\ req[r].pc \notin {"store"}
    BY SMT, <2>1 DEF ThrottlePcs
  <2>3. /\ rule.behavior = "Throttling" /\ k \in Args /\ req[r] \in Request
        /\ Cache(times) /\ clock \in Nat
    BY <2>2, <1>ThrottleFact, ReqFact DEF Base, Shape, TypeOK
  <2>4. /\ Has(times, k) => f = FALSE /\ x = CellOf(times, k)
        /\ ~Has(times, k) => f = TRUE /\ x = Fresh
        /\ Has(times, k) \in BOOLEAN
    BY <2>3, CellType
  <2> HIDE DEF f, x
  <2>5. n.arg = k /\ n.pc = "last" /\ n.now = clock /\ n.timePtr = x /\ n.first = f
    <3>1. m.arg = k /\ m.pc = "last" /\ m.now = clock /\ m = [m EXCEPT !.pc = "last"]
          /\ m \in [pc : {"last"}, arg : Args, batch : Nat, now : Nat, timePtr : Cells \cup {0},
                    ptr : Cells \cup {0}, seen : Int, next : Int, first : BOOLEAN]
      BY <2>3 DEF Request
    <3> HIDE DEF m
    <3> QED BY SMT, <3>1
  <2> HIDE DEF m, n
  <2>6. OnlyReq(r) /\ req'[r] = n
    BY <2>1, ReqStep
  <2>7. ThrottleReq(n)
    BY SMT, <2>5 DEF ThrottleReq
  <2> HIDE DEF k
  <2>8. ASSUME NEW a \in Args, a \notin lost'
        PROVE  ThrottleOk(a)'
    <3>1. rule.behavior # "Concurrency"
      BY SMT, <2>3
    <3>2. /\ a \notin lost /\ (a # k \/ Has(times, k) => SameEntry(times, times', a))
          /\ ~Has(times, k) => Has(times', k) /\ CellOf(times', k) = Fresh
      BY <2>1, <2>3, <2>8, <3>1, AddFrame
    <3>3. ThrottleOk(a)
      BY <2>3, <3>2 DEF ThrottleInv
    <3>4. SameCell(times, a) /\ (~Has(times, k) => heap'[Fresh] = clock)
      BY <2>1, StoredFrame
    <3>5. slots'[a] = slots[a] /\ (a \notin overtaken' => a \notin overtaken)
      BY <2>1
    <3>6. CASE a # k
      BY <2>1, <2>5, <2>6, <3>2, <3>3, <3>4, <3>5, <3>6, <1>ThrottleQuiet DEF k
    <3>7. CASE a = k /\ Has(times, k)
      <4>1. Has(times', k) /\ CellOf(times', k) = CellOf(times, k)
        BY <3>2, <3>7 DEF SameEntry
      <4>2. OnTime(n, times')
        BY <2>4, <2>5, <3>7, <4>1 DEF OnTime
      <4>3. ~Leader(n) /\ n.pc \notin {"store"}
        BY SMT, <2>4, <2>5, <3>7 DEF Leader
      <4> QED BY <2>1, <2>2, <2>6, <3>2, <3>3, <3>4, <3>5, <3>7, <4>2, <4>3, <1>ThrottleQuiet DEF
           Follows
    <3>8. CASE a = k /\ ~Has(times, k)
      <4>1. /\ ~Has(times, a) /\ slots'[a] = {} /\ Has(times', a) /\ CellOf(times', a) = Fresh
            /\ heap'[CellOf(times', a)] = clock
        BY <3>2, <3>3, <3>4, <3>5, <3>8 DEF ThrottleOk, ThrottleHeld
      <4>2. \A q \in Req : req[q].arg = a => req[q].pc \notin Waiting
        BY <3>3, <4>1 DEF ThrottleOk, ThrottleHeld, OnTime
      <4>3. \A q \in Req : req'[q].arg = a /\ q # r => req'[q].pc \notin Waiting
        BY <2>6, <4>2 DEF OnlyReq
      <4>4. {"last", "claim", "await"} \subseteq Waiting /\ "store" \in Waiting /\ "last" # "store"
        BY SMT DEF Waiting
      <4>5. /\ \A q \in Leaders(req', a) : q = r
            /\ Among(req', a, {"store"}) = {}
        BY <2>5, <2>6, <4>3, <4>4 DEF Leaders, Leader, Among
      <4>6. ThrottleHeld(a)'
        <5>1. OnTime(n, times')
          BY <2>4, <2>5, <3>8, <4>1 DEF OnTime
        <5>2. \A q \in Req : req'[q].arg = a => OnTime(req'[q], times')
          BY <2>6, <4>3, <5>1 DEF OnTime
        <5> QED BY <4>1, <4>5, <5>2 DEF ThrottleHeld
      <4>7. NotAfter(slots'[a], req', a, heap'[CellOf(times', a)])
        <5>1. req'[r].now <= clock
          BY SMT, <2>3, <2>5, <2>6
        <5> QED BY <4>1, <4>5, <5>1 DEF NotAfter
      <4>8. SlotsApart(a)'
        BY <4>1, <4>5, <4>7 DEF SlotsApart, Time
      <4> QED BY <4>6, <4>8 DEF ThrottleOk
    <3> QED BY <3>6, <3>7, <3>8
  <2> QED
    BY <2>1, <2>3, <2>6, <2>7, <2>8, <1>ThrottleReqsStep DEF ThrottleInv
\* What passing at x adds to the slots.
<1>SlotFact.
      ASSUME Base, ThrottleInv, NEW r \in Req, req[r].pc \in ThrottlePcs, NEW x \in Int,
             TakesSlot(r, x)
      PROVE  /\ Slot(r, x).at = x /\ Slot(r, x).cost = Cost(req[r])
             /\ slots'[req[r].arg] = slots[req[r].arg] \cup {Slot(r, x)}
             /\ \A a \in Args : a # req[r].arg => slots'[a] = slots[a]
  <2> USE <1>SlotFact
  <2> DEFINE k == req[r].arg
             t == Slot(r, x)
  <2>1. slots' = [slots EXCEPT ![k] = slots[k] \cup {t}]
    BY DEF TakesSlot, Slot
  <2>2. k \in Args /\ slots \in [Args -> SUBSET [at : Int, cost : Int, by : Req]]
        /\ IntervalCost(r) = Cost(req[r])
    BY <1>ThrottleFact DEF Base, Shape, TypeOK
  <2>3. t.at = x /\ t.cost = Cost(req[r])
    BY SMT, <2>2 DEF Slot
  <2> HIDE DEF t
  <2>4. slots'[k] = slots[k] \cup {t} /\ \A a \in Args : a # k => slots'[a] = slots[a]
    BY <2>1, <2>2
  <2> QED
    BY <2>3, <2>4 DEF t
\* A slot is added to slots that are apart.
<1>SpacedStep.
      ASSUME NEW S, NEW t, \A s, u \in S : Spaced(s, u),
             \A s \in S : s.at + t.cost <= t.at \/ t.at + s.cost <= s.at
      PROVE  \A s, u \in S \cup {t} : Spaced(s, u)
  <2> USE <1>SpacedStep
  <2>1. ASSUME NEW s \in S
        PROVE  Spaced(s, t) /\ Spaced(t, s)
    BY DEF Spaced
  <2>2. Spaced(t, t)
    BY DEF Spaced
  <2> QED
    BY <2>1, <2>2
\* Request r passes its interval after all that have passed, and its slot is the
\* new time of the value.
<1>PassesLast.
      ASSUME Base, NEW r \in Req, OnlyReq(r), NEW a \in Args, SlotsApart(a), ~Leader(req'[r]),
             NEW t, t.at \in Int, t.cost \in Nat, slots'[a] = slots[a] \cup {t},
             NotAfter(slots[a], req, a, t.at - t.cost),
             Among(req', a, {"store"}) = {}, heap'[CellOf(times', a)] = t.at
      PROVE  SlotsApart(a)'
  <2> USE <1>PassesLast
  <2>1. \A q \in Leaders(req', a) : q \in Leaders(req, a) /\ req'[q].now = req[q].now
    BY <1>LeadersStep DEF Follows
  <2>2. ASSUME NEW s \in slots[a]
        PROVE  s.at <= t.at /\ s.at + t.cost <= t.at /\ s.cost >= 0
    <3>1. s.at \in Int /\ s.at <= t.at - t.cost /\ s.cost >= 0
      BY SlotType DEF NotAfter, SlotsApart
    <3> QED BY SMT, <3>1
  <2>3. ASSUME NEW q \in Leaders(req', a)
        PROVE  req'[q].now <= t.at /\ req'[q].now + t.cost <= t.at
    <3>1. req'[q].now <= t.at - t.cost /\ req'[q].now \in Nat
      <4>1. q \in Leaders(req, a) /\ req'[q].now = req[q].now
        BY <2>1
      <4>2. q \in Req
        BY <4>1 DEF Leaders
      <4> QED BY <4>1, <4>2, ReqFact DEF NotAfter
    <3> QED BY SMT, <3>1
  <2>4. t.at <= t.at /\ t.cost >= 0
    BY SMT
  <2>5. NotAfter(slots'[a], req', a, heap'[CellOf(times', a)])
    BY <2>2, <2>3, <2>4 DEF NotAfter
  <2>6. \A q \in Leaders(req', a) : \A s \in slots'[a] : req'[q].now + s.cost <= s.at
    BY <2>1, <2>3 DEF SlotsApart
  <2>7. \A s, u \in slots'[a] : Spaced(s, u)
    <3>1. \A s, u \in slots[a] : Spaced(s, u)
      BY DEF SlotsApart
    <3> QED BY <2>2, <3>1, <1>SpacedStep
  <2>8. \A s \in slots'[a] : s.cost >= 0
    BY <2>2, <2>4
  <2> QED
    BY <2>5, <2>6, <2>7, <2>8 DEF SlotsApart, Time
\* The first request passes at the time it has put in, before all others.
<1>PassesFirst.
      ASSUME Base, NEW r \in Req, OnlyReq(r), NEW a \in Args, ThrottleHeld(a), SlotsApart(a),
             r \in Leaders(req, a), req[r].pc \notin {"store"}, req'[r].pc = "passed", rule' = rule,
             NEW t, t.at = req[r].now, t.cost \in Nat, slots'[a] = slots[a] \cup {t},
             UNCHANGED <<times, heap>>
      PROVE  SlotsApart(a)'
  <2> USE <1>PassesFirst
  <2>1. ~Leader(req'[r]) /\ req'[r].pc \notin {"store"}
    BY SMT DEF Leader
  <2>2. Leaders(req', a) = {}
    <3>1. \A q \in Leaders(req', a) : q \in Leaders(req, a)
      BY <2>1, <1>LeadersStep DEF Follows
    <3>2. \A q \in Leaders(req, a) : q = r
      BY DEF ThrottleHeld
    <3>3. r \notin Leaders(req', a)
      BY <2>1 DEF Leaders
    <3> QED BY <3>1, <3>2, <3>3
  <2>3. Among(req', a, {"store"}) = Among(req, a, {"store"})
    BY <2>1, AmongSame
  <2>4. \A q \in Among(req, a, {"store"}) : req'[q] = req[q]
    BY DEF Among, OnlyReq
  <2>5. \A q, s \in Among(req', a, {"store"}) : q = s
    BY <2>3 DEF SlotsApart
  <2>6. ASSUME NEW x, NotAfter(slots[a], req, a, x)
        PROVE  NotAfter(slots'[a], req', a, x)
    BY <2>2, <2>6 DEF NotAfter
  <2>7. Has(times', a) /\ Among(req', a, {"store"}) = {}
           => NotAfter(slots'[a], req', a, heap'[CellOf(times', a)])
    BY <2>3, <2>6 DEF SlotsApart, Time
  <2>8. ASSUME NEW q \in Among(req', a, {"store"})
        PROVE  NotAfter(slots'[a], req', a, req'[q].next - Cost(req'[q]))
    BY <2>3, <2>4, <2>6 DEF SlotsApart
  <2>9. \A q \in Among(req', a, {"store"}) : NotAfter(slots[a], req, a, req[q].next - Cost(req[q]))'
    BY <2>8 DEF Cost, Limit, NotAfter, Leaders, Leader
  <2>10. \A s \in slots[a] : t.at + s.cost <= s.at
    BY DEF SlotsApart
  <2>11. \A s, u \in slots'[a] : Spaced(s, u)
    <3>1. \A s, u \in slots[a] : Spaced(s, u)
      BY DEF SlotsApart
    <3> QED BY <2>10, <3>1, <1>SpacedStep
  <2>12. \A s \in slots'[a] : s.cost >= 0
    <3>1. t.cost >= 0
      BY SMT
    <3> QED BY <3>1 DEF SlotsApart
  <2> QED
    BY <2>2, <2>5, <2>7, <2>9, <2>11, <2>12 DEF SlotsApart, Time
\* A value of which request r passes keeps its pointers and its first request.
<1>PassesHeld.
      ASSUME NEW r \in Req, OnlyReq(r), NEW a \in Args, ThrottleHeld(a), Has(times, a),
             times' = times,
             req'[r].pc = "passed"
      PROVE  ThrottleHeld(a)'
  <2> USE <1>PassesHeld
  <2>1. ~Leader(req'[r]) /\ req'[r].pc \notin Waiting
    BY SMT DEF Leader, Waiting
  <2>2. \A q \in Leaders(req', a) : q \in Leaders(req, a)
    BY <2>1, <1>LeadersStep DEF Follows
  <2>3. \A q \in Req : req'[q].arg = a => OnTime(req'[q], times')
    BY <2>1, <1>OnTimeStep DEF OnTime
  <2>4. \A q, s \in Leaders(req', a) : q = s
    BY <2>2 DEF ThrottleHeld
  <2> QED
    BY <2>3, <2>4 DEF ThrottleHeld
\* A request stores its slot and passes.
<1>ThrottleStoreExpected.
      ASSUME Base, ThrottleInv, NEW r \in Req, StoreExpected(r)
      PROVE  ThrottleInv'
  <2> USE <1>ThrottleStoreExpected
  <2> DEFINE k == req[r].arg
             n == Rest("passed", k)
             v == req[r].next
  <2>1. /\ req[r].pc = "store" /\ req' = [req EXCEPT ![r] = n]
        /\ heap' = [heap EXCEPT ![req[r].timePtr] = v] /\ TakesSlot(r, v)
        /\ UNCHANGED <<rule, times, lost, overtaken>>
    BY DEF StoreExpected, At, Set, End, caches
  <2>2. req[r].pc \in ThrottlePcs /\ req[r].pc \in HoldsTime /\ req[r].pc \in Waiting
    BY SMT, <2>1 DEF ThrottlePcs, HoldsTime, Waiting
  <2>3. /\ rule.behavior = "Throttling" /\ k \in Args /\ Cost(req[r]) \in Nat /\ v \in Int
        /\ heap \in [Cells -> Int] /\ req[r].timePtr \in Cells
        /\ k \notin lost => ThrottleOk(k) /\ OnTime(req[r], times)
    BY <2>2, <1>ThrottleFact, ReqFact, PointerFact DEF Base, Shape, TypeOK
  <2>4. n.arg = k /\ n.pc = "passed"
    BY StopFact
  <2>5. OnlyReq(r) /\ req'[r] = n
    BY <2>1, ReqStep
  <2> HIDE DEF n
  <2>6. ThrottleReq(n) /\ ~Leader(n) /\ n.pc \notin {"store"}
    BY SMT, <2>4 DEF ThrottleReq, Leader
  <2> DEFINE t == Slot(r, v)
  <2>7. /\ t.at = v /\ t.cost = Cost(req[r]) /\ slots'[k] = slots[k] \cup {t}
        /\ \A a \in Args : a # k => slots'[a] = slots[a]
    BY <2>1, <2>2, <2>3, <1>SlotFact
  <2> HIDE DEF t
  <2>8. ASSUME NEW a \in Args \ lost'
        PROVE  ThrottleOk(a)'
    <3>1. CASE a # k
      <4>1. ThrottleOk(a) /\ SameEntry(times, times', a)
        BY <2>1, <2>3 DEF ThrottleInv, SameEntry
      <4>2. SameCell(times, a)
        BY <2>1, <3>1, WriteFrame
      <4>3. slots'[a] = slots[a]
        BY <2>7, <3>1
      <4> QED BY <2>1, <2>4, <2>5, <3>1, <4>1, <4>2, <4>3, <1>ThrottleQuiet
    <3>2. CASE a = k
      <4>1. ThrottleHeld(a) /\ (a \notin overtaken' => SlotsApart(a))
        BY <2>1, <2>3, <3>2 DEF ThrottleOk
      <4>2. Has(times, a) /\ req[r].timePtr = CellOf(times, a)
        BY <2>1, <2>2, <2>3, <3>2 DEF OnTime
      <4>3. ThrottleHeld(a)'
        BY <2>1, <2>4, <2>5, <4>1, <4>2, <1>PassesHeld
      <4>4. ASSUME a \notin overtaken'
            PROVE  SlotsApart(a)'
        <5>1. SlotsApart(a)
          BY <4>1, <4>4
        <5>2. r \in Among(req, a, {"store"})
          BY <2>1, <3>2 DEF Among
        <5>3. NotAfter(slots[a], req, a, t.at - t.cost)
          BY <2>7, <5>1, <5>2 DEF SlotsApart
        <5>4. Among(req', a, {"store"}) = {}
          <6>1. \A q \in Among(req, a, {"store"}) : q = r
            BY <5>1, <5>2 DEF SlotsApart
          <6> QED BY <2>5, <2>6, <6>1 DEF Among, OnlyReq
        <5>5. heap'[CellOf(times', a)] = t.at
          BY <2>1, <2>3, <2>7, <4>2
        <5>6. t.at \in Int /\ t.cost \in Nat
          BY <2>3, <2>7
        <5> QED BY <2>5, <2>6, <2>7, <3>2, <5>1, <5>3, <5>4, <5>5, <5>6, <1>PassesLast
      <4> QED BY <4>3, <4>4 DEF ThrottleOk
    <3> QED BY <3>1, <3>2
  <2> QED
    BY <2>1, <2>3, <2>5, <2>6, <2>8, <1>ThrottleReqsStep DEF ThrottleInv
\* Nobody waits for a slot of the value at whose variable request r
\* is, where r does not overtake.
<1>NobodyStores.
      ASSUME NEW r \in Req, NEW a \in Args, ThrottleHeld(a), req[r].pc # "store",
             req[r].timePtr = CellOf(times, a), ~Unstored(r)
      PROVE  Among(req, a, {"store"}) = {}
  <2> USE <1>NobodyStores
  <2>1. ASSUME NEW q \in Among(req, a, {"store"})
        PROVE  FALSE
    <3>1. q \in Req /\ req[q].arg = a /\ req[q].pc = "store" /\ q # r
      BY <2>1 DEF Among
    <3>2. req[q].pc \in Waiting
      BY SMT, <3>1 DEF Waiting
    <3>3. req[q].timePtr = CellOf(times, a)
      BY <3>1, <3>2 DEF ThrottleHeld, OnTime
    <3> QED BY <3>1, <3>3 DEF Unstored, At
  <2> QED
    BY <2>1
\* Request r is the only one to wait for its slot, which lies its interval after
\* all that have passed.
<1>StoresAlone.
      ASSUME Base, NEW r \in Req, OnlyReq(r), NEW a \in Args, rule' = rule, ThrottleHeld(a),
             SlotsApart(a),
             req[r].arg = a, req'[r].arg = a, req'[r].pc = "store", OnTime(req'[r], times),
             Among(req, a, {"store"}) = {}, slots'[a] = slots[a], times' = times,
             \A q \in Leaders(req', a) : req'[q].now <= req'[r].next - Cost(req'[r]),
             \A s \in slots[a] : s.at <= req'[r].next - Cost(req'[r])
      PROVE  ThrottleHeld(a)' /\ SlotsApart(a)'
  <2> USE <1>StoresAlone
  <2>1. ~Leader(req'[r])
    BY SMT DEF Leader
  <2>2. \A q \in Leaders(req', a) : q \in Leaders(req, a) /\ req'[q].now = req[q].now
    BY <2>1, <1>LeadersStep DEF Follows
  <2>3. ThrottleHeld(a)'
    <3>1. \A q \in Req : req'[q].arg = a => OnTime(req'[q], times')
      BY <1>OnTimeStep
    <3>2. \A q, s \in Leaders(req', a) : q = s
      BY <2>2 DEF ThrottleHeld
    <3> QED BY <3>1, <3>2 DEF ThrottleHeld
  <2>4. r \in Among(req', a, {"store"}) /\ \A q \in Among(req', a, {"store"}) : q = r
    <3>1. req'[r].pc \in {"store"}
      BY SMT
    <3> QED BY <3>1 DEF Among, OnlyReq
  <2>5. NotAfter(slots'[a], req', a, req'[r].next - Cost(req'[r]))
    BY DEF NotAfter
  <2>6. \A q \in Among(req', a, {"store"}) :
            NotAfter(slots'[a], req', a, req'[q].next - Cost(req'[q]))
    BY <2>4, <2>5
  <2>7. \A q \in Among(req', a, {"store"}) : NotAfter(slots[a], req, a, req[q].next - Cost(req[q]))'
    BY <2>6 DEF Cost, Limit, NotAfter, Leaders, Leader
  <2>8. \A q \in Leaders(req', a) : \A s \in slots'[a] : req'[q].now + s.cost <= s.at
    BY <2>2 DEF SlotsApart
  <2>9. /\ \A s, t \in slots'[a] : Spaced(s, t)
        /\ \A s \in slots'[a] : s.cost >= 0
    BY DEF SlotsApart
  <2>10. \A q, s \in Among(req', a, {"store"}) : q = s
    BY <2>4
  <2>11. SlotsApart(a)'
    BY <2>4, <2>7, <2>8, <2>9, <2>10 DEF SlotsApart
  <2> QED
    BY <2>3, <2>11
\* The first request reads its variable once more.
<1>ThrottleAwaitTime.
      ASSUME Base, ThrottleInv, NEW r \in Req, AwaitTime(r)
      PROVE  ThrottleInv'
  <2> USE <1>ThrottleAwaitTime
  <2> DEFINE k == req[r].arg
             m == [req[r] EXCEPT !.pc = "store"]
             n == Rest("passed", k)
  <2>1. /\ req[r].pc = "await"
        /\ \/ req' = [req EXCEPT ![r] = m] /\ Overtakes(r, Unstored(r) \/ slots[k] # {})
                  /\ slots' = slots
           \/ req' = [req EXCEPT ![r] = n] /\ TakesSlot(r, req[r].now) /\ overtaken' = overtaken
        /\ UNCHANGED <<rule, times, heap, lost>>
    BY DEF AwaitTime, At, Goto, Set, End, caches
  <2>2. /\ req[r].pc \in ThrottlePcs /\ req[r].pc \in Waiting /\ req[r].pc \notin {"store"}
        /\ req[r].pc \in {"last", "claim", "await"}
    BY SMT, <2>1 DEF ThrottlePcs, Waiting
  <2>3. /\ rule.behavior = "Throttling" /\ k \in Args /\ Cost(req[r]) \in Nat
        /\ req[r] \in Request /\ ThrottleReq(req[r]) /\ req[r].now \in Int
        /\ k \notin lost => ThrottleOk(k) /\ OnTime(req[r], times)
    <3>1. req[r].now \in Int
      BY SMT, ReqFact
    <3> QED BY <2>2, <3>1, <1>ThrottleFact, ReqFact
  <2>4. Leader(req[r])
    BY <2>1, <2>2, <2>3 DEF Leader, ThrottleReq
  <2>5. /\ n.arg = k /\ n.pc = "passed"
        /\ m.arg = k /\ m.pc = "store" /\ m.timePtr = req[r].timePtr
    <3>1. m.arg = k /\ m.pc = "store" /\ m.timePtr = req[r].timePtr
      BY SMT, <2>3 DEF Request
    <3> QED BY <3>1, StopFact
  <2> HIDE DEF m, n
  <2>6. ThrottleReq(n) /\ ThrottleReq(m) /\ ~Leader(n) /\ ~Leader(m)
    BY SMT, <2>5 DEF ThrottleReq, Leader
  <2>7. ASSUME k \notin lost
        PROVE  /\ ThrottleHeld(k) /\ r \in Leaders(req, k) /\ Has(times, k)
               /\ req[r].timePtr = CellOf(times, k) /\ (k \notin overtaken => SlotsApart(k))
    BY <2>2, <2>3, <2>4, <2>7 DEF ThrottleOk, Leaders, OnTime
  <2>8. CASE req' = [req EXCEPT ![r] = m] /\ Overtakes(r, Unstored(r) \/ slots[k] # {})
                 /\ slots' = slots
    <3>1. OnlyReq(r) /\ req'[r] = m
      BY <2>8, ReqStep
    <3>2. overtaken' = overtaken \cup {a \in {k} : Unstored(r) \/ slots[k] # {}}
      BY <2>8 DEF Overtakes
    <3>3. ASSUME NEW a \in Args \ lost'
          PROVE  ThrottleOk(a)'
      <4>1. CASE a # k
        <5>1. ThrottleOk(a) /\ SameEntry(times, times', a) /\ SameCell(times, a)
                  /\ slots'[a] = slots[a]
              /\ (a \notin overtaken' => a \notin overtaken)
          BY <2>1, <2>3, <2>8, <3>2 DEF ThrottleInv, SameEntry, SameCell
        <5> QED BY <2>1, <2>5, <3>1, <4>1, <5>1, <1>ThrottleQuiet
      <4>2. CASE a = k
        <5>1. /\ ThrottleHeld(a) /\ r \in Leaders(req, a) /\ Has(times, a)
              /\ req[r].timePtr = CellOf(times, a) /\ (a \notin overtaken' => SlotsApart(a))
          BY <2>1, <2>7, <3>2, <4>2
        <5>2. OnTime(m, times)
          BY <2>5, <4>2, <5>1 DEF OnTime
        <5>3. \A q \in Leaders(req', a) : q \in Leaders(req, a)
          BY <2>6, <3>1, <1>LeadersStep DEF Follows
        <5>4. Leaders(req', a) = {}
          <6>1. \A q \in Leaders(req, a) : q = r
            BY <5>1 DEF ThrottleHeld
          <6>2. r \notin Leaders(req', a)
            BY <2>6, <3>1 DEF Leaders
          <6> QED BY <5>3, <6>1, <6>2
        <5>5. ThrottleHeld(a)'
          <6>1. \A q \in Req : req'[q].arg = a => OnTime(req'[q], times')
            BY <2>1, <3>1, <5>1, <5>2, <1>OnTimeStep
          <6> QED BY <2>1, <2>8, <5>1, <5>4, <6>1 DEF ThrottleHeld
        <5>6. ASSUME a \notin overtaken'
              PROVE  SlotsApart(a)'
          <6>1. ~Unstored(r) /\ slots[a] = {}
            BY <3>2, <4>2, <5>6
          <6>2. Among(req, a, {"store"}) = {}
            BY <2>2, <5>1, <6>1, <1>NobodyStores
          <6>3. SlotsApart(a)
            BY <5>1, <5>6
          <6>4. slots'[a] = slots[a] /\ req[r].arg = a /\ m.arg = a
            BY <2>5, <2>8, <4>2
          <6> QED BY <2>1, <2>5, <3>1, <5>1, <5>2, <5>4, <6>1, <6>2, <6>3, <6>4, <1>StoresAlone
        <5> QED BY <5>5, <5>6 DEF ThrottleOk
      <4> QED BY <4>1, <4>2
    <3> QED BY <2>1, <2>3, <2>6, <3>1, <3>3, <1>ThrottleReqsStep DEF ThrottleInv
  <2>9. CASE req' = [req EXCEPT ![r] = n] /\ TakesSlot(r, req[r].now) /\ overtaken' = overtaken
    <3>1. OnlyReq(r) /\ req'[r] = n
      BY <2>9, ReqStep
    <3> DEFINE t == Slot(r, req[r].now)
    <3>2. /\ t.at = req[r].now /\ t.cost = Cost(req[r]) /\ slots'[k] = slots[k] \cup {t}
          /\ \A a \in Args : a # k => slots'[a] = slots[a]
      <4>1. TakesSlot(r, req[r].now) /\ req[r].now \in Int
        BY <2>3, <2>9
      <4> QED BY <2>2, <4>1, <1>SlotFact
    <3> HIDE DEF t
    <3>3. ASSUME NEW a \in Args \ lost'
          PROVE  ThrottleOk(a)'
      <4>1. CASE a # k
        <5>1. ThrottleOk(a) /\ SameEntry(times, times', a) /\ SameCell(times, a)
          BY <2>1, <2>3 DEF ThrottleInv, SameEntry, SameCell
        <5>2. slots'[a] = slots[a]
          BY <3>2, <4>1
        <5> QED BY <2>1, <2>5, <2>9, <3>1, <4>1, <5>1, <5>2, <1>ThrottleQuiet
      <4>2. CASE a = k
        <5>1. /\ ThrottleHeld(a) /\ r \in Leaders(req, a) /\ Has(times, a)
              /\ (a \notin overtaken' => SlotsApart(a))
          BY <2>1, <2>7, <2>9, <4>2
        <5>2. ThrottleHeld(a)'
          BY <2>1, <2>5, <3>1, <5>1, <1>PassesHeld
        <5>3. a \notin overtaken' => SlotsApart(a)'
          <6>1. t.cost \in Nat /\ slots'[a] = slots[a] \cup {t} /\ t.at = req[r].now
            BY <2>3, <3>2, <4>2
          <6> QED BY <2>1, <2>2, <2>5, <3>1, <5>1, <6>1, <1>PassesFirst
        <5> QED BY <5>2, <5>3 DEF ThrottleOk
      <4> QED BY <4>1, <4>2
    <3> QED BY <2>1, <2>3, <2>6, <3>1, <3>3, <1>ThrottleReqsStep DEF ThrottleInv
  <2> QED
    BY <2>1, <2>8, <2>9
\* The swap of the first request, which changes nothing.
<1>ClaimFirst.
      ASSUME Base, ThrottleInv, NEW r \in Req, req[r].pc = "claim", req[r].first,
             heap[req[r].timePtr] = req[r].seen,
             heap' = [heap EXCEPT ![req[r].timePtr] = req[r].seen],
             req' = [req EXCEPT ![r] = [req[r] EXCEPT !.pc = "await"]],
             UNCHANGED <<rule, times, lost, slots, overtaken>>
      PROVE  ThrottleInv'
  <2> USE <1>ClaimFirst
  <2> DEFINE k == req[r].arg
             m == [req[r] EXCEPT !.pc = "await"]
  <2>1. /\ req[r].pc \in ThrottlePcs /\ req[r].pc \in Waiting /\ req[r].pc # "store"
        /\ req[r].pc \in {"last", "claim", "await"} /\ req[r].pc \in HoldsTime
    BY SMT DEF ThrottlePcs, Waiting, HoldsTime
  <2>2. /\ rule.behavior = "Throttling" /\ k \in Args /\ req[r] \in Request
        /\ k \notin lost => OnTime(req[r], times)
        /\ heap \in [Cells -> Int] /\ req[r].timePtr \in Cells
    BY <2>1, <1>ThrottleFact, ReqFact, PointerFact DEF Base, Shape, TypeOK
  <2>3. heap' = heap
    BY SMT, <2>2
  <2>4. /\ m.arg = k /\ m.pc = "await" /\ m.timePtr = req[r].timePtr /\ m.now = req[r].now
        /\ m.first = req[r].first
    BY <2>2 DEF Request
  <2>5. OnlyReq(r) /\ req'[r] = m
    BY ReqStep
  <2> HIDE DEF m
  <2>6. ThrottleReq(m) /\ m.pc # "store"
    BY SMT, <2>4 DEF ThrottleReq
  <2>7. Follows(r)
    BY <2>1, <2>4, <2>5 DEF Follows, Leader
  <2>8. k \notin lost => OnTime(m, times)
    BY <2>1, <2>2, <2>4 DEF OnTime
  <2> QED
    BY <2>1, <2>2, <2>3, <2>4, <2>5, <2>6, <2>7, <2>8, <1>ThrottleStays
\* What the swap of another request finds, where it does not overtake: the time
\* it has read is after all that have passed.
<1>ClaimFact.
      ASSUME Base, ThrottleInv, NEW r \in Req, req[r].pc = "claim", ~req[r].first,
             req[r].arg \notin lost, req[r].arg \notin overtaken, ~Unstored(r),
             heap[req[r].timePtr] = req[r].seen
      PROVE  /\ SlotsApart(req[r].arg) /\ Among(req, req[r].arg, {"store"}) = {}
             /\ \A s \in slots[req[r].arg] : s.at <= req[r].next - Cost(req[r])
             /\ \A q \in Leaders(req, req[r].arg) : req[q].now <= req[r].next - Cost(req[r])
  <2> USE <1>ClaimFact
  <2> DEFINE a == req[r].arg
  <2>1. req[r].pc \in ThrottlePcs /\ req[r].pc \in Waiting /\ req[r].pc # "store"
    BY SMT DEF ThrottlePcs, Waiting
  <2>2. /\ a \in Args /\ Cost(req[r]) \in Nat /\ req[r].seen \in Int /\ req[r].next \in Int
        /\ req[r].seen + Cost(req[r]) <= req[r].next
        /\ ThrottleHeld(a) /\ SlotsApart(a) /\ OnTime(req[r], times)
    BY <2>1, <1>ThrottleFact, ReqFact DEF ThrottleReq, ThrottleOk
  <2>3. Has(times, a) /\ req[r].timePtr = CellOf(times, a)
    BY <2>1, <2>2 DEF OnTime
  <2>4. Among(req, a, {"store"}) = {}
    BY <2>1, <2>2, <2>3, <1>NobodyStores
  <2>5. NotAfter(slots[a], req, a, req[r].seen)
    BY <2>2, <2>3, <2>4 DEF SlotsApart, Time
  <2>6. ASSUME NEW s \in slots[a]
        PROVE  s.at <= req[r].next - Cost(req[r])
    <3>1. s.at <= req[r].seen /\ s.at \in Int
      BY <2>2, <2>5, SlotType DEF NotAfter
    <3> QED BY SMT, <2>2, <3>1
  <2>7. ASSUME NEW q \in Leaders(req, a)
        PROVE  req[q].now <= req[r].next - Cost(req[r])
    <3>1. q \in Req
      BY DEF Leaders
    <3>2. req[q].now <= req[r].seen /\ req[q].now \in Nat
      BY <2>5, <3>1, ReqFact DEF NotAfter
    <3> QED BY SMT, <2>2, <3>2
  <2> QED
    BY <2>2, <2>4, <2>6, <2>7
\* The swap of a request that goes on to wait for its slot.
<1>ClaimWaits.
      ASSUME Base, ThrottleInv, NEW r \in Req, req[r].pc = "claim", ~req[r].first,
             heap[req[r].timePtr] = req[r].seen,
             heap' = [heap EXCEPT ![req[r].timePtr] = req[r].now],
             req' = [req EXCEPT ![r] = [req[r] EXCEPT !.pc = "store"]],
             Overtakes(r, ~req[r].first /\ Unstored(r)),
             UNCHANGED <<rule, times, lost, slots>>
      PROVE  ThrottleInv'
  <2> USE <1>ClaimWaits
  <2> DEFINE k == req[r].arg
             m == [req[r] EXCEPT !.pc = "store"]
  <2>1. req[r].pc \in ThrottlePcs /\ req[r].pc \in Waiting /\ req[r].pc \notin {"store"}
    BY SMT DEF ThrottlePcs, Waiting
  <2>2. /\ rule.behavior = "Throttling" /\ k \in Args /\ req[r] \in Request
        /\ k \notin lost => ThrottleOk(k) /\ OnTime(req[r], times)
    BY <2>1, <1>ThrottleFact, ReqFact
  <2>3. /\ m.arg = k /\ m.pc = "store" /\ m.timePtr = req[r].timePtr /\ m.next = req[r].next
        /\ m.batch = req[r].batch
    BY SMT, <2>2 DEF Request
  <2>4. OnlyReq(r) /\ req'[r] = m
    BY ReqStep
  <2> HIDE DEF m
  <2>5. ThrottleReq(m) /\ ~Leader(m)
    BY SMT, <2>3 DEF ThrottleReq, Leader
  <2>6. overtaken' = overtaken \cup {a \in {k} : ~req[r].first /\ Unstored(r)}
    BY DEF Overtakes
  <2>7. ASSUME NEW a \in Args \ lost'
        PROVE  ThrottleOk(a)'
    <3>1. CASE a # k
      <4>1. ThrottleOk(a) /\ SameEntry(times, times', a) /\ slots'[a] = slots[a]
            /\ (a \notin overtaken' => a \notin overtaken)
        BY <2>2, <2>6 DEF ThrottleInv, SameEntry
      <4>2. SameCell(times, a)
        BY <3>1, WriteFrame
      <4> QED BY <2>3, <2>4, <3>1, <4>1, <4>2, <1>ThrottleQuiet
    <3>2. CASE a = k
      <4>1. ThrottleHeld(a) /\ OnTime(req[r], times)
        BY <2>2, <3>2 DEF ThrottleOk
      <4>2. OnTime(m, times)
        BY <2>1, <2>3, <4>1 DEF OnTime
      <4>3. \A q \in Leaders(req', a) : q \in Leaders(req, a) /\ req'[q].now = req[q].now
        BY <2>4, <2>5, <1>LeadersStep DEF Follows
      <4>4. ThrottleHeld(a)'
        <5>1. times' = times /\ OnTime(req'[r], times')
          BY <2>4, <4>2
        <5>2. \A q \in Req : req'[q].arg = a => OnTime(req'[q], times')
          BY <2>4, <4>1, <5>1, <1>OnTimeStep
        <5>3. \A q, s \in Leaders(req', a) : q = s
          BY <4>1, <4>3 DEF ThrottleHeld
        <5> QED BY <4>1, <5>1, <5>2, <5>3 DEF ThrottleHeld
      <4>5. ASSUME a \notin overtaken'
            PROVE  SlotsApart(a)'
        <5>1. ~Unstored(r) /\ a \notin overtaken
          BY <2>6, <3>2, <4>5
        <5>2. /\ SlotsApart(a) /\ Among(req, a, {"store"}) = {}
              /\ \A s \in slots[a] : s.at <= req[r].next - Cost(req[r])
              /\ \A q \in Leaders(req, a) : req[q].now <= req[r].next - Cost(req[r])
          BY <3>2, <5>1, <1>ClaimFact
        <5>3. req'[r].next - Cost(req'[r]) = req[r].next - Cost(req[r])
          BY <2>3, <2>4 DEF Cost
        <5>4. /\ \A s \in slots[a] : s.at <= req'[r].next - Cost(req'[r])
              /\ \A q \in Leaders(req', a) : req'[q].now <= req'[r].next - Cost(req'[r])
          BY <4>3, <5>2, <5>3
        <5>5. /\ req[r].arg = a /\ req'[r].arg = a /\ req'[r].pc = "store" /\ OnTime(req'[r], times)
              /\ slots'[a] = slots[a]
          BY <2>3, <2>4, <3>2, <4>2
        <5> QED BY <2>4, <4>1, <5>2, <5>4, <5>5, <1>StoresAlone
      <4> QED BY <4>4, <4>5 DEF ThrottleOk
    <3> QED BY <3>1, <3>2
  <2> QED
    BY <2>2, <2>4, <2>5, <2>7, <1>ThrottleReqsStep DEF ThrottleInv
\* The swap of a request that passes at once.
<1>ClaimPasses.
      ASSUME Base, ThrottleInv, NEW r \in Req, req[r].pc = "claim", ~req[r].first,
             heap[req[r].timePtr] = req[r].seen, ~(req[r].next > req[r].now),
             heap' = [heap EXCEPT ![req[r].timePtr] = req[r].now],
             req' = [req EXCEPT ![r] = Rest("passed", req[r].arg)], TakesSlot(r, req[r].now),
             Overtakes(r, ~req[r].first /\ Unstored(r)),
             UNCHANGED <<rule, times, lost>>
      PROVE  ThrottleInv'
  <2> USE <1>ClaimPasses
  <2> DEFINE k == req[r].arg
             n == Rest("passed", k)
             v == req[r].now
             t == Slot(r, v)
  <2>1. req[r].pc \in ThrottlePcs /\ req[r].pc \in Waiting /\ req[r].pc \in HoldsTime
        /\ req[r].pc \notin {"store"}
    BY SMT DEF ThrottlePcs, Waiting, HoldsTime
  <2>2. /\ rule.behavior = "Throttling" /\ k \in Args /\ Cost(req[r]) \in Nat
        /\ k \notin lost => ThrottleOk(k) /\ OnTime(req[r], times)
        /\ heap \in [Cells -> Int] /\ req[r].timePtr \in Cells /\ req[r].next \in Int
    BY <2>1, <1>ThrottleFact, ReqFact, PointerFact DEF Base, Shape, TypeOK
  <2>3. v \in Int
    BY SMT, ReqFact
  <2>4. n.arg = k /\ n.pc = "passed"
    BY StopFact
  <2>5. OnlyReq(r) /\ req'[r] = n
    BY ReqStep
  <2> HIDE DEF n
  <2>6. ThrottleReq(n) /\ ~Leader(n) /\ n.pc \notin {"store"}
    BY SMT, <2>4 DEF ThrottleReq, Leader
  <2>7. /\ t.at = v /\ t.cost = Cost(req[r]) /\ slots'[k] = slots[k] \cup {t}
        /\ \A a \in Args : a # k => slots'[a] = slots[a]
    BY <2>1, <2>3, <1>SlotFact
  <2> HIDE DEF t
  <2>8. overtaken' = overtaken \cup {a \in {k} : ~req[r].first /\ Unstored(r)}
    BY DEF Overtakes
  <2>9. ASSUME NEW a \in Args \ lost'
        PROVE  ThrottleOk(a)'
    <3>1. CASE a # k
      <4>1. ThrottleOk(a) /\ SameEntry(times, times', a) /\ slots'[a] = slots[a]
            /\ (a \notin overtaken' => a \notin overtaken)
        BY <2>2, <2>7, <2>8, <3>1 DEF ThrottleInv, SameEntry
      <4>2. SameCell(times, a)
        BY <3>1, WriteFrame
      <4> QED BY <2>4, <2>5, <3>1, <4>1, <4>2, <1>ThrottleQuiet
    <3>2. CASE a = k
      <4>1. ThrottleHeld(a) /\ Has(times, a) /\ req[r].timePtr = CellOf(times, a)
        BY <2>1, <2>2, <3>2 DEF ThrottleOk, OnTime
      <4>2. ThrottleHeld(a)'
        BY <2>4, <2>5, <4>1, <1>PassesHeld
      <4>3. ASSUME a \notin overtaken'
            PROVE  SlotsApart(a)'
        <5>1. ~Unstored(r) /\ a \notin overtaken
          BY <2>8, <3>2, <4>3
        <5>2. /\ SlotsApart(a) /\ Among(req, a, {"store"}) = {}
              /\ \A s \in slots[a] : s.at <= req[r].next - Cost(req[r])
              /\ \A q \in Leaders(req, a) : req[q].now <= req[r].next - Cost(req[r])
          BY <3>2, <5>1, <1>ClaimFact
        <5>3. req[r].next - Cost(req[r]) <= t.at - t.cost /\ req[r].next - Cost(req[r]) \in Int
              /\ t.at - t.cost \in Int
          BY SMTT(40), <2>2, <2>3, <2>7
        <5>4. NotAfter(slots[a], req, a, t.at - t.cost)
          <6>1. ASSUME NEW x \in Int, x <= req[r].next - Cost(req[r])
                PROVE  x <= t.at - t.cost
            BY SMT, <5>3, <6>1
          <6>2. \A s \in slots[a] : s.at \in Int
            BY SlotType
          <6>3. ASSUME NEW q \in Leaders(req, a)
                PROVE  req[q].now \in Int
            <7>1. q \in Req
              BY DEF Leaders
            <7> QED BY SMT, <7>1, ReqFact
          <6> QED BY <5>2, <6>1, <6>2, <6>3 DEF NotAfter
        <5>5. Among(req', a, {"store"}) = {}
          BY <2>1, <2>5, <2>6, <5>2, AmongSame
        <5>6. heap'[CellOf(times', a)] = t.at
          BY <2>2, <2>7, <4>1
        <5>7. t.at \in Int /\ t.cost \in Nat /\ slots'[a] = slots[a] \cup {t}
          BY <2>2, <2>3, <2>7, <3>2
        <5> QED BY <2>5, <2>6, <5>2, <5>4, <5>5, <5>6, <5>7, <1>PassesLast
      <4> QED BY <4>2, <4>3 DEF ThrottleOk
    <3> QED BY <3>1, <3>2
  <2> QED
    BY <2>2, <2>5, <2>6, <2>9, <1>ThrottleReqsStep DEF ThrottleInv
\* A throttled request swaps the current time in.
<1>ThrottleClaim.
      ASSUME Base, ThrottleInv, NEW r \in Req, Claim(r)
      PROVE  ThrottleInv'
  <2> USE <1>ThrottleClaim
  <2> DEFINE k == req[r].arg
             n == [Rest("throttle", k) EXCEPT !.batch = req[r].batch]
  <2>1. req[r].pc = "claim" /\ UNCHANGED <<rule, times, lost>>
    BY DEF Claim, At, caches
  <2>2. CASE heap[req[r].timePtr] = req[r].seen /\ req[r].first
    <3>1. /\ heap' = [heap EXCEPT ![req[r].timePtr] = req[r].seen] /\ slots' = slots
          /\ req' = [req EXCEPT ![r] = [req[r] EXCEPT !.pc = "await"]]
          /\ Overtakes(r, ~req[r].first /\ Unstored(r))
      BY <2>2 DEF Claim, Goto, Set
    <3>2. overtaken' = overtaken
      BY SMT, <2>2, <3>1 DEF Overtakes
    <3> QED BY <2>1, <2>2, <3>1, <3>2, <1>ClaimFirst
  <2>3. CASE heap[req[r].timePtr] = req[r].seen /\ ~req[r].first /\ req[r].next > req[r].now
    <3>1. /\ heap' = [heap EXCEPT ![req[r].timePtr] = req[r].now] /\ slots' = slots
          /\ req' = [req EXCEPT ![r] = [req[r] EXCEPT !.pc = "store"]]
          /\ Overtakes(r, ~req[r].first /\ Unstored(r))
      BY <2>3 DEF Claim, Goto, Set
    <3> QED BY <2>1, <2>3, <3>1, <1>ClaimWaits
  <2>4. CASE heap[req[r].timePtr] = req[r].seen /\ ~req[r].first /\ ~(req[r].next > req[r].now)
    <3>1. /\ heap' = [heap EXCEPT ![req[r].timePtr] = req[r].now]
          /\ req' = [req EXCEPT ![r] = Rest("passed", req[r].arg)] /\ TakesSlot(r, req[r].now)
          /\ Overtakes(r, ~req[r].first /\ Unstored(r))
      BY <2>4 DEF Claim, End, Set
    <3> QED BY <2>1, <2>4, <3>1, <1>ClaimPasses
  <2>5. CASE heap[req[r].timePtr] # req[r].seen
    <3>1. req' = [req EXCEPT ![r] = n] /\ UNCHANGED <<heap, slots, overtaken>>
      BY <2>5 DEF Claim, Again, Set
    <3>2. req[r].pc \in ThrottlePcs /\ req[r].pc # "store"
      BY SMT, <2>1 DEF ThrottlePcs
    <3>3. n.pc = "throttle"
      <4>1. "throttle" \in {"reject", "throttle"} /\ "reject" # "throttle"
        BY SMT
      <4> QED BY <3>2, <4>1, AgainFact
    <3> HIDE DEF n
    <3>4. OnlyReq(r) /\ req'[r] = n
      BY <3>1, ReqStep
    <3>5. ThrottleReq(n) /\ ~Leader(n) /\ n.pc # "store" /\ n.pc \notin Waiting
      BY SMT, <3>3 DEF ThrottleReq, Leader, Waiting
    <3>6. rule.behavior = "Throttling"
      BY <3>2, <1>ThrottleFact
    <3> QED BY <2>1, <3>1, <3>2, <3>4, <3>5, <3>6, <1>ThrottleStays DEF Follows
  <2> QED
    BY <2>2, <2>3, <2>4, <2>5
<1>1. CASE UNCHANGED <<rule, times, tokens, conc, heap, req, ghosts>>
  BY <1>1, <1>ThrottleTick
<1>2. ASSUME NEW r \in Req, ThrottleStep(r)
      PROVE  ThrottleInv'
  BY <1>2, <1>ThrottleThrottleLoop, <1>ThrottleLoadLast, <1>ThrottleClaim, <1>ThrottleAwaitTime,
     <1>ThrottleStoreExpected DEF ThrottleStep
<1>3. ASSUME NEW r \in Req, ConcStep(r) \/ RejectStep(r)
      PROVE  ThrottleInv'
  <2>1. rule.behavior \in {"Concurrency", "Reject"} /\ rule' = rule
    BY <1>3, StepFits
  <2>2. rule'.behavior # "Throttling"
    BY SMT, <2>1
  <2> QED BY <2>2 DEF ThrottleInv
<1> QED
  BY <1>1, <1>2, <1>3, NextCases, <1>ThrottleCheck

\* Nothing has passed in the beginning.
LEMMA ThrottleInit == Init => ThrottleInv
<1> SUFFICES ASSUME Init
             PROVE  (\A q \in Req : ThrottleReq(req[q])) /\ \A a \in Args : ThrottleOk(a)
  BY DEF ThrottleInv
<1>1. times = <<>> /\ (\A r \in Req : req[r].pc = "idle") /\ \A a \in Args : slots[a] = {}
  <2>1. Idle.pc = "idle"
    BY SMT DEF Idle
  <2> QED BY <2>1 DEF Init
<1>2. \A a \in Args : ~Has(times, a)
  BY SMT, <1>1 DEF Has
<1>3. "idle" \notin Waiting /\ "idle" \notin {"last", "claim", "await"} /\ "idle" \notin {"store"}
      /\ "idle" # "claim" /\ "idle" # "await"
  BY SMT DEF Waiting
<1>4. \A q \in Req : ThrottleReq(req[q])
  BY <1>1, <1>3 DEF ThrottleReq
<1>5. ASSUME NEW a \in Args
      PROVE  ThrottleOk(a)
  <2>1. Leaders(req, a) = {} /\ Among(req, a, {"store"}) = {}
    BY <1>1, <1>3 DEF Leaders, Leader, Among
  <2>2. ThrottleHeld(a)
    BY <1>1, <1>3, <2>1 DEF ThrottleHeld, OnTime
  <2>3. SlotsApart(a)
    BY <1>1, <1>2, <2>1 DEF SlotsApart
  <2> QED BY <2>2, <2>3 DEF ThrottleOk
<1> QED
  BY <1>4, <1>5

=============================================================================
