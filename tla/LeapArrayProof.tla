--------------------------- MODULE LeapArrayProof ---------------------------
(***************************************************************************)
(* What holds of the concurrent leap array for any number of goroutines,   *)
(* buckets and operations.                                                 *)
(***************************************************************************)
EXTENDS LeapArray, TLAPS

-----------------------------------------------------------------------------
(* The time arithmetic, for any number and length of buckets               *)

\* StartOf rounds down, and IdxOf is an index of the array.
LEMMA BucketArithmetic ==
    ASSUME NEW t \in Nat
    PROVE  StartOf(t) \in Nat /\ StartOf(t) <= t /\ IdxOf(t) \in BucketIds
BY BucketAssumption DEF StartOf, IdxOf, BucketIds

\* A start is a multiple of the bucket length.
LEMMA StartIsMultiple ==
    ASSUME NEW t \in Nat
    PROVE  StartOf(t) = BucketLen * (t \div BucketLen) /\ t \div BucketLen \in Nat
BY BucketAssumption DEF StartOf

\* StartOf is monotone.
LEMMA StartMonotone ==
    ASSUME NEW t \in Nat, NEW u \in Nat, t <= u
    PROVE  StartOf(t) <= StartOf(u)
<1> DEFINE a == t \div BucketLen
           b == u \div BucketLen
<1>1. a \in Nat /\ b \in Nat /\ a <= b
  BY BucketAssumption
<1>2. StartOf(t) = BucketLen * a /\ StartOf(u) = BucketLen * b
  BY StartIsMultiple
<1> HIDE DEF a, b
<1>3. BucketLen * a <= BucketLen * b
  BY <1>1, BucketAssumption
<1> QED
  BY <1>2, <1>3

\* Going from a to b round a ring of K places takes at most b - a steps.
LEMMA RingDistance ==
    ASSUME NEW K \in Nat \ {0}, NEW a \in Nat, NEW b \in Nat, a <= b
    PROVE  /\ ((b % K) + K - (a % K)) % K \in Nat
           /\ a + (((b % K) + K - (a % K)) % K) <= b
OBVIOUS

\* The initial start of a bucket is a time.
LEMMA FirstStartType ==
    ASSUME NEW i \in BucketIds
    PROVE  FirstStart(i) \in Nat
<1> DEFINE off == (i + BucketCount - IdxOf(StartTime)) % BucketCount
<1>1. IdxOf(StartTime) \in BucketIds /\ StartOf(StartTime) \in Nat
  BY BucketArithmetic, BucketAssumption
<1>2. off \in Nat
  BY <1>1, BucketAssumption DEF BucketIds
<1> HIDE DEF off
<1>3. StartOf(StartTime) + off * BucketLen \in Nat
  BY <1>1, <1>2, BucketAssumption
<1> QED
  BY <1>3 DEF off, FirstStart

\* The initial start of the bucket of time t does not lie ahead of t.
LEMMA FirstStartNotAhead ==
    ASSUME NEW t \in Nat, t >= StartTime
    PROVE  FirstStart(IdxOf(t)) <= StartOf(t)
<1> DEFINE a == StartTime \div BucketLen
           b == t \div BucketLen
           d == ((b % BucketCount) + BucketCount - (a % BucketCount)) % BucketCount
<1>1. a \in Nat /\ b \in Nat /\ a <= b
  BY BucketAssumption
<1>2. StartOf(t) = BucketLen * b /\ StartOf(StartTime) = BucketLen * a
  BY StartIsMultiple, BucketAssumption
<1>3. FirstStart(IdxOf(t)) = StartOf(StartTime) + d * BucketLen
  BY DEF FirstStart, IdxOf
<1> HIDE DEF a, b
<1>4. d \in Nat /\ a + d <= b
  BY <1>1, RingDistance, BucketAssumption
<1> HIDE DEF d
<1>5. BucketLen * a + d * BucketLen = BucketLen * (a + d) /\ BucketLen * (a + d) <= BucketLen * b
  BY <1>1, <1>4, BucketAssumption
<1> QED
  BY <1>2, <1>3, <1>5

\* Division with remainder.
LEMMA Division ==
    ASSUME NEW K \in Nat \ {0}, NEW a \in Nat
    PROVE  a \div K \in Nat /\ a % K \in Nat /\ a = K * (a \div K) + (a % K)
OBVIOUS

\* Dividing a multiple.
LEMMA Quotient ==
    ASSUME NEW K \in Nat \ {0}, NEW q \in Nat
    PROVE  (K * q) % K = 0 /\ (K * q) \div K = q
<1>1. (K * q) % K = 0
  OBVIOUS
<1>2. (K * q) \div K = q
  OBVIOUS
<1> QED
  BY <1>1, <1>2

\* Rounding down twice changes nothing, nor does it change the index.
LEMMA StartIdempotent ==
    ASSUME NEW t \in Nat
    PROVE  StartOf(StartOf(t)) = StartOf(t) /\ IdxOf(StartOf(t)) = IdxOf(t)
<1> DEFINE a == t \div BucketLen
<1>1. a \in Nat /\ StartOf(t) = BucketLen * a
  BY StartIsMultiple
<1> HIDE DEF a
<1>2. (BucketLen * a) % BucketLen = 0 /\ (BucketLen * a) \div BucketLen = a
  BY <1>1, Quotient, BucketAssumption
<1>3. StartOf(BucketLen * a) = BucketLen * a
  BY <1>1, <1>2, BucketAssumption DEF StartOf
<1>4. IdxOf(BucketLen * a) = a % BucketCount
  BY <1>2 DEF IdxOf
<1> QED
  BY <1>1, <1>3, <1>4 DEF a, IdxOf

\* Places of the ring that agree modulo K and are less than a turn apart.
LEMMA SamePlace ==
    ASSUME NEW K \in Nat \ {0}, NEW a \in Nat, NEW b \in Nat,
           a % K = b % K, a < b + K
    PROVE  a <= b
<1> DEFINE qa == a \div K
           qb == b \div K
           r == a % K
<1>a. qa \in Nat /\ r \in Nat /\ a = K * qa + r
  BY Division
<1>b. qb \in Nat /\ b = K * qb + r
  BY Division, b % K = r
<1> HIDE DEF qa, qb
<1>1. qa \in Nat /\ qb \in Nat /\ r \in Nat /\ a = K * qa + r /\ b = K * qb + r
  BY <1>a, <1>b
<1> HIDE DEF r
<1>2. K * qa < K * qb + K
  <2>1. K * qa \in Int /\ K * qb \in Int
    BY <1>1
  <2> QED BY <2>1, <1>1
<1>3. K * qb + K = K * (qb + 1)
  BY <1>1
<1>4. qa < qb + 1
  <2> SUFFICES ASSUME qa >= qb + 1 PROVE FALSE
    BY <1>1
  <2>1. K * qa >= K * (qb + 1)
    BY <1>1
  <2> QED BY <2>1, <1>2, <1>3, <1>1
<1>5. qa <= qb
  BY <1>4, <1>1
<1>6. K * qa <= K * qb
  BY <1>5, <1>1
<1> QED
  BY <1>6, <1>1

\* Walking (i - a) mod K steps from place a leads to place i.
LEMMA RingWalk ==
    ASSUME NEW K \in Nat \ {0}, NEW a \in Nat, NEW i \in 0 .. K - 1
    PROVE  (a + ((i + K - (a % K)) % K)) % K = i
<1> DEFINE q == a \div K
           r == a % K
<1>1. q \in Nat /\ r \in 0 .. K - 1 /\ a = K * q + r
  OBVIOUS
<1> HIDE DEF q, r
<1>2. CASE i >= r
  <2>1. (i + K - r) % K = i - r
    BY <1>1, <1>2
  <2>2. a + (i - r) = K * q + i
    BY <1>1
  <2>3. (K * q + i) % K = i
    BY <1>1
  <2> QED BY <2>1, <2>2, <2>3 DEF r
<1>3. CASE i < r
  <2>1. (i + K - r) % K = i + K - r
    BY <1>1, <1>3
  <2>2. a + (i + K - r) = K * (q + 1) + i
    BY <1>1
  <2>3. (K * (q + 1) + i) % K = i
    BY <1>1
  <2> QED BY <2>1, <2>2, <2>3 DEF r
<1> QED
  BY <1>1, <1>2, <1>3

\* A bucket is born on a boundary that maps to its own index, and within a turn
\* of the ring.
LEMMA FirstStartAligned ==
    ASSUME NEW i \in BucketIds
    PROVE  /\ StartOf(FirstStart(i)) = FirstStart(i)
           /\ IdxOf(FirstStart(i)) = i
           /\ FirstStart(i) >= StartOf(StartTime)
<1> DEFINE a == StartTime \div BucketLen
           d == (i + BucketCount - (a % BucketCount)) % BucketCount
<1>1. a \in Nat /\ StartOf(StartTime) = BucketLen * a
  BY StartIsMultiple, BucketAssumption
<1>2. FirstStart(i) = StartOf(StartTime) + d * BucketLen
  BY DEF FirstStart, IdxOf
<1> HIDE DEF a
<1>3. d \in Nat /\ (a + d) % BucketCount = i
  BY <1>1, RingWalk, BucketAssumption DEF BucketIds
<1> HIDE DEF d
<1>4. FirstStart(i) = BucketLen * (a + d) /\ BucketLen * a <= FirstStart(i)
  BY <1>1, <1>2, <1>3, BucketAssumption
<1> DEFINE c == a + d
<1>5. c \in Nat
  BY <1>1, <1>3
<1> HIDE DEF c
<1>6. (BucketLen * c) % BucketLen = 0 /\ (BucketLen * c) \div BucketLen = c
  BY <1>5, Quotient, BucketAssumption
<1>7. StartOf(BucketLen * c) = BucketLen * c /\ IdxOf(BucketLen * c) = c % BucketCount
  BY <1>5, <1>6, BucketAssumption DEF StartOf, IdxOf
<1> QED
  BY <1>1, <1>3, <1>4, <1>7 DEF c

\* Two aligned starts of one bucket, the first less than a turn ahead.
LEMMA NotAhead ==
    ASSUME NEW s \in Nat, NEW t \in Nat,
           StartOf(s) = s, IdxOf(s) = IdxOf(t), s < StartOf(t) + Interval
    PROVE  s <= StartOf(t)
<1> DEFINE a == s \div BucketLen
           b == t \div BucketLen
<1>1. a \in Nat /\ b \in Nat /\ s = BucketLen * a /\ StartOf(t) = BucketLen * b
  BY StartIsMultiple
<1>2. a % BucketCount = b % BucketCount
  BY DEF IdxOf
<1> HIDE DEF a, b
<1>3. StartOf(t) + Interval = BucketLen * (b + BucketCount)
  BY <1>1, BucketAssumption DEF Interval
<1>4. a < b + BucketCount
  <2> SUFFICES ASSUME a >= b + BucketCount PROVE FALSE
    BY <1>1, BucketAssumption
  <2>1. BucketLen * a >= BucketLen * (b + BucketCount)
    BY <1>1, BucketAssumption
  <2>2. BucketLen * a < BucketLen * (b + BucketCount)
    BY <1>1, <1>3
  <2>3. BucketLen * a \in Int /\ BucketLen * (b + BucketCount) \in Int
    BY <1>1, BucketAssumption
  <2> QED BY <2>1, <2>2, <2>3
<1>5. a <= b
  BY <1>1, <1>2, <1>4, SamePlace, BucketAssumption
<1>6. BucketLen * a <= BucketLen * b
  BY <1>1, <1>5, BucketAssumption
<1> QED
  BY <1>1, <1>6

\* In the first cycle the bucket of time t was born with the start t wants.
LEMMA FirstCycleStart ==
    ASSUME NEW t \in Nat, t >= StartTime, t < StartOf(StartTime) + Interval
    PROVE  FirstStart(IdxOf(t)) = StartOf(t)
<1> DEFINE f == FirstStart(IdxOf(t))
<1>1. IdxOf(t) \in BucketIds /\ StartOf(t) \in Nat /\ StartOf(t) <= t
  BY BucketArithmetic
<1>2. f \in Nat /\ StartOf(f) = f /\ IdxOf(f) = IdxOf(t) /\ f >= StartOf(StartTime)
  BY <1>1, FirstStartType, FirstStartAligned
<1>3. f <= StartOf(t)
  BY FirstStartNotAhead
<1> HIDE DEF f
<1>4. StartOf(StartTime) \in Nat /\ Interval \in Nat
  BY BucketArithmetic, BucketAssumption DEF Interval
<1>5. IdxOf(StartOf(t)) = IdxOf(t) /\ StartOf(StartOf(t)) = StartOf(t)
  BY StartIdempotent
<1>6. StartOf(t) < StartOf(f) + Interval
  BY <1>1, <1>2, <1>4
<1>7. StartOf(t) <= StartOf(f)
  BY <1>1, <1>2, <1>5, <1>6, NotAhead
<1> QED
  BY <1>1, <1>2, <1>3, <1>7 DEF f

-----------------------------------------------------------------------------
(* The operations                                                          *)

\* An operation's bucket is a bucket of the array.
LEMMA SlotType ==
    ASSUME TypeOK, NEW g \in Gor
    PROVE  Slot(g) \in BucketIds /\ Wanted(g) \in Nat /\ reg[g].t \in Nat
BY Zenon, BucketArithmetic DEF TypeOK, Slot, Wanted

-----------------------------------------------------------------------------
(* Type correctness                                                        *)

LEMMA TypeInit == Init => TypeOK
<1> SUFFICES ASSUME Init PROVE TypeOK
  OBVIOUS
<1>1. win \in [BucketIds -> [start : Nat, count : Nat]]
  BY Zenon, FirstStartType DEF Init
<1>2. NoLocals \in [op : {"none", "AddCount", "Count"}, t : Nat,
                    i : 0 .. BucketCount, kept : SUBSET BucketIds, sum : Nat]
  BY BucketAssumption DEF NoLocals, Locals
<1> QED
  BY Zenon, <1>1, <1>2, BucketAssumption DEF Init, TypeOK, PcSet

LEMMA TypeNext == TypeOK /\ [Next]_vars => TypeOK'
<1> SUFFICES ASSUME TypeOK, [Next]_vars PROVE TypeOK'
  OBVIOUS
<1> DEFINE LocalsType == [op : {"none", "AddCount", "Count"}, t : Nat,
                          i : 0 .. BucketCount, kept : SUBSET BucketIds, sum : Nat]
<1>0. NoLocals \in LocalsType
  BY BucketAssumption DEF NoLocals, Locals
<1>1. CASE Tick
  BY <1>1 DEF Tick, TypeOK
<1>2. ASSUME NEW g \in Gor, Begin(g) PROVE TypeOK'
  <2>1. PICK op \in {"AddCount", "Count"} :
          reg' = [reg EXCEPT ![g] = Locals(op, now)]
    BY Zenon, <1>2 DEF Begin
  <2>2. Locals(op, now) \in LocalsType
    BY BucketAssumption DEF Locals, TypeOK
  <2>3. reg' \in [Gor -> LocalsType]
    BY Zenon, <2>1, <2>2 DEF TypeOK
  <2> QED BY <2>3, <1>2 DEF Begin, TypeOK, Goto, PcSet, Refreshing
<1>3. ASSUME NEW g \in Gor, LoadBucketStart(g) PROVE TypeOK'
  <2>1. reg' \in [Gor -> LocalsType] /\ pc' \in [Gor -> PcSet]
    BY ZenonT(90), <1>3, <1>0 DEF LoadBucketStart, TypeOK, Goto, Leave, PcSet, Refreshing, Resume
  <2> QED BY <2>1, <1>3 DEF LoadBucketStart, TypeOK
<1>4. ASSUME NEW g \in Gor, TryLock(g) PROVE TypeOK'
  BY Zenon, <1>4 DEF TryLock, TypeOK, Goto, PcSet, Refreshing
<1>5. ASSUME NEW g \in Gor, StoreStart(g) PROVE TypeOK'
  BY Zenon, <1>5, SlotType DEF StoreStart, TypeOK, Goto, PcSet, Refreshing
<1>6. ASSUME NEW g \in Gor, ResetCount(g) PROVE TypeOK'
  BY Zenon, <1>6, SlotType DEF ResetCount, TypeOK, Goto, PcSet, Refreshing
<1>7. ASSUME NEW g \in Gor, Unlock(g) PROVE TypeOK'
  BY Zenon, <1>7 DEF Unlock, TypeOK, Goto, PcSet, Refreshing, Resume
<1>8. ASSUME NEW g \in Gor, Add(g) PROVE TypeOK'
  <2>1. win' \in [BucketIds -> [start : Nat, count : Nat]]
    BY <1>8, SlotType DEF Add, TypeOK
  <2>2. added' \in [Starts -> Nat]
    <3>1. CASE Wanted(g) \in Starts
      <4>1. added[Wanted(g)] \in Nat
        BY Zenon, <3>1 DEF TypeOK
      <4>2. added \in [Starts -> Nat]
        BY Zenon DEF TypeOK
      <4>3. added' = [added EXCEPT ![Wanted(g)] = added[Wanted(g)] + 1]
        BY Zenon, <1>8 DEF Add
      <4> HIDE DEF LocalsType
      <4> QED BY <4>1, <4>2, <4>3, <3>1
    <3>2. CASE Wanted(g) \notin Starts
      <4>1. added' = added
        BY Zenon, <3>2, <1>8 DEF Add, TypeOK
      <4> QED BY <4>1 DEF TypeOK
    <3> QED BY <3>1, <3>2
  <2> QED BY <2>1, <2>2, <1>8, <1>0 DEF Add, TypeOK, Goto, Leave, PcSet
<1>9. ASSUME NEW g \in Gor, Collect(g) PROVE TypeOK'
  <2> DEFINE i == reg[g].i
  <2>1. i \in 0 .. BucketCount /\ reg[g].kept \in SUBSET BucketIds
    BY Zenon DEF TypeOK
  <2>2. CASE i < BucketCount
    <3>1. i + 1 \in 0 .. BucketCount /\ i \in BucketIds
      BY <2>1, <2>2, BucketAssumption DEF BucketIds
    <3>2. reg' \in [Gor -> LocalsType]
      BY <3>1, <2>1, <2>2, <1>9, BucketAssumption DEF Collect, TypeOK
    <3> QED BY <3>2, <2>2, <2>1, <1>9, BucketAssumption DEF Collect, TypeOK
  <2>3. CASE i = BucketCount
    <3>1. reg' \in [Gor -> LocalsType]
      BY <2>1, <2>3, <1>9, BucketAssumption DEF Collect, TypeOK
    <3> QED BY SMTT(60), <3>1, <2>3, <1>9, BucketAssumption DEF Collect, TypeOK, Goto, PcSet
  <2> QED BY <2>1, <2>2, <2>3, BucketAssumption
<1>10. ASSUME NEW g \in Gor, Sum(g) PROVE TypeOK'
  <2> DEFINE i == reg[g].i
  <2>1. i \in 0 .. BucketCount /\ reg[g].sum \in Nat
    BY Zenon DEF TypeOK
  <2>2. CASE i < BucketCount
    <3>1. i + 1 \in 0 .. BucketCount /\ i \in BucketIds
      BY <2>1, <2>2, BucketAssumption DEF BucketIds
    <3>2. win[i].count \in Nat
      BY Zenon, <3>1 DEF TypeOK
    <3>3. reg' \in [Gor -> LocalsType]
      <4> DEFINE v == IF i \in reg[g].kept THEN reg[g].sum + win[i].count ELSE reg[g].sum
      <4>1. v \in Nat
        BY <3>2, <2>1
      <4>2. reg' = [reg EXCEPT ![g].i = i + 1, ![g].sum = v]
        BY <2>1, <2>2, <1>10, BucketAssumption DEF Sum
      <4> HIDE DEF v
      <4> QED BY ZenonT(80), <4>1, <4>2, <3>1 DEF TypeOK
    <3> QED BY <3>3, <2>2, <2>1, <1>10, BucketAssumption DEF Sum, TypeOK
  <2>3. CASE i = BucketCount
    BY <2>3, <1>10, BucketAssumption DEF Sum, TypeOK, Goto, PcSet
  <2> QED BY <2>1, <2>2, <2>3, BucketAssumption
<1>11. ASSUME NEW g \in Gor, Return(g) PROVE TypeOK'
  BY Zenon, <1>11, <1>0 DEF Return, TypeOK, Goto, Leave, PcSet
<1>12. CASE UNCHANGED vars
  BY Zenon, <1>12 DEF vars, TypeOK
<1> QED
  BY Zenon, <1>1, <1>2, <1>3, <1>4, <1>5, <1>6, <1>7, <1>8, <1>9, <1>10, <1>11, <1>12
     DEF Next, Step

\* Every variable of the leap array keeps its type.
THEOREM LeapArrayTypeCorrect == Spec => []TypeOK
BY TypeInit, TypeNext, PTL DEF Spec

-----------------------------------------------------------------------------
(* Starts stay aligned                                                     *)

LEMMA AlignedNext == TypeOK /\ Aligned /\ [Next]_vars => Aligned'
<1> SUFFICES ASSUME TypeOK, Aligned, [Next]_vars PROVE Aligned'
  OBVIOUS
<1>1. ASSUME NEW g \in Gor, StoreStart(g) PROVE Aligned'
  <2>1. win' = [win EXCEPT ![Slot(g)] = [start |-> Wanted(g), count |-> win[Slot(g)].count]]
    BY Zenon, <1>1 DEF StoreStart
  <2>2. StartOf(Wanted(g)) = Wanted(g) /\ IdxOf(Wanted(g)) = Slot(g)
    BY Zenon, SlotType, StartIdempotent DEF Slot, Wanted
  <2> QED BY <2>1, <2>2, SlotType DEF Aligned, TypeOK
<1>2. ASSUME NEW g \in Gor, ResetCount(g) PROVE Aligned'
  BY Zenon, <1>2, SlotType DEF ResetCount, Aligned, TypeOK
<1>3. ASSUME NEW g \in Gor, Add(g) PROVE Aligned'
  BY Zenon, <1>3, SlotType DEF Add, Aligned, TypeOK
<1>4. CASE UNCHANGED win
  BY Zenon, <1>4 DEF Aligned
<1> QED
  BY Zenon, <1>1, <1>2, <1>3, <1>4
     DEF Next, Step, Tick, Begin, LoadBucketStart, TryLock, Unlock, Collect, Sum, Return, vars

\* Under every interleaving of currentBucketOfTime and ResetBucketTo, whatever
\* the delays, the start of a bucket is a boundary with that bucket's index.
THEOREM StartsStayAligned == Spec => []Aligned
<1>1. Init => Aligned
  BY FirstStartAligned DEF Init, Aligned
<1> QED
  BY <1>1, LeapArrayTypeCorrect, AlignedNext, PTL DEF Spec

-----------------------------------------------------------------------------
(* Buckets are not rewound                                                 *)

\* The clock an operation works with is at most MaxLag old.
LagBounded ==
    \A g \in Gor : pc[g] # "idle" => reg[g].t <= now /\ now <= reg[g].t + MaxLag

\* The bucket that an operation has decided to reset does not lie ahead.
ResetNotAhead ==
    \A g \in Gor : pc[g] \in {"tryLock", "storeStart"} => win[Slot(g)].start <= now

\* One operation's step leaves the other operations where they are, and keeps the
\* clock it works with until it returns.
LEMMA StepLocal ==
    ASSUME TypeOK, NEW g \in Gor, Step(g)
    PROVE  /\ now' = now
           /\ \A h \in Gor \ {g} : pc'[h] = pc[h] /\ reg'[h] = reg[h]
           /\ pc'[g] = "idle" \/ reg'[g].t = reg[g].t
<1>1. CASE Collect(g)
  BY <1>1 DEF Collect, TypeOK, Goto
<1>2. CASE Sum(g)
  BY ZenonT(40), <1>2 DEF Sum, TypeOK, Goto
<1> QED
  BY Zenon, <1>1, <1>2 DEF Step, LoadBucketStart, TryLock, StoreStart, ResetCount, Unlock, Add,
                    Return, Goto, Leave, TypeOK

LEMMA LagNext == TypeOK /\ LagBounded /\ [Next]_vars => LagBounded'
<1> SUFFICES ASSUME TypeOK, LagBounded, [Next]_vars PROVE LagBounded'
  OBVIOUS
<1>1. CASE Tick
  BY <1>1, BoundAssumption DEF Tick, LagBounded, TypeOK
<1>2. ASSUME NEW g \in Gor, Begin(g) PROVE LagBounded'
  BY <1>2, BoundAssumption DEF Begin, Goto, LagBounded, TypeOK, Locals
<1>3. ASSUME NEW g \in Gor, Step(g) PROVE LagBounded'
  <2>1. now' = now /\ pc[g] # "idle"
    BY Zenon, <1>3 DEF Step, LoadBucketStart, TryLock, StoreStart, ResetCount, Unlock, Add,
                Collect, Sum, Return
  <2> QED BY <2>1, <1>3, StepLocal DEF LagBounded
<1>4. CASE UNCHANGED vars
  BY Zenon, <1>4 DEF vars, LagBounded
<1> QED
  BY Zenon, <1>1, <1>2, <1>3, <1>4 DEF Next

LEMMA ResetNext ==
    TypeOK /\ LagBounded /\ ResetNotAhead /\ [Next]_vars => ResetNotAhead'
<1> SUFFICES ASSUME TypeOK, LagBounded, ResetNotAhead, [Next]_vars,
                    NEW h \in Gor, pc'[h] \in {"tryLock", "storeStart"}
             PROVE  win'[Slot(h)'].start <= now'
  BY Zenon DEF ResetNotAhead
<1>1. CASE Tick
  BY <1>1, SlotType DEF Tick, ResetNotAhead, TypeOK, Slot
<1>2. ASSUME NEW g \in Gor, Begin(g) PROVE win'[Slot(h)'].start <= now'
  BY Zenon, <1>2 DEF Begin, Goto, ResetNotAhead, TypeOK, Slot
<1>3. ASSUME NEW g \in Gor, Step(g) PROVE win'[Slot(h)'].start <= now'
  <2>1. now' = now /\ Slot(h)' = Slot(h)
    BY Zenon, <1>3, StepLocal DEF Slot
  <2>2. Slot(h) \in BucketIds /\ Slot(g) \in BucketIds /\ Wanted(g) \in Nat
    BY Zenon, SlotType
  <2>3. CASE LoadBucketStart(g)
    <3>1. win' = win
      BY Zenon, <2>3 DEF LoadBucketStart
    <3>2. CASE h # g
      BY Zenon, <3>1, <3>2, <2>1, <1>3, StepLocal DEF ResetNotAhead
    <3>3. CASE h = g
      <4>1. Wanted(g) > win[Slot(g)].start
        BY Zenon, <2>3, <3>3 DEF LoadBucketStart, Goto, Leave, Resume, TypeOK
      <4>2. Wanted(g) <= reg[g].t /\ reg[g].t <= now
        BY Zenon, <2>3, SlotType, BucketArithmetic DEF Wanted, LagBounded, LoadBucketStart
      <4>3. win[Slot(g)].start \in Nat /\ reg[g].t \in Nat /\ now \in Nat
        BY Zenon, <2>2, SlotType DEF TypeOK
      <4> QED BY <4>1, <4>2, <4>3, <3>1, <3>3, <2>1, <2>2
    <3> QED BY <3>2, <3>3
  <2>4. CASE StoreStart(g)
    <3>1. h # g
      BY Zenon, <2>4 DEF StoreStart, Goto, TypeOK
    <3>2. win[Slot(h)].start <= now
      BY Zenon, <3>1, <1>3, StepLocal DEF ResetNotAhead
    <3>3. Wanted(g) <= now
      <4>1. Wanted(g) <= reg[g].t /\ reg[g].t \in Nat
        BY Zenon, SlotType, BucketArithmetic DEF Wanted
      <4>2. reg[g].t <= now
        BY Zenon, <2>4 DEF LagBounded, StoreStart
      <4> QED BY <4>1, <4>2, <2>2 DEF TypeOK
    <3> QED BY <3>2, <3>3, <2>1, <2>2, <2>4 DEF StoreStart, TypeOK
  <2>5. CASE ~LoadBucketStart(g) /\ ~StoreStart(g)
    <3>1. \A i \in BucketIds : win'[i].start = win[i].start
      BY <1>3, <2>2, <2>5 DEF Step, TryLock, ResetCount, Unlock, Add, Collect, Sum,
                              Return, TypeOK
    <3>2. pc[h] \in {"tryLock", "storeStart"}
      <4>1. CASE h = g
        <5>1. CASE Collect(g)
          BY Zenon, <4>1, <5>1 DEF Collect, Goto, TypeOK
        <5>2. CASE Sum(g)
          BY Zenon, <4>1, <5>2 DEF Sum, Goto, TypeOK
        <5> QED BY <1>3, <2>5, <4>1, <5>1, <5>2
              DEF Step, TryLock, ResetCount, Unlock, Add, Return, Goto, Leave, Resume, TypeOK
      <4>2. CASE h # g
        BY Zenon, <1>3, <4>2, StepLocal
      <4> QED BY <4>1, <4>2
    <3> QED BY <3>1, <3>2, <2>1, <2>2 DEF ResetNotAhead
  <2> QED BY <2>3, <2>4, <2>5
<1>4. CASE UNCHANGED vars
  BY Zenon, <1>4 DEF vars, ResetNotAhead, Slot
<1> QED
  BY Zenon, <1>1, <1>2, <1>3, <1>4 DEF Next

\* A step rewinds no bucket.
LEMMA StepForward ==
    ASSUME MaxLag <= Interval - BucketLen, TypeOK, Aligned, LagBounded, ResetNotAhead,
           [Next]_vars, NEW i \in BucketIds
    PROVE  win'[i].start >= win[i].start
<1>0. win[i].start \in Nat
  BY Zenon DEF TypeOK
<1>1. ASSUME NEW g \in Gor, StoreStart(g) PROVE win'[i].start >= win[i].start
  <2>1. CASE i # Slot(g)
    BY <2>1, <1>0, <1>1 DEF StoreStart, TypeOK
  <2>2. CASE i = Slot(g)
    <3> DEFINE s == win[i].start
               t == reg[g].t
    <3>1. StartOf(s) = s /\ IdxOf(s) = IdxOf(t) /\ s \in Nat /\ t \in Nat
      BY Zenon, <2>2, SlotType DEF Aligned, TypeOK, Slot
    <3>2. s <= now /\ now <= t + MaxLag /\ now \in Nat
      BY Zenon, <1>1, <2>2 DEF ResetNotAhead, LagBounded, StoreStart, TypeOK
    <3>3. t < StartOf(t) + BucketLen /\ StartOf(t) \in Nat /\ Interval \in Nat
      <4>1. StartOf(t) \in Nat /\ Interval \in Nat
        BY <3>1, BucketAssumption, BucketArithmetic DEF Interval
      <4>2. t % BucketLen < BucketLen /\ t % BucketLen \in Nat
        BY <3>1, BucketAssumption
      <4> HIDE DEF t
      <4> QED BY <4>1, <4>2, <3>1, BucketAssumption DEF StartOf
    <3> HIDE DEF s, t
    <3>4. s < StartOf(t) + Interval
      BY <3>1, <3>2, <3>3, BoundAssumption, BucketAssumption
    <3>5. s <= StartOf(t)
      BY Zenon, <3>1, <3>4, NotAhead
    <3>6. win'[i].start = StartOf(t)
      BY Zenon, <1>1, <2>2 DEF StoreStart, TypeOK, Wanted, t
    <3> QED BY <3>1, <3>3, <3>5, <3>6 DEF s
  <2> QED BY <2>1, <2>2
<1>2. ASSUME NEW g \in Gor, ResetCount(g) PROVE win'[i].start >= win[i].start
  BY <1>0, <1>2, SlotType DEF ResetCount, TypeOK
<1>3. ASSUME NEW g \in Gor, Add(g) PROVE win'[i].start >= win[i].start
  BY <1>0, <1>3, SlotType DEF Add, TypeOK
<1>4. CASE UNCHANGED win
  BY <1>0, <1>4
<1> QED
  BY Zenon, <1>1, <1>2, <1>3, <1>4
     DEF Next, Step, Tick, Begin, LoadBucketStart, TryLock, Unlock, Collect, Sum, Return, vars

\* currentBucketOfTime compares first and locks afterwards, and ResetBucketTo
\* stores without comparing again.  That never rewinds a bucket when operations
\* are delayed by at most Interval - BucketLen.
THEOREM BucketsNeverRewound ==
    ASSUME MaxLag <= Interval - BucketLen
    PROVE  Spec => NeverRewound
<1>1. Init => LagBounded /\ ResetNotAhead
  BY Zenon DEF Init, LagBounded, ResetNotAhead
<1>2. TypeOK /\ Aligned /\ LagBounded /\ ResetNotAhead /\ [Next]_vars
        => [\A i \in BucketIds : win'[i].start >= win[i].start]_vars
  BY Zenon, StepForward
<1> QED
  BY <1>1, <1>2, LeapArrayTypeCorrect, StartsStayAligned, LagNext, ResetNext, PTL
     DEF Spec, NeverRewound

-----------------------------------------------------------------------------
(* The first cycle is exact                                                *)

\* No bucket has been reset, and nobody is about to.
FirstCycle ==
    /\ \A i \in BucketIds : win[i].start = FirstStart(i)
    /\ now >= StartTime /\ now <= MaxTime
    /\ \A g \in Gor :
         /\ pc[g] \notin {"tryLock", "storeStart", "resetCount", "unlock"}
         /\ pc[g] # "idle" => reg[g].t >= StartTime /\ reg[g].t <= MaxTime

\* A bucket's counter and the adds made for its span agree.
Counted ==
    \A i \in BucketIds :
        win[i].count = IF FirstStart(i) \in Starts THEN added[FirstStart(i)] ELSE 0

\* The clock does not go back.
LEMMA ClockForward == TypeOK /\ [Next]_vars => now <= now'
<1> SUFFICES ASSUME TypeOK, [Next]_vars PROVE now <= now'
  OBVIOUS
<1>1. now \in Nat
  BY Zenon DEF TypeOK
<1>2. CASE \E g \in Gor : Step(g)
  BY <1>1, <1>2, StepLocal
<1>3. CASE Tick \/ UNCHANGED vars \/ \E g \in Gor : Begin(g)
  BY <1>1, <1>3 DEF Tick, Begin, vars
<1> QED
  BY Zenon, <1>2, <1>3 DEF Next

LEMMA FirstCycleNext ==
    ASSUME TypeOK, LagBounded, FirstCycle, Counted, [Next]_vars,
           now' < StartOf(StartTime) + Interval
    PROVE  FirstCycle' /\ Counted'
<1>1. CASE Tick
  BY <1>1, BoundAssumption, BucketAssumption DEF Tick, FirstCycle, Counted, TypeOK
<1>2. ASSUME NEW g \in Gor, Begin(g) PROVE FirstCycle' /\ Counted'
  BY <1>2 DEF Begin, Goto, FirstCycle, Counted, TypeOK, Locals
<1>3. ASSUME NEW g \in Gor, Step(g) PROVE FirstCycle' /\ Counted'
  <2>0. pc[g] # "idle"
    BY Zenon, <1>3 DEF Step, LoadBucketStart, TryLock, StoreStart, ResetCount, Unlock, Add,
                Collect, Sum, Return
  <2>1. Slot(g) \in BucketIds /\ Wanted(g) \in Nat /\ FirstStart(Slot(g)) = Wanted(g)
    <3>1. now' = now /\ reg[g].t <= now /\ reg[g].t >= StartTime /\ reg[g].t \in Nat
      BY Zenon, <1>3, <2>0, StepLocal, SlotType DEF LagBounded, FirstCycle
    <3>2. StartOf(StartTime) + Interval \in Nat /\ now \in Nat
      BY BucketArithmetic, BucketAssumption DEF TypeOK, Interval
    <3>3. reg[g].t < StartOf(StartTime) + Interval
      BY <3>1, <3>2
    <3> QED BY <3>1, <3>3, SlotType, FirstCycleStart DEF Slot, Wanted
  <2>a. ASSUME pc'[g] \notin {"tryLock", "storeStart", "resetCount", "unlock"},
               win' = win, added' = added, now' = now
        PROVE  FirstCycle' /\ Counted'
    <3>1. \A h \in Gor \ {g} : pc'[h] = pc[h] /\ reg'[h] = reg[h]
      BY Zenon, <1>3, StepLocal
    <3>2. pc'[g] = "idle" \/ reg'[g].t = reg[g].t
      BY Zenon, <1>3, StepLocal
    <3>3. FirstCycle'
      BY Zenon, <2>0, <2>a, <3>1, <3>2 DEF FirstCycle
    <3>4. Counted'
      BY Zenon, <2>a DEF Counted
    <3> QED BY <3>3, <3>4
  <2>2. CASE LoadBucketStart(g)
    <3>1. Wanted(g) = win[Slot(g)].start
      BY Zenon, <2>1 DEF FirstCycle
    <3>2. pc' = [pc EXCEPT ![g] = Resume(g)] /\ UNCHANGED <<win, added, now, reg>>
      BY <2>2, <3>1, <2>1 DEF LoadBucketStart, Goto
    <3>3. pc'[g] \in {"add", "collect"}
      BY Zenon, <3>2 DEF Resume, TypeOK
    <3> QED BY <3>2, <3>3, <2>a
  <2>3. CASE Add(g)
    <3>1. Wanted(g) \in Starts
      <4>1. reg[g].t \in 0 .. MaxTime
        BY <2>0, SlotType, BoundAssumption DEF FirstCycle
      <4> QED BY <4>1 DEF Starts, Wanted
    <3>2. FirstCycle'
      BY Zenon, <2>1, <2>3 DEF Add, FirstCycle, TypeOK, Goto, Leave
    <3>3. ASSUME NEW i \in BucketIds
          PROVE  win'[i].count = IF FirstStart(i) \in Starts THEN added'[FirstStart(i)] ELSE 0
      <4>1. CASE i = Slot(g)
        <5>1. win'[i].count = win[i].count + 1
          BY Zenon, <2>1, <2>3, <4>1 DEF Add, TypeOK
        <5>2. added'[Wanted(g)] = added[Wanted(g)] + 1
          BY Zenon, <2>3, <3>1 DEF Add, TypeOK
        <5> QED BY <5>1, <5>2, <4>1, <2>1, <3>1 DEF Counted
      <4>2. CASE i # Slot(g)
        <5>1. FirstStart(i) # Wanted(g)
          BY Zenon, <2>1, <4>2, FirstStartAligned
        <5>2. win'[i].count = win[i].count
          BY Zenon, <2>1, <2>3, <4>2 DEF Add, TypeOK
        <5>3. FirstStart(i) \in Starts => added'[FirstStart(i)] = added[FirstStart(i)]
          BY Zenon, <5>1, <2>3 DEF Add, TypeOK
        <5> QED BY <5>2, <5>3 DEF Counted
      <4> QED BY <4>1, <4>2
    <3> QED BY <3>2, <3>3 DEF Counted
  <2>4. CASE Collect(g)
    <3>1. pc'[g] \in {"collect", "sum"} /\ UNCHANGED <<win, added, now>>
      BY Zenon, <2>4 DEF Collect, Goto, TypeOK
    <3> QED BY <3>1, <2>a
  <2>5. CASE Sum(g)
    <3>1. pc'[g] \in {"sum", "return"} /\ UNCHANGED <<win, added, now>>
      BY Zenon, <2>5 DEF Sum, Goto, TypeOK
    <3> QED BY <3>1, <2>a
  <2>6. CASE Return(g)
    BY Zenon, <2>6 DEF Return, Leave, Goto, FirstCycle, Counted, TypeOK
  <2> QED
    BY Zenon, <1>3, <2>2, <2>3, <2>4, <2>5, <2>6
       DEF Step, TryLock, StoreStart, ResetCount, Unlock, FirstCycle
<1>4. CASE UNCHANGED vars
  BY Zenon, <1>4 DEF vars, FirstCycle, Counted
<1> QED
  BY Zenon, <1>1, <1>2, <1>3, <1>4 DEF Next

\* Until the ring wraps, every add is in the bucket of its span: the starts that
\* NewAtomicBucketWrapArrayWithTime gives the buckets are those currentBucketOfTime
\* will ask for, so no bucket is reset and no add is lost.
THEOREM FirstCycleIsExact == Spec => []FirstCycleExact
<1> DEFINE First == now < StartOf(StartTime) + Interval
           I == First => FirstCycle /\ Counted
<1>1. Init => I /\ LagBounded
  <2> SUFFICES ASSUME Init PROVE FirstCycle /\ Counted
    BY Zenon DEF Init, LagBounded
  <2>1. FirstCycle
    BY BoundAssumption, BucketAssumption DEF Init, FirstCycle
  <2>2. Counted
    BY Zenon DEF Init, Counted
  <2> QED BY <2>1, <2>2
<1>2. TypeOK /\ LagBounded /\ I /\ [Next]_vars => I'
  <2> SUFFICES ASSUME TypeOK, LagBounded, I, [Next]_vars, First' PROVE FirstCycle' /\ Counted'
    OBVIOUS
  <2>1. now \in Nat /\ now <= now'
    BY Zenon, ClockForward DEF TypeOK
  <2>2. now' \in Nat /\ StartOf(StartTime) + Interval \in Nat
    <3>1. now' \in Nat
      BY Zenon, TypeNext DEF TypeOK
    <3> QED BY <3>1, BucketArithmetic, BucketAssumption DEF Interval
  <2>3. First
    BY <2>1, <2>2
  <2> QED BY <2>3, FirstCycleNext
<1>3. I => FirstCycleExact
  BY Zenon DEF FirstCycleExact, FirstCycle, Counted
<1> HIDE DEF I
<1> QED
  BY <1>1, <1>2, <1>3, LagNext, LeapArrayTypeCorrect, PTL DEF Spec
=============================================================================
