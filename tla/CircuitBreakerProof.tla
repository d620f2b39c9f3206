------------------------ MODULE CircuitBreakerProof ------------------------
(***************************************************************************)
(* Proofs about CircuitBreaker, for any set of goroutines, any rule and    *)
(* any number of buckets.                                                  *)
(***************************************************************************)
EXTENDS BreakerReload, TLAPS

----------------------------------------------------------------------------
(* The time arithmetic of the buckets (BucketTime), as in LeapArrayProof.  *)

\* StartOf rounds down, and IdxOf is an index of the array.
LEMMA BucketArithmetic ==
    ASSUME NEW t \in Nat
    PROVE  StartOf(t) \in Nat /\ StartOf(t) <= t /\ IdxOf(t) \in BucketIds
BY BucketAssumption DEF StartOf, IdxOf, BucketIds

\* A start is a multiple of the bucket length.
LEMMA StartIsMultiple ==
    ASSUME NEW t \in Nat
    PROVE  StartOf(t) = BucketLen * (t \div BucketLen) /\ t \div BucketLen \in Nat
BY BucketAssumption DEF StartOf

\* StartOf is monotone.
LEMMA StartMonotone ==
    ASSUME NEW t \in Nat, NEW u \in Nat, t <= u
    PROVE  StartOf(t) <= StartOf(u)
<1> DEFINE a == t \div BucketLen
           b == u \div BucketLen
<1>1. a \in Nat /\ b \in Nat /\ a <= b
  BY BucketAssumption
<1>2. StartOf(t) = BucketLen * a /\ StartOf(u) = BucketLen * b
  BY StartIsMultiple
<1> HIDE DEF a, b
<1>3. BucketLen * a <= BucketLen * b
  BY <1>1, BucketAssumption
<1> QED
  BY <1>2, <1>3

\* Going from a to b round a ring of K places takes at most b - a steps.
LEMMA RingDistance ==
    ASSUME NEW K \in Nat \ {0}, NEW a \in Nat, NEW b \in Nat, a <= b
    PROVE  /\ ((b % K) + K - (a % K)) % K \in Nat
           /\ a + (((b % K) + K - (a % K)) % K) <= b
OBVIOUS

\* The initial start of a bucket is a time.
LEMMA FirstStartType ==
    ASSUME NEW i \in BucketIds
    PROVE  FirstStart(i) \in Nat
<1> DEFINE off == (i + BucketCount - IdxOf(StartTime)) % BucketCount
<1>1. IdxOf(StartTime) \in BucketIds /\ StartOf(StartTime) \in Nat
  BY BucketArithmetic, BucketAssumption
<1>2. off \in Nat
  BY <1>1, BucketAssumption DEF BucketIds
<1> HIDE DEF off
<1>3. StartOf(StartTime) + off * BucketLen \in Nat
  BY <1>1, <1>2, BucketAssumption
<1> QED
  BY <1>3 DEF off, FirstStart

\* The initial start of the bucket of time t does not lie ahead of t.
LEMMA FirstStartNotAhead ==
    ASSUME NEW t \in Nat, t >= StartTime
    PROVE  FirstStart(IdxOf(t)) <= StartOf(t)
<1> DEFINE a == StartTime \div BucketLen
           b == t \div BucketLen
           d == ((b % BucketCount) + BucketCount - (a % BucketCount)) % BucketCount
<1>1. a \in Nat /\ b \in Nat /\ a <= b
  BY BucketAssumption
<1>2. StartOf(t) = BucketLen * b /\ StartOf(StartTime) = BucketLen * a
  BY StartIsMultiple, BucketAssumption
<1>3. FirstStart(IdxOf(t)) = StartOf(StartTime) + d * BucketLen
  BY DEF FirstStart, IdxOf
<1> HIDE DEF a, b
<1>4. d \in Nat /\ a + d <= b
  BY <1>1, RingDistance, BucketAssumption
<1> HIDE DEF d
<1>5. BucketLen * a + d * BucketLen = BucketLen * (a + d) /\ BucketLen * (a + d) <= BucketLen * b
  BY <1>1, <1>4, BucketAssumption
<1> QED
  BY <1>2, <1>3, <1>5

----------------------------------------------------------------------------
(* Type correctness.                                                       *)

\* The buckets start out well typed.
LEMMA InitialWinType ==
    InitialWin \in [BucketIds -> [start : Nat, bad : Nat, total : Nat]]
BY Zenon, FirstStartType DEF InitialWin

\* A goroutine that moves on, or leaves, keeps the types of its locals.
LEMMA MoveType ==
    ASSUME TypeOK, NEW r \in Req, NEW l \in PcSet, Goto(r, l) \/ Leave(r)
    PROVE  /\ pc' \in [Req -> PcSet]
           /\ reg' \in [Req -> [time : Nat, bad : BOOLEAN, reached : BOOLEAN]]
           /\ hooked' \subseteq Req
<1>1. "idle" \in PcSet
  BY Zenon DEF PcSet
<1>2. NoLocals \in [time : Nat, bad : BOOLEAN, reached : BOOLEAN]
  BY Zenon DEF NoLocals
<1>3. CASE Goto(r, l)
  BY Zenon, <1>3 DEF Goto, TypeOK
<1>4. CASE Leave(r)
  BY Zenon, <1>1, <1>2, <1>4 DEF Leave, TypeOK
<1> QED
  BY Zenon, <1>3, <1>4

\* currentCounter keeps the types, wherever it is called.
LEMMA CountType ==
    ASSUME TypeOK, NEW r \in Req, NEW here, NEW next \in PcSet, CountAt(r, here, next)
    PROVE  TypeOK'
<1> DEFINE i == IdxOf(reg[r].time)
           start == StartOf(reg[r].time)
           One == IF reg[r].bad THEN 1 ELSE 0
<1>1. i \in BucketIds /\ start \in Nat /\ One \in Nat
  BY Zenon, BucketArithmetic DEF TypeOK
<1>2. \/ win' = [win EXCEPT ![i] = [start |-> start, bad |-> One, total |-> 1]]
      \/ win' = [win EXCEPT ![i] = [start |-> @.start, bad |-> @.bad + One, total |-> @.total + 1]]
      \/ win' = win
  BY Zenon DEF CountAt
<1>3. Goto(r, next) \/ Leave(r)
  BY Zenon DEF CountAt
<1>4. UNCHANGED <<now, breaker, entries, owner>>
  BY Zenon DEF CountAt
<1> HIDE DEF i, start, One
<1>5. win' \in [BucketIds -> [start : Nat, bad : Nat, total : Nat]]
  BY <1>1, <1>2 DEF TypeOK
<1> QED
  BY Zenon, <1>3, <1>4, <1>5, MoveType DEF TypeOK, breaker

LEMMA TypeInit == Init => TypeOK
BY InitialWinType, BucketAssumption DEF Init, TypeOK, NoLocals, PcSet, States

LEMMA TypeNext == TypeOK /\ [Next]_vars => TypeOK'
<1> SUFFICES ASSUME TypeOK, [Next]_vars PROVE TypeOK'
  OBVIOUS
<1> USE DEF PcSet, Replaced, Unsettled, Settling, States
<1>1. CASE Tick
  BY <1>1 DEF Tick, TypeOK, breaker
<1>2. ASSUME NEW r \in Req, Enter(r) PROVE TypeOK'
  BY <1>2, MoveType DEF Enter, TypeOK, breaker
<1>3. ASSUME NEW r \in Req, TryPass(r) PROVE TypeOK'
  BY Zenon, <1>3, MoveType DEF TryPass, TypeOK, breaker
<1>4. ASSUME NEW r \in Req, RetryTimeoutArrived(r) PROVE TypeOK'
  BY Zenon, <1>4, MoveType DEF RetryTimeoutArrived, TypeOK, breaker
<1>5. ASSUME NEW r \in Req, FromOpenToHalfOpen(r) PROVE TypeOK'
  BY Zenon, <1>5, MoveType DEF FromOpenToHalfOpen, TypeOK, breaker
<1>6. ASSUME NEW r \in Req, RestOfSlots(r) PROVE TypeOK'
  BY Zenon, <1>6, MoveType DEF RestOfSlots, TypeOK, breaker
<1>7. ASSUME NEW r \in Req, RollBackHook(r) PROVE TypeOK'
  BY Zenon, <1>7, MoveType DEF RollBackHook, TypeOK, breaker
<1>8. ASSUME NEW r \in Req, OnCompleted(r) PROVE TypeOK'
  <2>1. now \in Nat /\ reg \in [Req -> [time : Nat, bad : BOOLEAN, reached : BOOLEAN]]
    BY Zenon DEF TypeOK
  <2>2. reg' \in [Req -> [time : Nat, bad : BOOLEAN, reached : BOOLEAN]]
    <3>1. PICK bad \in BOOLEAN : reg' = [reg EXCEPT ![r] = [time |-> now, bad |-> bad, reached |-> FALSE]]
      BY Zenon, <1>8 DEF OnCompleted
    <3>2. [time |-> now, bad |-> bad, reached |-> FALSE] \in [time : Nat, bad : BOOLEAN, reached : BOOLEAN]
      BY Zenon, <2>1
    <3> QED
      BY Zenon, <2>1, <3>1, <3>2
  <2> QED
    BY Zenon, <1>8, <2>2 DEF OnCompleted, TypeOK, breaker
<1>9. ASSUME NEW r \in Req, CurrentCounter(r) PROVE TypeOK'
  BY Zenon, <1>9, CountType DEF CurrentCounter
<1>10. ASSUME NEW r \in Req, AllCounter(r) PROVE TypeOK'
  <2>1. ThresholdReached \in BOOLEAN
    BY Zenon DEF ThresholdReached
  <2> QED
    BY Zenon, <1>10, <2>1 DEF AllCounter, TypeOK, breaker
<1>11. ASSUME NEW r \in Req, CurrentState(r) PROVE TypeOK'
  BY Zenon, <1>11, MoveType DEF CurrentState, TypeOK, breaker
<1>12. ASSUME NEW r \in Req, AddCurProbeNum(r) PROVE TypeOK'
  BY <1>12, MoveType DEF AddCurProbeNum, TypeOK, breaker
<1>13. ASSUME NEW r \in Req, EnoughProbes(r) PROVE TypeOK'
  BY Zenon, <1>13, MoveType DEF EnoughProbes, TypeOK, breaker
<1>14. ASSUME NEW r \in Req, FromHalfOpenToClosed(r) PROVE TypeOK'
  BY Zenon, <1>14, MoveType DEF FromHalfOpenToClosed, TypeOK, breaker
<1>15. ASSUME NEW r \in Req, ResetMetric(r) PROVE TypeOK'
  BY ZenonT(40), <1>15, MoveType DEF ResetMetric, ResetAt, TypeOK, breaker
<1>16. ASSUME NEW r \in Req, FromHalfOpenToOpen(r) PROVE TypeOK'
  BY Zenon, <1>16, MoveType DEF FromHalfOpenToOpen, TypeOK, breaker
<1>17. ASSUME NEW r \in Req, ResetCurProbeNum(r) PROVE TypeOK'
  BY Zenon, <1>17, MoveType DEF ResetCurProbeNum, TypeOK, breaker
<1>18. ASSUME NEW r \in Req, RecheckState(r) PROVE TypeOK'
  BY Zenon, <1>18, MoveType DEF RecheckState, TypeOK, breaker
<1>19. ASSUME NEW r \in Req, FromClosedToOpen(r) PROVE TypeOK'
  BY Zenon, <1>19, MoveType DEF FromClosedToOpen, TypeOK, breaker
<1>20. ASSUME NEW r \in Req, ReadClock(r) PROVE TypeOK'
  BY Zenon, <1>20, MoveType DEF ReadClock, TypeOK, breaker
<1>21. ASSUME NEW r \in Req, UpdateNextRetryTimestamp(r) PROVE TypeOK'
  BY <1>21, MoveType, RuleAssumption DEF UpdateNextRetryTimestamp, TypeOK, breaker
<1>22. CASE UNCHANGED vars
  BY Zenon, <1>22 DEF vars, breaker, TypeOK
<1> QED
  BY Zenon, <1>1, <1>2, <1>3, <1>4, <1>5, <1>6, <1>7, <1>8, <1>9, <1>10, <1>11, <1>12, <1>13, <1>14, <1>15, <1>16, <1>17, <1>18, <1>19, <1>20, <1>21, <1>22 DEF Next, Step

\* The breaker's fields, the counters and the goroutines' locals keep their
\* types: in particular no counter is ever decremented below zero.
THEOREM TypeCorrect == Spec => []TypeOK
BY TypeInit, TypeNext, PTL DEF Spec
----------------------------------------------------------------------------
(* The retry timestamp.                                                    *)

\* Every clock reading a goroutine holds is in the past, and the one it is
\* about to turn into a retry timestamp was made after the breaker was built.
ClockInv ==
    /\ now >= StartTime
    /\ \A r \in Req : /\ reg[r].time <= now
                      /\ pc[r] = "store" => reg[r].time >= StartTime

RetryInv == ClockInv /\ BoundedOutage /\ Armed

LEMMA RetryInit == Init => RetryInv
BY RuleAssumption, BucketAssumption
   DEF Init, RetryInv, ClockInv, BoundedOutage, Armed, NoLocals

\* Moving on, or leaving, keeps the readings in the past.
LEMMA MoveClock ==
    ASSUME TypeOK, ClockInv, now' = now, NEW r \in Req, NEW l \in PcSet, l # "store",
           Goto(r, l) \/ Leave(r)
    PROVE  ClockInv'
BY BucketAssumption DEF TypeOK, ClockInv, Goto, Leave, NoLocals

LEMMA RetryNext == TypeOK /\ RetryInv /\ [Next]_vars => RetryInv'
<1> SUFFICES ASSUME TypeOK, RetryInv, [Next]_vars PROVE RetryInv'
  OBVIOUS
<1> USE DEF PcSet, Replaced, Unsettled, Settling, States
<1>1. CASE Tick
  BY <1>1, RuleAssumption, BucketAssumption
     DEF Tick, RetryInv, ClockInv, BoundedOutage, Armed, TypeOK, breaker
<1>2. ASSUME NEW r \in Req, Enter(r) PROVE RetryInv'
  BY Zenon, <1>2, MoveClock DEF Enter, RetryInv, BoundedOutage, Armed, TypeOK, breaker, Goto
<1>3. ASSUME NEW r \in Req, TryPass(r) PROVE RetryInv'
  <2>1. ClockInv'
    BY Zenon, <1>3, MoveClock DEF TryPass, RetryInv
  <2>2. BoundedOutage' /\ Armed'
    BY Zenon, <1>3 DEF TryPass, RetryInv, BoundedOutage, Armed, TypeOK, breaker, Goto, Leave
  <2> QED
    BY Zenon, <2>1, <2>2 DEF RetryInv
<1>4. ASSUME NEW r \in Req, RetryTimeoutArrived(r) PROVE RetryInv'
  <2>1. ClockInv'
    BY Zenon, <1>4, MoveClock DEF RetryTimeoutArrived, RetryInv
  <2>2. BoundedOutage' /\ Armed'
    BY Zenon, <1>4 DEF RetryTimeoutArrived, RetryInv, BoundedOutage, Armed, TypeOK, breaker, Goto, Leave
  <2> QED
    BY Zenon, <2>1, <2>2 DEF RetryInv
<1>5. ASSUME NEW r \in Req, FromOpenToHalfOpen(r) PROVE RetryInv'
  <2>1. ClockInv'
    BY Zenon, <1>5, MoveClock DEF FromOpenToHalfOpen, RetryInv, ClockInv, TypeOK
  <2>2. BoundedOutage' /\ Armed'
    BY Zenon, <1>5 DEF FromOpenToHalfOpen, RetryInv, BoundedOutage, Armed, TypeOK, Leave
  <2> QED
    BY Zenon, <2>1, <2>2 DEF RetryInv
<1>6. ASSUME NEW r \in Req, RestOfSlots(r) PROVE RetryInv'
  <2>1. ClockInv'
    BY Zenon, <1>6, MoveClock DEF RestOfSlots, RetryInv
  <2>2. BoundedOutage' /\ Armed'
    BY Zenon, <1>6 DEF RestOfSlots, RetryInv, BoundedOutage, Armed, TypeOK, breaker, Goto, Leave
  <2> QED
    BY Zenon, <2>1, <2>2 DEF RetryInv
<1>7. ASSUME NEW r \in Req, RollBackHook(r) PROVE RetryInv'
  <2>1. ClockInv'
    BY Zenon, <1>7, MoveClock DEF RollBackHook, RetryInv
  <2>2. BoundedOutage' /\ Armed'
    BY Zenon, <1>7 DEF RollBackHook, RetryInv, BoundedOutage, Armed, TypeOK, breaker, Goto, Leave
  <2> QED
    BY Zenon, <2>1, <2>2 DEF RetryInv
<1>8. ASSUME NEW r \in Req, OnCompleted(r) PROVE RetryInv'
  <2>1. ClockInv'
    BY <1>8, BucketAssumption DEF OnCompleted, RetryInv, ClockInv, TypeOK
  <2>2. BoundedOutage' /\ Armed'
    BY Zenon, <1>8 DEF OnCompleted, RetryInv, BoundedOutage, Armed, TypeOK, breaker
  <2> QED
    BY Zenon, <2>1, <2>2 DEF RetryInv
<1>9. ASSUME NEW r \in Req, CurrentCounter(r) PROVE RetryInv'
  <2>1. ClockInv'
    BY Zenon, <1>9, MoveClock DEF CurrentCounter, CountAt, RetryInv
  <2>2. BoundedOutage' /\ Armed'
    BY Zenon, <1>9 DEF CurrentCounter, CountAt, RetryInv, BoundedOutage, Armed, TypeOK, breaker, Goto, Leave
  <2> QED
    BY Zenon, <2>1, <2>2 DEF RetryInv
<1>10. ASSUME NEW r \in Req, AllCounter(r) PROVE RetryInv'
  <2>1. ClockInv'
    BY <1>10, BucketAssumption DEF AllCounter, RetryInv, ClockInv, TypeOK
  <2>2. BoundedOutage' /\ Armed'
    BY Zenon, <1>10 DEF AllCounter, RetryInv, BoundedOutage, Armed, TypeOK, breaker
  <2> QED
    BY Zenon, <2>1, <2>2 DEF RetryInv
<1>11. ASSUME NEW r \in Req, CurrentState(r) PROVE RetryInv'
  <2>1. ClockInv'
    BY Zenon, <1>11, MoveClock DEF CurrentState, RetryInv
  <2>2. BoundedOutage' /\ Armed'
    BY Zenon, <1>11 DEF CurrentState, RetryInv, BoundedOutage, Armed, TypeOK, breaker, Goto, Leave
  <2> QED
    BY Zenon, <2>1, <2>2 DEF RetryInv
<1>12. ASSUME NEW r \in Req, AddCurProbeNum(r) PROVE RetryInv'
  <2>1. ClockInv'
    BY Zenon, <1>12, MoveClock DEF AddCurProbeNum, RetryInv
  <2>2. BoundedOutage' /\ Armed'
    BY Zenon, <1>12 DEF AddCurProbeNum, RetryInv, BoundedOutage, Armed, TypeOK, breaker, Goto, Leave
  <2> QED
    BY Zenon, <2>1, <2>2 DEF RetryInv
<1>13. ASSUME NEW r \in Req, EnoughProbes(r) PROVE RetryInv'
  <2>1. ClockInv'
    BY Zenon, <1>13, MoveClock DEF EnoughProbes, RetryInv
  <2>2. BoundedOutage' /\ Armed'
    BY Zenon, <1>13 DEF EnoughProbes, RetryInv, BoundedOutage, Armed, TypeOK, breaker, Goto, Leave
  <2> QED
    BY Zenon, <2>1, <2>2 DEF RetryInv
<1>14. ASSUME NEW r \in Req, FromHalfOpenToClosed(r) PROVE RetryInv'
  <2>1. ClockInv'
    BY Zenon, <1>14, MoveClock DEF FromHalfOpenToClosed, RetryInv
  <2>2. BoundedOutage' /\ Armed'
    BY Zenon, <1>14 DEF FromHalfOpenToClosed, RetryInv, BoundedOutage, Armed, TypeOK, breaker, Goto, Leave
  <2> QED
    BY Zenon, <2>1, <2>2 DEF RetryInv
<1>15. ASSUME NEW r \in Req, ResetMetric(r) PROVE RetryInv'
  <2>1. ClockInv'
    BY Zenon, <1>15, MoveClock DEF ResetMetric, ResetAt, RetryInv
  <2>2. BoundedOutage' /\ Armed'
    BY Zenon, <1>15 DEF ResetMetric, ResetAt, RetryInv, BoundedOutage, Armed, TypeOK, breaker, Goto, Leave
  <2> QED
    BY Zenon, <2>1, <2>2 DEF RetryInv
<1>16. ASSUME NEW r \in Req, FromHalfOpenToOpen(r) PROVE RetryInv'
  <2>1. ClockInv'
    BY Zenon, <1>16, MoveClock DEF FromHalfOpenToOpen, RetryInv
  <2>2. BoundedOutage' /\ Armed'
    BY Zenon, <1>16 DEF FromHalfOpenToOpen, RetryInv, BoundedOutage, Armed, TypeOK, breaker, Goto, Leave
  <2> QED
    BY Zenon, <2>1, <2>2 DEF RetryInv
<1>17. ASSUME NEW r \in Req, ResetCurProbeNum(r) PROVE RetryInv'
  <2>1. ClockInv'
    BY Zenon, <1>17, MoveClock DEF ResetCurProbeNum, RetryInv
  <2>2. BoundedOutage' /\ Armed'
    BY Zenon, <1>17 DEF ResetCurProbeNum, RetryInv, BoundedOutage, Armed, TypeOK, breaker, Goto, Leave
  <2> QED
    BY Zenon, <2>1, <2>2 DEF RetryInv
<1>18. ASSUME NEW r \in Req, RecheckState(r) PROVE RetryInv'
  <2>1. ClockInv'
    BY Zenon, <1>18, MoveClock DEF RecheckState, RetryInv
  <2>2. BoundedOutage' /\ Armed'
    BY Zenon, <1>18 DEF RecheckState, RetryInv, BoundedOutage, Armed, TypeOK, breaker, Goto, Leave
  <2> QED
    BY Zenon, <2>1, <2>2 DEF RetryInv
<1>19. ASSUME NEW r \in Req, FromClosedToOpen(r) PROVE RetryInv'
  <2>1. ClockInv'
    BY Zenon, <1>19, MoveClock DEF FromClosedToOpen, RetryInv
  <2>2. BoundedOutage' /\ Armed'
    BY Zenon, <1>19 DEF FromClosedToOpen, RetryInv, BoundedOutage, Armed, TypeOK, breaker, Goto, Leave
  <2> QED
    BY Zenon, <2>1, <2>2 DEF RetryInv
<1>20. ASSUME NEW r \in Req, ReadClock(r) PROVE RetryInv'
  <2>1. ClockInv'
    BY <1>20, BucketAssumption DEF ReadClock, RetryInv, ClockInv, TypeOK
  <2>2. BoundedOutage' /\ Armed'
    BY Zenon, <1>20 DEF ReadClock, RetryInv, BoundedOutage, Armed, TypeOK, breaker
  <2> QED
    BY Zenon, <2>1, <2>2 DEF RetryInv
<1>21. ASSUME NEW r \in Req, UpdateNextRetryTimestamp(r) PROVE RetryInv'
  <2>1. ClockInv'
    BY Zenon, <1>21, MoveClock DEF UpdateNextRetryTimestamp, RetryInv
  <2>2. nextRetry' >= StartTime + RetryTimeout /\ nextRetry' <= now + RetryTimeout
    BY <1>21, RuleAssumption, BucketAssumption DEF UpdateNextRetryTimestamp, RetryInv, ClockInv, TypeOK
  <2> QED
    BY Zenon, <1>21, <2>1, <2>2 DEF UpdateNextRetryTimestamp, RetryInv, BoundedOutage, Armed
<1>22. CASE UNCHANGED vars
  BY Zenon, <1>22 DEF vars, breaker, RetryInv, ClockInv, BoundedOutage, Armed
<1> QED
  BY Zenon, <1>1, <1>2, <1>3, <1>4, <1>5, <1>6, <1>7, <1>8, <1>9, <1>10, <1>11, <1>12, <1>13, <1>14, <1>15, <1>16, <1>17, <1>18, <1>19, <1>20, <1>21, <1>22 DEF Next, Step

\* The next probe is never pushed further than RetryTimeout from the present,
\* whatever the order in which late updateNextRetryTimestamp calls land.
THEOREM OutageIsBounded == Spec => []BoundedOutage
<1>1. TypeOK /\ RetryInv /\ [Next]_vars => (TypeOK /\ RetryInv)'
  BY Zenon, TypeNext, RetryNext
<1>2. RetryInv => BoundedOutage
  BY Zenon DEF RetryInv
<1> QED
  BY TypeInit, RetryInit, <1>1, <1>2, PTL DEF Spec

\* TryPass meets a breaker without a retry timestamp only while the goroutine
\* that opened it is between its compare-and-swap and its store.
THEOREM ArmedUnlessOpening == Spec => []Armed
<1>1. TypeOK /\ RetryInv /\ [Next]_vars => (TypeOK /\ RetryInv)'
  BY Zenon, TypeNext, RetryNext
<1>2. RetryInv => Armed
  BY Zenon DEF RetryInv
<1> QED
  BY TypeInit, RetryInit, <1>1, <1>2, PTL DEF Spec
----------------------------------------------------------------------------
(* A half-open breaker is settled.                                         *)

\* The breaker has an owner exactly while it is half-open, and with
\* ProbeNum = 0 an owner that the later slots may still block has its hook.
OwnerInv ==
    /\ owner # NoReq <=> state = "HalfOpen"
    /\ probeNum = 0 /\ owner # NoReq /\ pc[owner] = "slots" => owner \in hooked

\* No bucket lies ahead of a clock that is read from now on.
BucketsNotAhead == \A t \in Nat : t >= now => win[IdxOf(t)].start <= StartOf(t)

LEMMA OwnerInit == Init => OwnerInv
BY Zenon DEF Init, OwnerInv

LEMMA OwnerNext == TypeOK /\ OwnerInv /\ [Next]_vars => OwnerInv'
<1> SUFFICES ASSUME TypeOK, OwnerInv, [Next]_vars PROVE OwnerInv'
  OBVIOUS
<1> USE ReqAssumption, RuleAssumption DEF OwnerInv, TypeOK, breaker, Goto, Leave
<1>1. CASE Tick
  BY Zenon, <1>1 DEF Tick
<1>2. ASSUME NEW r \in Req, Enter(r) PROVE OwnerInv'
  BY Zenon, <1>2 DEF Enter
<1>3. ASSUME NEW r \in Req, TryPass(r) PROVE OwnerInv'
  BY <1>3 DEF TryPass
<1>4. ASSUME NEW r \in Req, RetryTimeoutArrived(r) PROVE OwnerInv'
  BY Zenon, <1>4 DEF RetryTimeoutArrived
<1>5. ASSUME NEW r \in Req, FromOpenToHalfOpen(r) PROVE OwnerInv'
  BY Zenon, <1>5 DEF FromOpenToHalfOpen
<1>6. ASSUME NEW r \in Req, RestOfSlots(r) PROVE OwnerInv'
  BY Zenon, <1>6 DEF RestOfSlots
<1>7. ASSUME NEW r \in Req, RollBackHook(r) PROVE OwnerInv'
  BY Zenon, <1>7 DEF RollBackHook
<1>8. ASSUME NEW r \in Req, OnCompleted(r) PROVE OwnerInv'
  BY Zenon, <1>8 DEF OnCompleted
<1>9. ASSUME NEW r \in Req, CurrentCounter(r) PROVE OwnerInv'
  BY Zenon, <1>9 DEF CurrentCounter, CountAt
<1>10. ASSUME NEW r \in Req, AllCounter(r) PROVE OwnerInv'
  BY Zenon, <1>10 DEF AllCounter
<1>11. ASSUME NEW r \in Req, CurrentState(r) PROVE OwnerInv'
  BY Zenon, <1>11 DEF CurrentState
<1>12. ASSUME NEW r \in Req, AddCurProbeNum(r) PROVE OwnerInv'
  BY Zenon, <1>12 DEF AddCurProbeNum
<1>13. ASSUME NEW r \in Req, EnoughProbes(r) PROVE OwnerInv'
  BY Zenon, <1>13 DEF EnoughProbes
<1>14. ASSUME NEW r \in Req, FromHalfOpenToClosed(r) PROVE OwnerInv'
  BY Zenon, <1>14 DEF FromHalfOpenToClosed
<1>15. ASSUME NEW r \in Req, ResetMetric(r) PROVE OwnerInv'
  BY Zenon, <1>15 DEF ResetMetric, ResetAt
<1>16. ASSUME NEW r \in Req, FromHalfOpenToOpen(r) PROVE OwnerInv'
  BY Zenon, <1>16 DEF FromHalfOpenToOpen
<1>17. ASSUME NEW r \in Req, ResetCurProbeNum(r) PROVE OwnerInv'
  BY Zenon, <1>17 DEF ResetCurProbeNum
<1>18. ASSUME NEW r \in Req, RecheckState(r) PROVE OwnerInv'
  BY Zenon, <1>18 DEF RecheckState
<1>19. ASSUME NEW r \in Req, FromClosedToOpen(r) PROVE OwnerInv'
  BY Zenon, <1>19 DEF FromClosedToOpen
<1>20. ASSUME NEW r \in Req, ReadClock(r) PROVE OwnerInv'
  BY Zenon, <1>20 DEF ReadClock
<1>21. ASSUME NEW r \in Req, UpdateNextRetryTimestamp(r) PROVE OwnerInv'
  BY Zenon, <1>21 DEF UpdateNextRetryTimestamp
<1>22. CASE UNCHANGED vars
  BY Zenon, <1>22 DEF vars
<1> QED
  BY Zenon, <1>1, <1>2, <1>3, <1>4, <1>5, <1>6, <1>7, <1>8, <1>9, <1>10, <1>11, <1>12, <1>13, <1>14, <1>15, <1>16, <1>17, <1>18, <1>19, <1>20, <1>21, <1>22 DEF Next, Step

LEMMA BucketsInit == Init => BucketsNotAhead
BY FirstStartNotAhead, BucketArithmetic, BucketAssumption DEF Init, BucketsNotAhead, InitialWin

\* currentCounter leaves the start of a bucket alone or moves it to the start of
\* the time that was read.
LEMMA CountMoves ==
    ASSUME TypeOK, NEW r \in Req, NEW here, NEW next, CountAt(r, here, next), NEW t \in Nat
    PROVE  win'[IdxOf(t)].start \in {win[IdxOf(t)].start, StartOf(reg[r].time)}
<1> DEFINE u == reg[r].time
<1>1. IdxOf(t) \in BucketIds /\ IdxOf(u) \in BucketIds
  BY Zenon, BucketArithmetic DEF TypeOK
<1>2. \/ win' = win
      \/ \E b, n : win' = [win EXCEPT ![IdxOf(u)] = [start |-> StartOf(u), bad |-> b, total |-> n]]
      \/ \E b, n : win' = [win EXCEPT ![IdxOf(u)] = [start |-> @.start, bad |-> b, total |-> n]]
  BY Zenon DEF CountAt
<1>3. win'[IdxOf(t)].start \in {win[IdxOf(t)].start, StartOf(u)}
  <2>1. CASE win' = win
    BY Zenon, <2>1
  <2>2. ASSUME NEW b, NEW n,
               win' = [win EXCEPT ![IdxOf(u)] = [start |-> StartOf(u), bad |-> b, total |-> n]]
        PROVE  win'[IdxOf(t)].start \in {win[IdxOf(t)].start, StartOf(u)}
    BY Zenon, <1>1, <2>2 DEF TypeOK
  <2>3. ASSUME NEW b, NEW n,
               win' = [win EXCEPT ![IdxOf(u)] = [start |-> @.start, bad |-> b, total |-> n]]
        PROVE  win'[IdxOf(t)].start \in {win[IdxOf(t)].start, StartOf(u)}
    BY Zenon, <1>1, <2>3 DEF TypeOK
  <2> QED
    BY Zenon, <1>2, <2>1, <2>2, <2>3
<1> QED
  BY Zenon, <1>3

\* currentCounter only ever moves a bucket to the start of a time already read.
LEMMA CountNotAhead ==
    ASSUME TypeOK, ClockInv, BucketsNotAhead, NEW r \in Req, NEW here, NEW next, CountAt(r, here, next)
    PROVE  BucketsNotAhead'
<1> DEFINE u == reg[r].time
<1>1. u \in Nat /\ u <= now /\ now' = now
  BY Zenon DEF CountAt, TypeOK, ClockInv
<1> SUFFICES ASSUME NEW t \in Nat, t >= now
             PROVE  win'[IdxOf(t)].start <= StartOf(t)
  BY Zenon, <1>1 DEF BucketsNotAhead
<1>2. win[IdxOf(t)].start <= StartOf(t) /\ StartOf(u) <= StartOf(t)
  BY <1>1, StartMonotone DEF BucketsNotAhead, TypeOK
<1>3. win'[IdxOf(t)].start \in {win[IdxOf(t)].start, StartOf(u)}
  BY Zenon, <1>1, CountMoves
<1> QED
  BY Zenon, <1>2, <1>3

\* resetMetric moves no bucket.
LEMMA ResetNotAhead ==
    ASSUME TypeOK, BucketsNotAhead, NEW r \in Req, NEW here, ResetAt(r, here)
    PROVE  BucketsNotAhead'
<1>1. \A i \in BucketIds : win'[i].start = win[i].start
  BY Zenon DEF ResetAt, TypeOK
<1> QED
  BY Zenon, <1>1, BucketArithmetic DEF ResetAt, BucketsNotAhead, TypeOK

\* No other step moves a bucket.
LEMMA BucketsNext == TypeOK /\ ClockInv /\ BucketsNotAhead /\ [Next]_vars => BucketsNotAhead'
<1> SUFFICES ASSUME TypeOK, ClockInv, BucketsNotAhead, [Next]_vars PROVE BucketsNotAhead'
  OBVIOUS
<1>1. CASE win' = win /\ now' \in Nat /\ now' >= now
  BY <1>1 DEF BucketsNotAhead, TypeOK
<1>2. ASSUME NEW r \in Req, CurrentCounter(r) PROVE BucketsNotAhead'
  BY Zenon, <1>2, CountNotAhead DEF CurrentCounter
<1>3. ASSUME NEW r \in Req, ResetMetric(r) PROVE BucketsNotAhead'
  BY Zenon, <1>3, ResetNotAhead DEF ResetMetric
<1>4. CASE Tick
  BY <1>1, <1>4 DEF Tick, TypeOK
<1>5. CASE UNCHANGED vars
  BY <1>1, <1>5 DEF vars, TypeOK
<1>6. ASSUME NEW r \in Req, Enter(r) \/ (Step(r) /\ ~CurrentCounter(r) /\ ~ResetMetric(r))
      PROVE  BucketsNotAhead'
  <2>1. win' = win /\ now' = now
    BY ZenonT(40), <1>6 DEF Step, Enter,
       TryPass, RetryTimeoutArrived, FromOpenToHalfOpen, RestOfSlots,
       RollBackHook, OnCompleted, AllCounter, CurrentState,
       AddCurProbeNum, EnoughProbes, FromHalfOpenToClosed, FromHalfOpenToOpen,
       ResetCurProbeNum, RecheckState, FromClosedToOpen, ReadClock,
       UpdateNextRetryTimestamp
  <2> QED
    BY <1>1, <2>1 DEF TypeOK
<1> QED
  BY Zenon, <1>2, <1>3, <1>4, <1>5, <1>6 DEF Next

\* A settler that does not move, in a window whose buckets do not, stays one.
LEMMA SettlerKept ==
    ASSUME TypeOK, NEW s \in Req, Settler(s), pc'[s] = pc[s], reg'[s] = reg[s], owner' = owner,
           \A i \in BucketIds : win'[i].start = win[i].start
    PROVE  Settler(s)'
BY Zenon, BucketArithmetic DEF Settler, TypeOK

SettleInv == OwnerInv /\ BucketsNotAhead /\ HalfOpenSettled

\* The rule's probe number is not assigned again.
LEMMA ProbeNumKept == [Next]_vars => probeNum' = probeNum
BY ZenonT(40) DEF Next, Step, vars, breaker, Tick, Enter, TryPass, RetryTimeoutArrived,
   FromOpenToHalfOpen, RestOfSlots, RollBackHook, OnCompleted, CurrentCounter, CountAt,
   AllCounter, CurrentState, AddCurProbeNum, EnoughProbes, FromHalfOpenToClosed,
   ResetMetric, ResetAt, FromHalfOpenToOpen, ResetCurProbeNum, RecheckState,
   FromClosedToOpen, ReadClock, UpdateNextRetryTimestamp

LEMMA SettleNext == TypeOK /\ ClockInv /\ SettleInv /\ [Next]_vars => HalfOpenSettled'
<1> SUFFICES ASSUME TypeOK, ClockInv, SettleInv, [Next]_vars, probeNum = 0, state' = "HalfOpen"
             PROVE  \E r \in Req : Settler(r)'
  BY Zenon, ProbeNumKept DEF HalfOpenSettled
<1> USE DEF SettleInv
<1>1. ASSUME NEW r \in Req, FromOpenToHalfOpen(r), state # "HalfOpen"
      PROVE  Settler(r)'
  BY Zenon, <1>1, ReqAssumption DEF FromOpenToHalfOpen, Settler, TypeOK, Leave
<1>2. CASE state # "HalfOpen"
  <2>1. PICK r \in Req : FromOpenToHalfOpen(r)
    BY ZenonT(40), <1>2 DEF Next, Step, vars, breaker, Tick, Enter,
       TryPass, RetryTimeoutArrived, RestOfSlots, RollBackHook,
       OnCompleted, CurrentCounter, CountAt, AllCounter, CurrentState,
       AddCurProbeNum, EnoughProbes, FromHalfOpenToClosed, ResetMetric, ResetAt,
       FromHalfOpenToOpen, ResetCurProbeNum, RecheckState, FromClosedToOpen,
       ReadClock, UpdateNextRetryTimestamp
  <2> QED
    BY Zenon, <1>1, <1>2, <2>1
<1>3. CASE state = "HalfOpen"
  <2>1. PICK s \in Req : Settler(s)
    BY Zenon, <1>3 DEF HalfOpenSettled
  <2>2. CASE Tick \/ UNCHANGED vars
    BY Zenon, <2>1, <2>2, SettlerKept DEF Tick, vars, breaker
  <2>3. ASSUME NEW r \in Req, r # s, Enter(r) \/ Step(r), ~CurrentCounter(r)
        PROVE  Settler(s)'
    <3>1. pc'[s] = pc[s] /\ reg'[s] = reg[s] /\ owner' = owner
      BY Zenon, <1>3, <2>3 DEF TypeOK, Goto, Leave, Step, Enter,
         TryPass, RetryTimeoutArrived, FromOpenToHalfOpen, RestOfSlots,
         RollBackHook, OnCompleted, AllCounter, CurrentState,
         AddCurProbeNum, EnoughProbes, FromHalfOpenToClosed, ResetMetric, ResetAt,
         FromHalfOpenToOpen, ResetCurProbeNum, RecheckState, FromClosedToOpen,
         ReadClock, UpdateNextRetryTimestamp
    <3>2. \A i \in BucketIds : win'[i].start = win[i].start
      BY ZenonT(90), <2>3 DEF TypeOK, Step, Enter,
         TryPass, RetryTimeoutArrived, FromOpenToHalfOpen, RestOfSlots,
         RollBackHook, OnCompleted, AllCounter, CurrentState,
         AddCurProbeNum, EnoughProbes, FromHalfOpenToClosed, ResetMetric, ResetAt,
         FromHalfOpenToOpen, ResetCurProbeNum, RecheckState, FromClosedToOpen,
         ReadClock, UpdateNextRetryTimestamp
    <3> QED
      BY Zenon, <2>1, <3>1, <3>2, SettlerKept
  <2>4. ASSUME NEW r \in Req, r # s, CurrentCounter(r)
        PROVE  \E q \in Req : Settler(q)'
    <3>1. CASE win' = win
      <4>1. pc'[s] = pc[s] /\ reg'[s] = reg[s] /\ owner' = owner
        BY Zenon, <2>4 DEF CurrentCounter, CountAt, TypeOK, Goto, Leave
      <4> QED
        BY Zenon, <2>1, <3>1, <4>1, SettlerKept
    <3>2. CASE win' # win
      <4>1. pc'[r] = "sum"
        BY Zenon, <2>4, <3>2 DEF CurrentCounter, CountAt, TypeOK, Goto
      <4> QED
        BY Zenon, <4>1 DEF Settler, Settling
    <3> QED
      BY Zenon, <3>1, <3>2
  <2>5. ASSUME Enter(s) \/ Step(s) PROVE Settler(s)'
    <3>1. s \in hooked \/ pc[s] # "slots"
      BY Zenon, <1>3, <2>1 DEF Settler, Settling, OwnerInv
    <3>2. CASE pc[s] \in Settling
      BY Zenon, <1>3, <2>5, <3>2 DEF Settler, Settling, TypeOK, Goto, Leave, Step, Enter,
         TryPass, RetryTimeoutArrived, FromOpenToHalfOpen, RestOfSlots,
         RollBackHook, OnCompleted, CurrentCounter, CountAt, AllCounter,
         CurrentState, AddCurProbeNum, EnoughProbes, FromHalfOpenToClosed,
         ResetMetric, ResetAt, FromHalfOpenToOpen, ResetCurProbeNum, RecheckState,
         FromClosedToOpen, ReadClock, UpdateNextRetryTimestamp
    <3>3. CASE s = owner /\ pc[s] \in {"slots", "hook"}
      BY Zenon, <1>3, <2>5, <3>1, <3>3 DEF Settler, TypeOK, Goto, Leave, Step, Enter,
         TryPass, RetryTimeoutArrived, FromOpenToHalfOpen, RestOfSlots,
         RollBackHook, OnCompleted, CurrentCounter, CountAt, AllCounter,
         CurrentState, AddCurProbeNum, EnoughProbes, FromHalfOpenToClosed,
         ResetMetric, ResetAt, FromHalfOpenToOpen, ResetCurProbeNum, RecheckState,
         FromClosedToOpen, ReadClock, UpdateNextRetryTimestamp
    <3>4. CASE s = owner /\ pc[s] = "running"
      <4>1. OnCompleted(s)
        BY Zenon, <2>5, <3>4 DEF Step, Enter,
           TryPass, RetryTimeoutArrived, FromOpenToHalfOpen, RestOfSlots,
           RollBackHook, CurrentCounter, CountAt, AllCounter, CurrentState,
           AddCurProbeNum, EnoughProbes, FromHalfOpenToClosed, ResetMetric, ResetAt,
           FromHalfOpenToOpen, ResetCurProbeNum, RecheckState, FromClosedToOpen,
           ReadClock, UpdateNextRetryTimestamp
      <4>2. pc'[s] = "bucket" /\ reg'[s].time = now /\ win' = win /\ owner' = owner
        BY <4>1 DEF OnCompleted, TypeOK
      <4>3. win[IdxOf(now)].start <= StartOf(now)
        BY DEF BucketsNotAhead, TypeOK
      <4> QED
        BY Zenon, <3>4, <4>2, <4>3 DEF Settler
    <3>5. CASE s = owner /\ pc[s] = "bucket" /\ pc[s] \notin Settling
      <4>1. CurrentCounter(s)
        BY Zenon, <2>5, <3>5 DEF Step, Enter,
           TryPass, RetryTimeoutArrived, FromOpenToHalfOpen, RestOfSlots,
           RollBackHook, OnCompleted, AllCounter, CurrentState,
           AddCurProbeNum, EnoughProbes, FromHalfOpenToClosed, ResetMetric, ResetAt,
           FromHalfOpenToOpen, ResetCurProbeNum, RecheckState, FromClosedToOpen,
           ReadClock, UpdateNextRetryTimestamp
      <4>2. win[IdxOf(reg[s].time)].start <= StartOf(reg[s].time)
        BY Zenon, <2>1, <3>5 DEF Settler
      <4>3. pc'[s] = "sum"
        BY SMTT(30), <4>1, <4>2, BucketArithmetic DEF CurrentCounter, CountAt, TypeOK, Goto
      <4> QED
        BY Zenon, <4>3 DEF Settler, Settling
    <3> QED
      BY Zenon, <2>1, <3>2, <3>3, <3>4, <3>5 DEF Settler
  <2> QED
    BY Zenon, <2>2, <2>3, <2>4, <2>5 DEF Next
<1> QED
  BY Zenon, <1>2, <1>3

\* A half-open breaker with ProbeNum = 0, which refuses every new entry, always
\* has a goroutine in flight whose next accesses settle it, for any number of
\* goroutines and of buckets.
THEOREM HalfOpenIsSettled == Spec => []HalfOpenSettled
<1> DEFINE IInv == TypeOK /\ RetryInv /\ SettleInv
<1>1. Init => IInv
  BY Zenon, TypeInit, RetryInit, OwnerInit, BucketsInit DEF SettleInv, HalfOpenSettled, Init
<1>2. IInv /\ [Next]_vars => IInv'
  BY Zenon, TypeNext, RetryNext, OwnerNext, BucketsNext, SettleNext DEF SettleInv, RetryInv
<1>3. IInv => HalfOpenSettled
  BY Zenon DEF SettleInv
<1> QED
  BY <1>1, <1>2, <1>3, PTL DEF Spec

----------------------------------------------------------------------------
(* Refinement: with ProbeNum = 0 and one bucket, the defaults of a rule,   *)
(* the breaker implements SingleProbe.                                     *)

Active == {r \in Req : pc[r] \in Unsettled}

\* The prober of the half-open period has not delivered its result.
ProberActive == state = "HalfOpen" => owner \in Active

LEMMA ProberInit == Init => ProberActive
BY Zenon DEF Init, ProberActive

\* Until it settles the period itself, the prober stays active: currentCounter
\* drops nobody when there is one bucket.
LEMMA ProberNext ==
    ASSUME ProbeNums = {0}, BucketCount = 1
    PROVE  TypeOK /\ OwnerInv /\ ProberActive /\ [Next]_vars => ProberActive'
<1> SUFFICES ASSUME TypeOK, OwnerInv, ProberActive, [Next]_vars PROVE ProberActive'
  OBVIOUS
<1> USE ReqAssumption DEF OwnerInv, TypeOK, ProberActive, Active, Unsettled, Settling,
        breaker, Goto, Leave
<1>1. CASE Tick
  BY Zenon, <1>1 DEF Tick
<1>2. ASSUME NEW r \in Req, Enter(r) PROVE ProberActive'
  BY Zenon, <1>2 DEF Enter
<1>3. ASSUME NEW r \in Req, TryPass(r) PROVE ProberActive'
  BY Zenon, <1>3 DEF TryPass
<1>4. ASSUME NEW r \in Req, RetryTimeoutArrived(r) PROVE ProberActive'
  BY Zenon, <1>4 DEF RetryTimeoutArrived
<1>5. ASSUME NEW r \in Req, FromOpenToHalfOpen(r) PROVE ProberActive'
  BY ZenonT(40), <1>5 DEF FromOpenToHalfOpen
<1>6. ASSUME NEW r \in Req, RestOfSlots(r) PROVE ProberActive'
  BY Zenon, <1>6 DEF RestOfSlots
<1>7. ASSUME NEW r \in Req, RollBackHook(r) PROVE ProberActive'
  BY Zenon, <1>7 DEF RollBackHook
<1>8. ASSUME NEW r \in Req, OnCompleted(r) PROVE ProberActive'
  BY Zenon, <1>8 DEF OnCompleted
<1>9. ASSUME NEW r \in Req, CurrentCounter(r) PROVE ProberActive'
  BY <1>9 DEF CurrentCounter, CountAt
<1>10. ASSUME NEW r \in Req, AllCounter(r) PROVE ProberActive'
  BY Zenon, <1>10 DEF AllCounter
<1>11. ASSUME NEW r \in Req, CurrentState(r) PROVE ProberActive'
  BY Zenon, <1>11 DEF CurrentState
<1>12. ASSUME NEW r \in Req, AddCurProbeNum(r) PROVE ProberActive'
  BY Zenon, <1>12 DEF AddCurProbeNum
<1>13. ASSUME NEW r \in Req, EnoughProbes(r) PROVE ProberActive'
  BY Zenon, <1>13 DEF EnoughProbes
<1>14. ASSUME NEW r \in Req, FromHalfOpenToClosed(r) PROVE ProberActive'
  BY Zenon, <1>14 DEF FromHalfOpenToClosed
<1>15. ASSUME NEW r \in Req, ResetMetric(r) PROVE ProberActive'
  BY Zenon, <1>15 DEF ResetMetric, ResetAt
<1>16. ASSUME NEW r \in Req, FromHalfOpenToOpen(r) PROVE ProberActive'
  BY Zenon, <1>16 DEF FromHalfOpenToOpen
<1>17. ASSUME NEW r \in Req, ResetCurProbeNum(r) PROVE ProberActive'
  BY Zenon, <1>17 DEF ResetCurProbeNum
<1>18. ASSUME NEW r \in Req, RecheckState(r) PROVE ProberActive'
  BY Zenon, <1>18 DEF RecheckState
<1>19. ASSUME NEW r \in Req, FromClosedToOpen(r) PROVE ProberActive'
  BY Zenon, <1>19 DEF FromClosedToOpen
<1>20. ASSUME NEW r \in Req, ReadClock(r) PROVE ProberActive'
  BY Zenon, <1>20 DEF ReadClock
<1>21. ASSUME NEW r \in Req, UpdateNextRetryTimestamp(r) PROVE ProberActive'
  BY Zenon, <1>21 DEF UpdateNextRetryTimestamp
<1>22. CASE UNCHANGED vars
  BY Zenon, <1>22 DEF vars
<1> QED
  BY ZenonT(40), <1>1, <1>2, <1>3, <1>4, <1>5, <1>6, <1>7, <1>8, <1>9, <1>10, <1>11, <1>12, <1>13, <1>14, <1>15, <1>16, <1>17, <1>18, <1>19, <1>20, <1>21, <1>22 DEF Next, Step

\* Each step of the breaker is a step of SingleProbe or leaves its view alone.
LEMMA StepRefines ==
    ASSUME ProbeNums = {0}, BucketCount = 1
    PROVE  TypeOK /\ OwnerInv /\ ProberActive /\ [Next]_vars => [Abstract!Next]_(Abstract!vars)
<1> SUFFICES ASSUME TypeOK, OwnerInv, ProberActive, [Next]_vars
             PROVE  Abstract!Next \/ UNCHANGED <<state, owner, Active>>
  BY Zenon DEF Abstract!vars, Active
<1> USE ReqAssumption DEF OwnerInv, ProberActive, breaker
<1> DEFINE Goal == Abstract!Next \/ UNCHANGED <<state, owner, Active>>
<1>a. ASSUME NEW r \in Req,
             \/ state = "Closed" /\ state' = "Closed" /\ owner' = owner /\ Active' = Active \cup {r}
             \/ state = "Open" /\ state' = "HalfOpen" /\ owner' = r /\ Active' = Active \cup {r}
             \/ /\ state = "HalfOpen" /\ state' \in {"Open", "Closed"} /\ owner' = NoReq
                /\ r \in Active /\ Active' = Active \ {r}
             \/ /\ state' = state /\ owner' = owner /\ r # owner
                /\ r \in Active /\ Active' = Active \ {r}
      PROVE  Abstract!Next
  BY Zenon, <1>a DEF Abstract!Next, Abstract!Admit, Abstract!Probe, Abstract!Settle, Abstract!Finish, Active
<1>b. ASSUME state = "Closed", state' = "Open", owner' = owner, Active' = Active
      PROVE  Abstract!Next
  BY Zenon, <1>b DEF Abstract!Next, Abstract!Trip, Active
<1> HIDE DEF Goal
<1>1. ASSUME Tick PROVE Goal
  BY Zenon, <1>1 DEF Tick, Active, Goal
<1>2. ASSUME NEW r \in Req, Enter(r) PROVE Goal
  BY Zenon, <1>2 DEF TypeOK, Enter, Goto, Goal, Active, Unsettled, Settling
<1>3. ASSUME NEW r \in Req, TryPass(r) PROVE Goal
  BY <1>3, <1>a, <1>b DEF TypeOK, TryPass, Goto, Leave, Goal, Active, Unsettled, Settling
<1>4. ASSUME NEW r \in Req, RetryTimeoutArrived(r) PROVE Goal
  BY Zenon, <1>4, <1>a, <1>b DEF TypeOK, RetryTimeoutArrived, Goto, Leave, Goal, Active, Unsettled, Settling
<1>5. ASSUME NEW r \in Req, FromOpenToHalfOpen(r) PROVE Goal
  BY <1>5, <1>a, <1>b DEF TypeOK, FromOpenToHalfOpen, Goto, Leave, Goal, Active, Unsettled, Settling
<1>6. ASSUME NEW r \in Req, RestOfSlots(r) PROVE Goal
  BY ZenonT(40), <1>6, <1>a, <1>b DEF TypeOK, RestOfSlots, Goto, Leave, Goal, Active, Unsettled, Settling
<1>7. ASSUME NEW r \in Req, RollBackHook(r) PROVE Goal
  <2>1. pc' = [pc EXCEPT ![r] = "idle"]
    BY Zenon, <1>7 DEF RollBackHook, Leave
  <2>2. Active' = Active \ {r}
    BY Zenon, <2>1 DEF TypeOK, Active, Unsettled, Settling
  <2>3. r \in Active
    BY Zenon, <1>7 DEF RollBackHook, Active, Unsettled
  <2> QED
    BY Zenon, <1>7, <2>2, <2>3, <1>a DEF RollBackHook, Goal
<1>8. ASSUME NEW r \in Req, OnCompleted(r) PROVE Goal
  BY Zenon, <1>8, <1>a, <1>b DEF TypeOK, OnCompleted, Goto, Leave, Goal, Active, Unsettled, Settling
<1>9. ASSUME NEW r \in Req, CurrentCounter(r) PROVE Goal
  <2>1. UNCHANGED <<state, owner>> /\ pc[r] = "bucket"
    BY Zenon, <1>9 DEF CurrentCounter, CountAt, breaker
  <2>2. ~(BucketCount > 1)
    BY SMT
  <2>3. pc' = [pc EXCEPT ![r] = "sum"]
    BY Zenon, <1>9, <2>2 DEF CurrentCounter, CountAt, Goto
  <2>4. Active' = Active
    BY Zenon, <2>1, <2>3 DEF TypeOK, Active, Unsettled, Settling
  <2> QED
    BY Zenon, <2>1, <2>4 DEF Goal
<1>10. ASSUME NEW r \in Req, AllCounter(r) PROVE Goal
  BY Zenon, <1>10, <1>a, <1>b DEF TypeOK, AllCounter, Goto, Leave, Goal, Active, Unsettled, Settling
<1>11. ASSUME NEW r \in Req, CurrentState(r) PROVE Goal
  BY ZenonT(40), <1>11, <1>a, <1>b DEF TypeOK, CurrentState, Goto, Leave, Goal, Active, Unsettled, Settling
<1>12. ASSUME NEW r \in Req, AddCurProbeNum(r) PROVE Goal
  BY Zenon, <1>12, <1>a, <1>b DEF TypeOK, AddCurProbeNum, Goto, Leave, Goal, Active, Unsettled, Settling
<1>13. ASSUME NEW r \in Req, EnoughProbes(r) PROVE Goal
  BY Zenon, <1>13, <1>a, <1>b DEF TypeOK, EnoughProbes, Goto, Leave, Goal, Active, Unsettled, Settling
<1>14. ASSUME NEW r \in Req, FromHalfOpenToClosed(r) PROVE Goal
  BY ZenonT(40), <1>14, <1>a, <1>b DEF TypeOK, FromHalfOpenToClosed, Goto, Leave, Goal, Active, Unsettled, Settling
<1>15. ASSUME NEW r \in Req, ResetMetric(r) PROVE Goal
  <2>1. pc' = [pc EXCEPT ![r] = "idle"]
    BY Zenon, <1>15 DEF ResetMetric, ResetAt, Leave
  <2>2. Active' = Active \ {r}
    BY Zenon, <2>1 DEF TypeOK, Active, Unsettled, Settling
  <2>3. r \notin Active
    BY Zenon, <1>15 DEF ResetMetric, ResetAt, Active, Unsettled, Settling
  <2> QED
    BY Zenon, <1>15, <2>2, <2>3 DEF ResetMetric, ResetAt, Goal
<1>16. ASSUME NEW r \in Req, FromHalfOpenToOpen(r) PROVE Goal
  BY ZenonT(40), <1>16, <1>a, <1>b DEF TypeOK, FromHalfOpenToOpen, Goto, Leave, Goal, Active, Unsettled, Settling
<1>17. ASSUME NEW r \in Req, ResetCurProbeNum(r) PROVE Goal
  BY Zenon, <1>17, <1>a, <1>b DEF TypeOK, ResetCurProbeNum, Goto, Leave, Goal, Active, Unsettled, Settling
<1>18. ASSUME NEW r \in Req, RecheckState(r) PROVE Goal
  BY ZenonT(40), <1>18, <1>a, <1>b DEF TypeOK, RecheckState, Goto, Leave, Goal, Active, Unsettled, Settling
<1>19. ASSUME NEW r \in Req, FromClosedToOpen(r) PROVE Goal
  BY Zenon, <1>19, <1>a, <1>b DEF TypeOK, FromClosedToOpen, Goto, Leave, Goal, Active, Unsettled, Settling
<1>20. ASSUME NEW r \in Req, ReadClock(r) PROVE Goal
  BY Zenon, <1>20, <1>a, <1>b DEF TypeOK, ReadClock, Goto, Leave, Goal, Active, Unsettled, Settling
<1>21. ASSUME NEW r \in Req, UpdateNextRetryTimestamp(r) PROVE Goal
  BY Zenon, <1>21, <1>a, <1>b DEF TypeOK, UpdateNextRetryTimestamp, Goto, Leave, Goal, Active, Unsettled, Settling
<1>22. ASSUME UNCHANGED vars PROVE Goal
  BY Zenon, <1>22 DEF vars, Active, Goal
<1>c. Goal
  BY Zenon, <1>1, <1>2, <1>3, <1>4, <1>5, <1>6, <1>7, <1>8, <1>9, <1>10, <1>11, <1>12, <1>13, <1>14, <1>15, <1>16, <1>17, <1>18, <1>19, <1>20, <1>21, <1>22 DEF Next, Step
<1> QED
  BY Zenon, <1>c DEF Goal

\* The whole of TryPass, OnRequestComplete and the exit hook, at the grain of
\* single atomic accesses, implements the single answerable probe: the prober
\* of a half-open period does not finish before the period does.
THEOREM BreakerRefinesSingleProbe ==
    ASSUME ProbeNums = {0}, BucketCount = 1
    PROVE  Spec => Abstract!Spec
<1> DEFINE IInv == TypeOK /\ OwnerInv /\ ProberActive
<1>1. Init => IInv
  BY Zenon, TypeInit, OwnerInit, ProberInit
<1>2. IInv /\ [Next]_vars => IInv'
  BY Zenon, TypeNext, OwnerNext, ProberNext
<1>3. Init => Abstract!Init
  BY Zenon DEF Init, Abstract!Init, Unsettled, Settling
<1>4. IInv /\ [Next]_vars => [Abstract!Next]_(Abstract!vars)
  BY Zenon, StepRefines
<1> QED
  BY <1>1, <1>2, <1>3, <1>4, PTL DEF Spec, Abstract!Spec

----------------------------------------------------------------------------
(* Reloads: the invariants survive reloads of the breaker's rule.  The     *)
(* steps of Next are those above; what is new are Reload and the           *)
(* goroutines that stay with the replaced breaker.  These can advance a    *)
(* bucket of the shared statistic, and a completion that is then behind    *)
(* the bucket is dropped: the probe's must not be, so the invariant says   *)
(* that they read the clock before it did.                                 *)

\* A completion of the old breaker has an older clock than one of the new, and a
\* probe of the new one is not with the old.
OldInv ==
    /\ \A o, r \in Req : pc[o] = "oldBucket" /\ pc[r] = "bucket" => reg[o].time <= reg[r].time
    /\ owner \in Req => pc[owner] \notin Replaced

IInv == TypeOK /\ RetryInv /\ SettleInv /\ OldInv

LEMMA IInvInit == Init => IInv
<1>1. Init => OldInv
  BY Zenon, ReqAssumption DEF Init, OldInv
<1> QED
  BY Zenon, <1>1, TypeInit, RetryInit, OwnerInit, BucketsInit DEF IInv, SettleInv, HalfOpenSettled, Init

----------------------------------------------------------------------------
(* The steps of the breaker itself.                                        *)

\* A new completion reads the clock after all others.
LEMMA OldNext == TypeOK /\ ClockInv /\ OldInv /\ [Next]_vars => OldInv'
<1> SUFFICES ASSUME TypeOK, ClockInv, OldInv, [Next]_vars PROVE OldInv'
  OBVIOUS
<1>1. ASSUME NEW r \in Req, OnCompleted(r) PROVE OldInv'
  BY <1>1 DEF OnCompleted, OldInv, ClockInv, TypeOK, Replaced
<1>2. ASSUME NEW r \in Req, Enter(r) \/ (Step(r) /\ ~OnCompleted(r))
      PROVE  /\ \A q \in Req : pc'[q] \in {"bucket"} \cup Replaced =>
                   pc'[q] = pc[q] /\ reg'[q] = reg[q]
             /\ owner' \in {owner, NoReq} \/ (owner' = r /\ pc'[r] = "slots")
  BY ZenonT(40), <1>2 DEF Replaced, TypeOK, Goto, Leave, Step, Enter,
     TryPass, RetryTimeoutArrived, FromOpenToHalfOpen, RestOfSlots,
     RollBackHook, CurrentCounter, CountAt, AllCounter, CurrentState,
     AddCurProbeNum, EnoughProbes, FromHalfOpenToClosed, ResetMetric, ResetAt,
     FromHalfOpenToOpen, ResetCurProbeNum, RecheckState, FromClosedToOpen,
     ReadClock, UpdateNextRetryTimestamp
<1>3. ASSUME NEW r \in Req, Enter(r) \/ (Step(r) /\ ~OnCompleted(r)) PROVE OldInv'
  BY Zenon, <1>2, <1>3, ReqAssumption DEF OldInv, Replaced
<1>4. CASE Tick \/ UNCHANGED vars
  BY Zenon, <1>4 DEF Tick, vars, OldInv
<1> QED
  BY Zenon, <1>1, <1>3, <1>4 DEF Next

LEMMA IInvNext == IInv /\ [Next]_vars => IInv'
BY Zenon, TypeNext, RetryNext, OwnerNext, BucketsNext, SettleNext, OldNext DEF IInv, SettleInv, RetryInv

----------------------------------------------------------------------------
(* Reload: a closed breaker, without an owner, around the same statistic.  *)

LEMMA AfterReloadType ==
    ASSUME NEW l \in PcSet
    PROVE  AfterReload(l) \in PcSet /\ AfterReload(l) \notin {"bucket", "store"}
BY Zenon DEF AfterReload, PcSet, Replaced, Unsettled, Settling

LEMMA IInvReload ==
    ASSUME IInv, NEW probe \in ProbeNums, Reload(probe)
    PROVE  IInv'
<1> USE DEF IInv
<1>1. \A r \in Req : pc'[r] \in PcSet /\ pc'[r] \notin {"bucket", "store"}
  BY Zenon, AfterReloadType DEF TypeOK, Reload, Move
<1>2. \A r \in Req : reg'[r] \in {reg[r], NoLocals}
  BY Zenon DEF Reload, Move
<1>3. TypeOK'
  <2>1. pc' \in [Req -> PcSet]
    BY Zenon, <1>1 DEF Reload, Move
  <2>2. reg' \in [Req -> [time : Nat, bad : BOOLEAN, reached : BOOLEAN]]
    BY Zenon DEF Reload, Move, TypeOK, NoLocals
  <2> QED
    BY Zenon, <2>1, <2>2, RuleAssumption DEF Reload, Move, TypeOK, States
<1>4. RetryInv'
  <2>1. ClockInv'
    BY <1>1, <1>2 DEF RetryInv, ClockInv, Reload, Move, NoLocals, TypeOK
  <2> QED
    BY <2>1, RuleAssumption DEF RetryInv, BoundedOutage, Armed, Reload, Move, TypeOK
<1>5. SettleInv'
  BY Zenon DEF SettleInv, OwnerInv, BucketsNotAhead, HalfOpenSettled, Reload, Move
<1>6. OldInv'
  BY Zenon, <1>1, ReqAssumption DEF OldInv, Reload, Move
<1> QED
  BY Zenon, <1>3, <1>4, <1>5, <1>6

----------------------------------------------------------------------------
(* The goroutines that stay with the old breaker.                          *)

\* They are none of those the invariants are about, before and after.
LEMMA OldMoves ==
    ASSUME IInv, NEW r \in Req, OldStep(r)
    PROVE  /\ pc[r] \in Replaced
           /\ \/ Goto(r, "slots") \/ Goto(r, "oldSettle") \/ Leave(r)
           /\ UNCHANGED <<now, breaker, entries, owner>>
BY Zenon DEF OldStep, OldTryPass, OldCurrentCounter, OldResetMetric, OldLeave, CountAt, ResetAt, Replaced

LEMMA OldType ==
    ASSUME IInv, NEW r \in Req, OldStep(r)
    PROVE  TypeOK'
<1> USE DEF IInv
<1>0. "slots" \in PcSet /\ "oldSettle" \in PcSet /\ "idle" \in PcSet
  BY Zenon DEF PcSet, Replaced, Unsettled
<1>1. CASE OldTryPass(r)
  BY Zenon, <1>0, <1>1, MoveType DEF OldTryPass, TypeOK, breaker
<1>2. CASE OldCurrentCounter(r)
  BY Zenon, <1>0, <1>2, CountType DEF OldCurrentCounter
<1>3. CASE OldResetMetric(r)
  BY ZenonT(40), <1>0, <1>3, MoveType DEF OldResetMetric, ResetAt, TypeOK, breaker
<1>4. CASE OldLeave(r)
  BY Zenon, <1>0, <1>4, MoveType DEF OldLeave, TypeOK, breaker
<1> QED
  BY Zenon, <1>1, <1>2, <1>3, <1>4 DEF OldStep

LEMMA OldNotAhead ==
    ASSUME IInv, NEW r \in Req, OldStep(r)
    PROVE  BucketsNotAhead'
<1>1. TypeOK /\ ClockInv /\ BucketsNotAhead
  BY Zenon DEF IInv, RetryInv, SettleInv
<1>2. CASE OldCurrentCounter(r)
  BY Zenon, <1>1, <1>2, CountNotAhead DEF OldCurrentCounter
<1>3. CASE OldResetMetric(r)
  BY Zenon, <1>1, <1>3, ResetNotAhead DEF OldResetMetric
<1>4. CASE OldTryPass(r) \/ OldLeave(r)
  BY Zenon, <1>1, <1>4 DEF OldTryPass, OldLeave, BucketsNotAhead
<1> QED
  BY Zenon, <1>2, <1>3, <1>4 DEF OldStep

\* Whoever settles the breaker still does: the bucket of the probe's completion
\* is not moved beyond its time.
LEMMA OldSettlerKept ==
    ASSUME IInv, NEW r \in Req, OldStep(r), NEW s \in Req, Settler(s)
    PROVE  Settler(s)'
<1> USE DEF IInv
<1>1. r # s
  BY Zenon, OldMoves DEF Settler, Settling, Replaced
<1>2. pc'[s] = pc[s] /\ reg'[s] = reg[s] /\ owner' = owner
  BY ZenonT(40), <1>1, OldMoves DEF Goto, Leave, TypeOK
<1>3. CASE OldTryPass(r) \/ OldLeave(r)
  BY Zenon, <1>2, <1>3, SettlerKept DEF OldTryPass, OldLeave
<1>4. CASE OldResetMetric(r)
  <2>1. \A i \in BucketIds : win'[i].start = win[i].start
    BY Zenon, <1>4 DEF OldResetMetric, ResetAt, TypeOK
  <2> QED
    BY Zenon, <1>2, <2>1, SettlerKept
<1>5. CASE OldCurrentCounter(r)
  <2> DEFINE u == reg[r].time
             t == reg[s].time
  <2>1. u \in Nat /\ t \in Nat
    BY Zenon DEF TypeOK
  <2>2. CASE pc[s] = "bucket" /\ s = owner
    <3>1. u <= t
      BY Zenon, <1>5, <2>2 DEF OldInv, OldCurrentCounter, CountAt
    <3>2. win[IdxOf(t)].start <= StartOf(t) /\ StartOf(u) <= StartOf(t)
      BY Zenon, <2>1, <2>2, <3>1, StartMonotone DEF Settler, Settling
    <3>3. win'[IdxOf(t)].start \in {win[IdxOf(t)].start, StartOf(u)}
      BY Zenon, <1>5, <2>1, CountMoves DEF OldCurrentCounter
    <3> QED
      BY Zenon, <1>2, <2>2, <3>2, <3>3 DEF Settler
  <2>3. CASE ~(pc[s] = "bucket" /\ s = owner)
    BY Zenon, <1>2, <2>3 DEF Settler
  <2> QED
    BY Zenon, <2>2, <2>3
<1> QED
  BY Zenon, <1>3, <1>4, <1>5 DEF OldStep

LEMMA IInvOld ==
    ASSUME IInv, NEW r \in Req, OldStep(r)
    PROVE  IInv'
<1> USE OldMoves DEF IInv
<1>1. TypeOK' /\ BucketsNotAhead'
  BY Zenon, OldType, OldNotAhead
<1>2. RetryInv'
  <2>1. ClockInv'
    BY BucketAssumption DEF RetryInv, ClockInv, Goto, Leave, NoLocals, TypeOK
  <2>2. BoundedOutage' /\ Armed'
    BY Zenon DEF RetryInv, BoundedOutage, Armed, breaker, Goto, Leave, TypeOK, Replaced
  <2> QED
    BY Zenon, <2>1, <2>2 DEF RetryInv
<1>3. OwnerInv'
  <2>1. owner # r
    BY Zenon DEF OldInv
  <2> QED
    BY <2>1 DEF SettleInv, OwnerInv, breaker, Goto, Leave, TypeOK
<1>4. HalfOpenSettled'
  BY Zenon, OldSettlerKept DEF SettleInv, HalfOpenSettled, breaker
<1>5. OldInv'
  BY DEF OldInv, Goto, Leave, TypeOK, Replaced
<1> QED
  BY Zenon, <1>1, <1>2, <1>3, <1>4, <1>5 DEF SettleInv

----------------------------------------------------------------------------

LEMMA IInvReloads == ReloadSpec => []IInv
<1>1. IInv /\ [ReloadNext]_vars => IInv'
  BY Zenon, IInvNext, IInvReload, IInvOld DEF ReloadNext
<1> QED
  BY IInvInit, <1>1, PTL DEF ReloadSpec

\* However often the rule is loaded anew, whatever the completions of entries that
\* the old breaker let in do to the new one and to the statistic the two share, a
\* half-open breaker has somebody in flight who settles it.
THEOREM ReloadsSettle == ReloadSpec => []HalfOpenSettled
<1>1. IInv => HalfOpenSettled
  BY Zenon DEF IInv, SettleInv
<1> QED
  BY IInvReloads, <1>1, PTL

\* Reloads never push the next probe beyond a retry timeout: late stores of
\* updateNextRetryTimestamp go to the breaker that was replaced.
THEOREM ReloadsBounded == ReloadSpec => []BoundedOutage
<1>1. IInv => BoundedOutage
  BY Zenon DEF IInv, RetryInv
<1> QED
  BY IInvReloads, <1>1, PTL

\* A breaker born in a reload has a retry timestamp whenever it is not closed, or
\* its opener is on the way to store one.
THEOREM ReloadsArmed == ReloadSpec => []Armed
<1>1. IInv => Armed
  BY Zenon DEF IInv, RetryInv
<1> QED
  BY IInvReloads, <1>1, PTL
=============================================================================
