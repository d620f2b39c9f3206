---------------------------- MODULE OutlierProof ----------------------------
(***************************************************************************)
(* Proofs about Outlier, for any set of nodes and requests, any rules and  *)
(* any number of loads and of changes of health: the timers of the         *)
(* Retryer and the Recycler, the node that is charged with an error, and   *)
(* the rule that the breakers in force were built for.                     *)
(***************************************************************************)
EXTENDS Outlier, FiniteSetTheorems, TLAPS

----------------------------------------------------------------------------
(* The timers.                                                             *)

TimerInv ==
    /\ retryTimers \in [Node -> Nat] /\ recycleTimers \in [Node -> Nat]
    /\ status \in [Node -> {"none", "lost", "recovered"}]
    /\ OneTimerEach

LEMMA TimerInit == Init => TimerInv
BY SMT DEF Init, TimerInv, OneTimerEach

\* A timer is set together with the entry in the books, and the entry goes when the
\* timer has fired for the last time.
LEMMA TimerNext == TimerInv /\ [Next]_vars => TimerInv'
<1> SUFFICES ASSUME TimerInv, [Next]_vars PROVE TimerInv'
  OBVIOUS
<1> DEFINE Same == UNCHANGED <<counts, retryTimers, status, recycleTimers>>
<1>0. ASSUME Same PROVE TimerInv'
  BY <1>0, Zenon DEF TimerInv, OneTimerEach
\* The Recycler forgets that a node was lost, never that it has a timer.
<1>1. ASSUME NEW n \in Node, Recover(n), UNCHANGED <<counts, retryTimers, recycleTimers>>
      PROVE  TimerInv'
  <2>1. /\ status' \in [Node -> {"none", "lost", "recovered"}]
        /\ \A m \in Node : status'[m] = "none" <=> status[m] = "none"
    BY <1>1, SMT DEF TimerInv, Recover
  <2>2. QED
    BY <1>1, <2>1, Zenon DEF TimerInv, OneTimerEach
<1>2. CASE UNCHANGED vars
  BY <1>0, <1>2, Zenon DEF vars, retry, recycle
<1>3. ASSUME NEW r \in clients, RequestStep(r) PROVE TimerInv'
  <2>1. CASE RecoverNode(r)
    <3>1. CASE req[r].node \in Node
      BY <1>1, <2>1, <3>1, Zenon DEF RecoverNode, retry
    <3>2. CASE req[r].node \notin Node
      BY <1>0, <2>1, <3>2, Zenon DEF RecoverNode, Recover, retry, TimerInv
    <3> QED
      BY <3>1, <3>2, Zenon
  <2>2. CASE ~RecoverNode(r)
    <3>1. Same
      BY <1>3, <2>2, Zenon DEF RequestStep, GetNodeBreakers, CheckAllNodes, OfferRetry, SendRetry,
            OfferRecycle, SendRecycle, Call, RetryCall, OnCompleted, AddNodeBreaker, GetAdded,
            OnRequestComplete, retry, recycle
    <3> QED
      BY <1>0, <3>1, Zenon
  <2> QED
    BY <2>1, <2>2, Zenon
<1>4. CASE ConsumeRetry
  BY <1>4, SMT DEF ConsumeRetry, Scheduled, TimerInv, OneTimerEach, recycle
<1>5. CASE ConsumeRecycle
  BY <1>5, SMT DEF ConsumeRecycle, Scheduled, TimerInv, OneTimerEach, retry
<1>6. ASSUME NEW n \in Node, ConnectNode(n) PROVE TimerInv'
  BY <1>6, SMT DEF ConnectNode, TimerInv, OneTimerEach, recycle
<1>7. ASSUME NEW n \in Node, RecoverConnected(n) PROVE TimerInv'
  BY <1>1, <1>7, Zenon DEF RecoverConnected
<1>8. ASSUME NEW n \in Node, CompleteConnected(n) PROVE TimerInv'
  BY <1>0, <1>8, Zenon DEF CompleteConnected, recycle
<1>9. ASSUME NEW n \in Node, Recycle(n) PROVE TimerInv'
  BY <1>9, SMT DEF Recycle, TimerInv, OneTimerEach, retry
<1>10. ASSUME NEW n \in Node, Flip(n) PROVE TimerInv'
  BY <1>0, <1>10, Zenon DEF Flip, retry, recycle
<1>11. ASSUME NEW i, RetryTimeout(i) PROVE TimerInv'
  BY <1>0, <1>11, Zenon DEF RetryTimeout, retry, recycle
<1>12. ASSUME NEW r, LoadRules(r) \/ LoadRuleOfResource(r) PROVE TimerInv'
  BY <1>0, <1>12, Zenon DEF LoadRules, LoadRuleOfResource, retry, recycle
<1>13. CASE LoadStep
  BY <1>0, <1>13, Zenon DEF LoadStep, CloneBreakers, SwapBreakers, retry, recycle
<1> QED
  BY <1>2, <1>3, <1>4, <1>5, <1>6, <1>7, <1>8, <1>9, <1>10, <1>11, <1>12, <1>13, Zenon
     DEF Next, RetryerStep

\* A node in the books of the Retryer or the Recycler has exactly one timer, and a
\* node outside them has none, however the requests, timers and loads interleave.
THEOREM TimersAreSingle == Spec => []OneTimerEach
<1>1. TimerInv => OneTimerEach
  BY Zenon DEF TimerInv
<1> QED
  BY <1>1, TimerInit, TimerNext, PTL DEF Spec

----------------------------------------------------------------------------
(* Types.                                                                  *)

RuleSet == Rules \cup {s.rule : s \in Start}

\* Maps from some of the nodes to breakers.
Copies == UNION {[S -> Id] : S \in SUBSET Node}

BreakerType ==
    [state : {"Closed", "Open", "HalfOpen"}, due : BOOLEAN, rule : {r.breaker : r \in RuleSet}]

Lists == [filters : SUBSET Node, halfs : SUBSET Node]

Before == {"idle", "check", "offerRetry", "sendRetry", "offerRecycle", "sendRecycle"}
Answered == {"onCompleted", "add", "getAdded", "complete", "recover"}

ReqType ==
    [pc : Before \cup {"call"} \cup Answered, copy : Copies, outliers : SUBSET Node, lists : Lists,
     node : Node \cup {None}, err : BOOLEAN, failed : BOOLEAN, retried : BOOLEAN,
     breaker : Id \cup {None}]

TypeOK ==
    /\ rule \in RuleSet \cup {None}
    /\ nodeBreakers \in Copies
    /\ DOMAIN breaker \subseteq Id /\ breaker \in [DOMAIN breaker -> BreakerType]
    /\ req \in [Request -> ReqType]
    /\ settle \in [Node -> [pc : {"none", "recover", "complete"}, breaker : Id \cup {None}]]
    /\ load \in [pc : {"idle", "clone", "swap"}, rule : Rules \cup {None}, clone : Copies]
    /\ registry \subseteq Node /\ clients \subseteq Request
    /\ retries \in BOOLEAN /\ cleared \in BOOLEAN
    /\ healthy \in [Node -> BOOLEAN]

\* Every breaker that something refers to is there, and a completion about to store
\* a breaker refers to one.
Within(nb, clone, rq, st, B) ==
    /\ \A n \in DOMAIN nb : nb[n] \in B
    /\ \A n \in DOMAIN clone : clone[n] \in B
    /\ \A n \in Node : st[n].breaker \in B \cup {None}
    /\ \A r \in Request : /\ \A n \in DOMAIN rq[r].copy : rq[r].copy[n] \in B
                          /\ rq[r].breaker \in B \cup {None}
                          /\ rq[r].pc = "add" => rq[r].breaker \in B

HeapInv == Within(nodeBreakers, load.clone, req, settle, DOMAIN breaker)

\* Where a request stands, by its record p: it is not charged with an error before
\* the call, unless its Check panicked after the rule was cleared, and what it is
\* charged with is then the failure of its node or one of the exceptions.  Without
\* a rule from the start there is nothing to panic about.
Honest(p) ==
    /\ p.pc \in Before => ~p.err
    /\ p.pc = "call" /\ p.err => cleared
    /\ p.err => p.failed \/ (retries /\ p.retried) \/ cleared
    /\ p.pc \in Answered => p.node \in Node
    /\ rule = None /\ ~cleared => p.pc \notin {"offerRetry", "add"} /\ DOMAIN p.copy = {}

BlameInv ==
    /\ \A r \in Request : Honest(req[r])
    /\ rule = None /\ ~cleared => DOMAIN nodeBreakers = {}

LEMMA FreshType ==
    ASSUME NEW S, IsFiniteSet(S), Room(S)
    PROVE  Fresh(S) \in [S -> Id \ DOMAIN breaker]
<1> DEFINE T == Id \ DOMAIN breaker
           k == Cardinality(S)
           m == Cardinality(T)
<1>1. IsFiniteSet(T)
  <2>1. IsFiniteSet(Id)
    BY OutlierAssumption, FS_Interval DEF Id
  <2> QED
    BY <2>1, FS_Subset, Zenon
<1>2. k \in Nat /\ m \in Nat /\ k <= m
  BY <1>1, FS_CardinalityType, Zenon DEF Room
<1>3. PICK g : g \in Bijection(1 .. k, S)
  BY FS_CardinalityType, Zenon DEF ExistsBijection
<1>4. PICK h : h \in Bijection(1 .. m, T)
  BY <1>1, FS_CardinalityType, Zenon DEF ExistsBijection
<1> DEFINE At(x) == CHOOSE i \in 1 .. k : g[i] = x
           f == [x \in S |-> h[At(x)]]
<1>5. \A x \in S : At(x) \in 1 .. k /\ g[At(x)] = x
  BY <1>3, Zenon DEF Bijection, Surjection
<1> HIDE DEF At
<1>6. 1 .. k \subseteq 1 .. m
  BY <1>2, SMT
<1>7. /\ h \in [1 .. m -> T]
      /\ \A i, j \in 1 .. m : h[i] = h[j] => i = j
  BY <1>4, Zenon DEF Bijection, Injection, IsInjective
<1>8. f \in [S -> T]
  BY <1>5, <1>6, <1>7, Zenon
<1>9. IsInjective(f)
  <2> SUFFICES ASSUME NEW a \in S, NEW b \in S, f[a] = f[b] PROVE a = b
    BY Zenon DEF IsInjective
  <2>1. h[At(a)] = h[At(b)]
    BY Zenon
  <2>2. At(a) = At(b)
    BY <1>5, <1>6, <1>7, <2>1, Zenon
  <2> QED
    BY <1>5, <2>2, Zenon
<1> HIDE DEF f
<1> QED
  BY <1>8, <1>9, Zenon DEF Fresh

LEMMA CopyType ==
    /\ Empty \in Copies /\ DOMAIN Empty = {}
    /\ \A f \in Copies : DOMAIN f \subseteq Node /\ f \in [DOMAIN f -> Id]
    /\ \A S \in SUBSET Node : \A f \in [S -> Id] : f \in Copies
BY ZenonT(40) DEF Copies, Empty

LEMMA IdleType == Idle \in ReqType
<1>1. NoLists \in Lists
  BY Zenon DEF NoLists, Lists
<1> QED
  BY <1>1, CopyType, Zenon DEF Idle, ReqType, Before

----------------------------------------------------------------------------
(* What a request does to its own record.                                  *)

LEMMA ListsType ==
    ASSUME TypeOK, NEW r \in Request
    PROVE  NoLists \in Lists /\ req[r].lists \in Lists /\ Left(r) \in Lists
<1>1. NoLists \in Lists
  BY Zenon DEF NoLists, Lists
<1>2. req[r].lists \in Lists
  BY Zenon DEF TypeOK, ReqType
<1> QED
  BY <1>1, <1>2, Zenon DEF Left

\* The next request finds nothing of this one but its lists.
LEMMA OverMoves ==
    ASSUME TypeOK, NEW r \in Request, Over(r)
    PROVE  \E q \in ReqType : req' = [req EXCEPT ![r] = q] /\ Honest(q)
<1> DEFINE q == [Idle EXCEPT !.lists = Left(r)]
<1>1. q \in ReqType
  BY IdleType, ListsType, Zenon DEF ReqType
<1>2. q.pc = "idle" /\ q.err = FALSE /\ q.copy = Empty
  BY Zenon DEF Idle
<1>3. Honest(q)
  <2> HIDE DEF q
  <2> QED
    BY <1>2, CopyType, Zenon DEF Honest, Before, Answered
<1> QED
  BY <1>1, <1>3, Zenon DEF Over

\* A panic needs a breaker to try, and so a rule that was there and has been cleared.
LEMMA PanicMoves ==
    ASSUME TypeOK, NEW r \in Request, Panic(r), cleared
    PROVE  \E q \in ReqType : req' = [req EXCEPT ![r] = q] /\ Honest(q)
<1>1. PICK l \in {req[r].lists, NoLists} :
         req' = [req EXCEPT ![r] = [Idle EXCEPT !.pc = "call", !.lists = l, !.err = TRUE]]
  BY Zenon DEF Panic
<1> DEFINE q == [Idle EXCEPT !.pc = "call", !.lists = l, !.err = TRUE]
<1>2. q \in ReqType
  BY IdleType, ListsType, Zenon DEF ReqType
<1>3. q.pc = "call" /\ q.err = TRUE /\ q.copy = Empty
  BY Zenon DEF Idle
<1>4. Honest(q)
  <2> HIDE DEF q
  <2> QED
    BY <1>3, CopyType, Zenon DEF Honest, Before, Answered
<1> QED
  BY <1>1, <1>2, <1>4, Zenon

LEMMA RequestMoves ==
    ASSUME TypeOK, BlameInv, NEW r \in Request, RequestStep(r)
    PROVE  \E q \in ReqType : req' = [req EXCEPT ![r] = q] /\ Honest(q)
<1> DEFINE p == req[r]
           Goal == \E q \in ReqType : req' = [req EXCEPT ![r] = q] /\ Honest(q)
<1>1. p \in ReqType /\ Honest(p)
  BY Zenon DEF TypeOK, BlameInv
<1>2. p.copy \in Copies /\ p.breaker \in Id \cup {None} /\ p.node \in Node \cup {None}
      /\ p.err \in BOOLEAN /\ p.failed \in BOOLEAN /\ p.retried \in BOOLEAN
  BY <1>1, Zenon DEF ReqType
\* A step of the request that changes nothing the blame depends on.
<1>3. ASSUME NEW l \in Before \cup {"call"}, NEW o \in SUBSET Node,
             req' = [req EXCEPT ![r].pc = l, ![r].outliers = o],
             p.pc \in Before, p.pc # "idle", l # "offerRetry"
      PROVE  Goal
  <2> DEFINE q == [p EXCEPT !.pc = l, !.outliers = o]
  <2>1. q \in ReqType
    BY <1>1, Zenon DEF ReqType
  <2>2. q.pc = l /\ q.err = p.err /\ q.copy = p.copy
    BY <1>1, Zenon DEF ReqType
  <2>3. req' = [req EXCEPT ![r] = q]
    BY <1>3, Zenon
  <2> HIDE DEF q
  <2>4. Honest(q)
    BY <1>1, <1>3, <2>2, Zenon DEF Honest, Before, Answered
  <2> QED
    BY <2>1, <2>3, <2>4, Zenon
<1>4. ASSUME NEW l \in {"sendRetry", "offerRecycle", "sendRecycle"}, Goto(r, l), p.pc \in Before, p.pc # "idle"
      PROVE  Goal
  <2>1. p.outliers \in SUBSET Node
    BY <1>1, Zenon DEF ReqType
  <2>2. req' = [req EXCEPT ![r].pc = l, ![r].outliers = p.outliers]
    BY <1>1, <1>4, Zenon DEF Goto, TypeOK, ReqType
  <2> QED
    BY <1>3, <1>4, <2>1, <2>2, Zenon DEF Before
<1>5. CASE GetNodeBreakers(r)
  <2> DEFINE q == [p EXCEPT !.pc = "check", !.copy = nodeBreakers]
  <2>1. q \in ReqType
    BY <1>1, Zenon DEF ReqType, TypeOK, Before
  <2>2. q.pc = "check" /\ q.err = p.err /\ q.copy = nodeBreakers
    BY <1>1, Zenon DEF ReqType
  <2>3. req' = [req EXCEPT ![r] = q] /\ p.pc = "idle"
    BY <1>5, Zenon DEF GetNodeBreakers
  <2> HIDE DEF q
  <2>4. Honest(q)
    BY <1>1, <2>2, <2>3, Zenon DEF Honest, Before, Answered, BlameInv
  <2> QED
    BY <2>1, <2>3, <2>4, Zenon
<1>6. CASE CheckAllNodes(r)
  <2> DEFINE all == DOMAIN p.copy
             outliers == {n \in all : Refuses(p.copy[n])}
             probed == {n \in all \ outliers : breaker[p.copy[n]].state = "Open"}
  <2>1. all \subseteq Node
    BY <1>2, CopyType, Zenon
  <2>2. CASE rule = None /\ all # {} /\ Panic(r)
    BY <1>1, <2>2, PanicMoves, Zenon DEF Honest
  <2>3. ASSUME NEW f \in SUBSET outliers, NEW h \in SUBSET probed,
               req' = [req EXCEPT ![r] = [@ EXCEPT
                        !.pc = IF outliers = {} THEN "call" ELSE "offerRetry", !.copy = Empty,
                        !.outliers = outliers, !.lists = [filters |-> f, halfs |-> h]]],
               rule = None => all = {}
        PROVE  Goal
    <3> DEFINE q == [p EXCEPT !.pc = IF outliers = {} THEN "call" ELSE "offerRetry",
                     !.copy = Empty, !.outliers = outliers, !.lists = [filters |-> f, halfs |-> h]]
    <3>1. [filters |-> f, halfs |-> h] \in Lists
      BY <2>1, Zenon DEF Lists
    <3>2. outliers \in SUBSET Node /\ (all = {} => outliers = {})
      BY <2>1, Zenon
    <3> HIDE DEF outliers
    <3>3. q \in ReqType
      BY <1>1, <3>1, <3>2, CopyType, ZenonT(40) DEF ReqType, Before
    <3>4. /\ q.pc = IF outliers = {} THEN "call" ELSE "offerRetry"
          /\ q.err = p.err /\ q.copy = Empty
      BY <1>1, Zenon DEF ReqType
    <3>5. req' = [req EXCEPT ![r] = q]
      BY <2>3, Zenon
    <3>6. p.pc = "check"
      BY <1>6, Zenon DEF CheckAllNodes
    <3> HIDE DEF q
    <3>7. Honest(q)
      BY <1>1, <2>3, <3>2, <3>4, <3>6, CopyType, Zenon DEF Honest, Before, Answered
    <3> QED
      BY <3>3, <3>5, <3>7, Zenon
  <2> QED
    BY <1>6, <2>2, <2>3, Zenon DEF CheckAllNodes
<1>7. CASE OfferRetry(r)
  <2>1. p.pc = "offerRetry"
    BY <1>7, Zenon DEF OfferRetry
  <2>2. CASE rule = None /\ Panic(r)
    BY <1>1, <2>1, <2>2, PanicMoves, Zenon DEF Honest
  <2>3. CASE Goto(r, "sendRetry") \/ Goto(r, "offerRecycle")
    BY <1>4, <2>1, <2>3, Zenon DEF Before
  <2> QED
    BY <1>7, <2>2, <2>3, Zenon DEF OfferRetry
<1>8. CASE SendRetry(r)
  BY <1>4, <1>8, Zenon DEF SendRetry, Before
<1>9. CASE OfferRecycle(r)
  <2>1. p.pc = "offerRecycle" /\ p.pc \in Before /\ p.pc # "idle"
    BY <1>9, Zenon DEF OfferRecycle, Before
  <2>2. CASE Goto(r, "sendRecycle")
    BY <1>4, <2>1, <2>2, Zenon
  <2>3. CASE req' = [req EXCEPT ![r].pc = "call", ![r].outliers = {}]
    <3>1. {} \in SUBSET Node
      OBVIOUS
    <3> QED
      BY <1>3, <2>1, <2>3, <3>1, Zenon
  <2> QED
    BY <1>9, <2>2, <2>3, Zenon DEF OfferRecycle
<1>10. CASE SendRecycle(r)
  <2>1. p.pc = "sendRecycle" /\ p.pc \in Before /\ p.pc # "idle"
    BY <1>10, Zenon DEF SendRecycle, Before
  <2>2. {} \in SUBSET Node
    OBVIOUS
  <2> QED
    BY <1>3, <1>10, <2>1, <2>2, Zenon DEF SendRecycle
<1>11. CASE Call(r)
  <2>1. ASSUME NEW n \in OutlierClientFilter(r),
               req' = [req EXCEPT ![r].pc = "onCompleted", ![r].node = n,
                                  ![r].failed = ~healthy[n], ![r].err = @ \/ ~healthy[n]]
        PROVE  Goal
    <3> DEFINE bad == ~healthy[n]
               q == [p EXCEPT !.pc = "onCompleted", !.node = n, !.failed = bad, !.err = @ \/ bad]
    <3>1. n \in Node
      BY Zenon DEF OutlierClientFilter, GetRemainingNodes, TypeOK
    <3>2. bad \in BOOLEAN
      OBVIOUS
    <3>3. req' = [req EXCEPT ![r] = q] /\ p.pc = "call"
      BY <1>11, <2>1, ZenonT(80) DEF Call
    <3> HIDE DEF bad
    <3>4. q \in ReqType
      BY <1>1, <3>1, <3>2, ZenonT(40) DEF ReqType, Answered
    <3>5. /\ q.pc = "onCompleted" /\ q.err = (p.err \/ bad) /\ q.failed = bad
          /\ q.node = n /\ q.copy = p.copy /\ q.retried = p.retried
      BY <1>1, Zenon DEF ReqType
    <3> HIDE DEF q
    <3>6. Honest(q)
      BY <1>1, <3>1, <3>2, <3>3, <3>5, Zenon DEF Honest, Before, Answered
    <3> QED
      BY <3>3, <3>4, <3>6, Zenon
  <2> QED
    BY <1>11, <2>1, OverMoves, Zenon DEF Call
<1>12. CASE RetryCall(r)
  <2>1. PICK n \in OutlierClientFilter(r) :
           req' = [req EXCEPT ![r].node = n, ![r].failed = ~healthy[n], ![r].retried = TRUE]
    BY <1>12, Zenon DEF RetryCall
  <2> DEFINE bad == ~healthy[n]
             q == [p EXCEPT !.node = n, !.failed = bad, !.retried = TRUE]
  <2>2. n \in Node
    BY Zenon DEF OutlierClientFilter, GetRemainingNodes, TypeOK
  <2>3. bad \in BOOLEAN
    OBVIOUS
  <2>4. req' = [req EXCEPT ![r] = q]
    BY <2>1, Zenon
  <2>5. p.pc = "onCompleted" /\ retries
    BY <1>12, Zenon DEF RetryCall
  <2> HIDE DEF bad
  <2>6. q \in ReqType
    BY <1>1, <2>2, <2>3, Zenon DEF ReqType
  <2>7. q.pc = p.pc /\ q.err = p.err /\ q.retried = TRUE /\ q.node = n /\ q.copy = p.copy
    BY <1>1, Zenon DEF ReqType
  <2> HIDE DEF q
  <2>8. Honest(q)
    BY <1>1, <2>2, <2>5, <2>7, Zenon DEF Honest, Before, Answered
  <2> QED
    BY <2>4, <2>6, <2>8, Zenon
\* The steps of OnCompleted carry the charge along.
<1>13. ASSUME NEW l \in {"add", "getAdded", "complete"}, NEW b \in Id \cup {None},
              NEW ls \in Lists, p.pc \in {"onCompleted", "add", "getAdded"},
              l = "add" => rule # None,
              req' = [req EXCEPT ![r].pc = l, ![r].breaker = b, ![r].lists = ls]
       PROVE  Goal
  <2> DEFINE q == [p EXCEPT !.pc = l, !.breaker = b, !.lists = ls]
  <2>1. q \in ReqType
    BY <1>1, <1>13, Zenon DEF ReqType, Answered
  <2>2. /\ q.pc = l /\ q.err = p.err /\ q.failed = p.failed /\ q.retried = p.retried
        /\ q.node = p.node /\ q.copy = p.copy
    BY <1>1, Zenon DEF ReqType
  <2>3. req' = [req EXCEPT ![r] = q]
    BY <1>13, Zenon
  <2> HIDE DEF q
  <2>4. Honest(q)
    BY <1>1, <1>13, <2>2, Zenon DEF Honest, Before, Answered
  <2> QED
    BY <2>1, <2>3, <2>4, Zenon
<1>14. ASSUME NEW l \in {"getAdded", "complete"}, NEW b \in Id \cup {None},
              p.pc \in {"onCompleted", "add", "getAdded"},
              req' = [req EXCEPT ![r].pc = l, ![r].breaker = b]
       PROVE  Goal
  <2>1. p.lists \in Lists
    BY ListsType, Zenon
  <2>2. req' = [req EXCEPT ![r].pc = l, ![r].breaker = b, ![r].lists = p.lists]
    BY <1>1, <1>14, ZenonT(40) DEF TypeOK, ReqType
  <2> QED
    BY <1>13, <1>14, <2>1, <2>2, ZenonT(40)
<1>15. \A n \in DOMAIN nodeBreakers : nodeBreakers[n] \in Id
  BY CopyType, ZenonT(40) DEF TypeOK
<1>16. CASE OnCompleted(r)
  <2>1. p.pc = "onCompleted"
    BY <1>16, Zenon DEF OnCompleted
  <2>2. CASE /\ p.node \in DOMAIN nodeBreakers
             /\ req' = [req EXCEPT ![r].pc = "complete", ![r].breaker = nodeBreakers[p.node],
                                   ![r].lists = Left(r)]
    BY <1>13, <1>15, <2>1, <2>2, ListsType, Zenon
  <2>3. CASE /\ rule # None /\ Room({p.node})
             /\ req' = [req EXCEPT ![r].pc = "add", ![r].breaker = Fresh({p.node})[p.node],
                                   ![r].lists = Left(r)]
    <3>1. Fresh({p.node})[p.node] \in Id
      BY <2>3, FreshType, FS_Singleton, Zenon
    <3> QED
      BY <1>13, <2>1, <2>3, <3>1, ListsType, Zenon
  <2> QED
    BY <1>16, <2>2, <2>3, OverMoves, Zenon DEF OnCompleted
<1>17. CASE AddNodeBreaker(r)
  BY <1>14, <1>17, Zenon DEF AddNodeBreaker
<1>18. CASE GetAdded(r)
  BY <1>14, <1>15, <1>18, OverMoves, Zenon DEF GetAdded
<1>19. CASE OnRequestComplete(r)
  <2>1. p.pc = "complete" /\ p.node \in Node
    BY <1>1, <1>19, Zenon DEF OnRequestComplete, Honest, Answered
  <2>2. CASE req' = [req EXCEPT ![r] = [Idle EXCEPT !.pc = "recover", !.node = p.node,
                                                    !.lists = Left(r)]]
    <3> DEFINE q == [Idle EXCEPT !.pc = "recover", !.node = p.node, !.lists = Left(r)]
    <3>1. q \in ReqType
      BY <2>1, IdleType, ListsType, Zenon DEF ReqType, Answered
    <3>2. q.pc = "recover" /\ q.err = FALSE /\ q.copy = Empty /\ q.node = p.node
      BY Zenon DEF Idle
    <3> HIDE DEF q
    <3>3. Honest(q)
      BY <2>1, <3>2, CopyType, Zenon DEF Honest, Before, Answered
    <3> QED
      BY <2>2, <3>1, <3>3, Zenon DEF q
  <2> QED
    BY <1>19, <2>2, OverMoves, Zenon DEF OnRequestComplete
<1>20. CASE RecoverNode(r)
  BY <1>20, OverMoves, Zenon DEF RecoverNode
<1> QED
  BY <1>5, <1>6, <1>7, <1>8, <1>9, <1>10, <1>11, <1>12, <1>16, <1>17, <1>18, <1>19, <1>20, ZenonT(40)
     DEF RequestStep

----------------------------------------------------------------------------
(* The breakers that an action leaves.                                     *)

\* h has the breakers there are, each for the rule it was built for.
KeepsRules(h) ==
    /\ DOMAIN breaker \subseteq DOMAIN h /\ DOMAIN h \subseteq Id
    /\ h \in [DOMAIN h -> BreakerType]
    /\ \A i \in DOMAIN breaker : h[i].rule = breaker[i].rule

LEMMA KeepsSame == TypeOK => KeepsRules(breaker)
BY Zenon DEF TypeOK, KeepsRules

LEMMA KeepsTried ==
    ASSUME TypeOK, NEW B
    PROVE  KeepsRules(Tried(B))
<1> DEFINE h == Tried(B)
<1>1. ASSUME NEW i \in DOMAIN breaker PROVE h[i] \in BreakerType /\ h[i].rule = breaker[i].rule
  <2>1. breaker[i] \in BreakerType
    BY Zenon DEF TypeOK
  <2> DEFINE b == [breaker[i] EXCEPT !.state = "HalfOpen", !.due = FALSE]
  <2>2. b \in BreakerType /\ b.rule = breaker[i].rule
    BY <2>1, Zenon DEF BreakerType
  <2>3. h[i] = b \/ h[i] = breaker[i]
    BY Zenon DEF Tried
  <2> HIDE DEF b, h
  <2> QED
    BY <2>1, <2>2, <2>3, Zenon
<1>2. h = [i \in DOMAIN h |-> h[i]] /\ DOMAIN h = DOMAIN breaker
  BY Zenon DEF Tried
<1> HIDE DEF h
<1>3. h \in [DOMAIN h -> BreakerType]
  BY <1>1, <1>2, Zenon
<1>4. KeepsRules(h)
  BY <1>1, <1>2, <1>3, Zenon DEF KeepsRules, TypeOK
<1> QED
  BY <1>4, Zenon DEF h

LEMMA KeepsCompleted ==
    ASSUME TypeOK, NEW i, NEW err
    PROVE  KeepsRules(Completed(i, err))
<1> DEFINE h == Completed(i, err)
<1>1. ASSUME NEW j \in DOMAIN breaker PROVE h[j] \in BreakerType /\ h[j].rule = breaker[j].rule
  <2>1. breaker[j] \in BreakerType
    BY Zenon DEF TypeOK
  <2> DEFINE b == [breaker[j] EXCEPT !.state = "Closed"]
             c == [breaker[j] EXCEPT !.state = "Open", !.due = FALSE]
  <2>2. b \in BreakerType /\ b.rule = breaker[j].rule
    BY <2>1, Zenon DEF BreakerType
  <2>3. c \in BreakerType /\ c.rule = breaker[j].rule
    BY <2>1, Zenon DEF BreakerType
  <2>4. h[j] = b \/ h[j] = c \/ h[j] = breaker[j]
    <3>1. CASE i = j
      <4>1. h[j] = CASE breaker[j].state = "HalfOpen" /\ ~err -> b
                     [] breaker[j].state # "Open" /\ err      -> c
                     [] OTHER                                 -> breaker[j]
        BY <3>1, Zenon DEF Completed
      <4> HIDE DEF b, c, h
      <4> QED
        BY <4>1, Zenon
    <3>2. CASE i # j
      BY <3>2, Zenon DEF Completed
    <3> QED
      BY <3>1, <3>2, Zenon
  <2> HIDE DEF b, c, h
  <2> QED
    BY <2>1, <2>2, <2>3, <2>4, Zenon
<1>2. h = [j \in DOMAIN h |-> h[j]] /\ DOMAIN h = DOMAIN breaker
  BY Zenon DEF Completed, TypeOK
<1> HIDE DEF h
<1>3. h \in [DOMAIN h -> BreakerType]
  BY <1>1, <1>2, Zenon
<1>4. KeepsRules(h)
  BY <1>1, <1>2, <1>3, Zenon DEF KeepsRules, TypeOK
<1> QED
  BY <1>4, Zenon DEF h

\* New breakers do not take the place of others.
LEMMA KeepsMade ==
    ASSUME TypeOK, NEW S, NEW f \in [S -> Id \ DOMAIN breaker], NEW r \in RuleSet
    PROVE  /\ KeepsRules(Made(f, r))
           /\ \A n \in S : f[n] \in DOMAIN Made(f, r) /\ Made(f, r)[f[n]].rule = r.breaker
<1> DEFINE h == Made(f, r)
<1>1. /\ New(r) \in BreakerType /\ New(r).rule = r.breaker
  BY Zenon DEF New, BreakerType
<1>2. /\ \A i \in Range(f) : i \in Id /\ i \notin DOMAIN breaker
      /\ \A n \in S : f[n] \in Range(f)
  BY Zenon DEF Range
<1>3. /\ h = [i \in DOMAIN h |-> h[i]] /\ DOMAIN h = Range(f) \cup DOMAIN breaker
      /\ \A i \in DOMAIN h : h[i] = IF i \in Range(f) THEN New(r) ELSE breaker[i]
  BY Zenon DEF Made, Overlay
<1> HIDE DEF h
<1>4. \A i \in DOMAIN breaker : breaker[i] \in BreakerType /\ i \in Id
  BY Zenon DEF TypeOK
<1>5. /\ \A i \in DOMAIN breaker : h[i] = breaker[i]
      /\ \A i \in DOMAIN h : h[i] \in BreakerType
  BY <1>1, <1>2, <1>3, <1>4, Zenon
<1>6. h \in [DOMAIN h -> BreakerType]
  BY <1>3, <1>5, Zenon
<1>7. KeepsRules(h)
  BY <1>2, <1>3, <1>4, <1>5, <1>6, Zenon DEF KeepsRules
<1>8. \A n \in S : f[n] \in DOMAIN h /\ h[f[n]].rule = r.breaker
  BY <1>1, <1>2, <1>3, Zenon
<1> QED
  BY <1>7, <1>8, Zenon DEF h

\* What a step does to the breakers: they are there for whoever refers to them, and
\* have the rules they were built for.
Tended ==
    /\ HeapInv'
    /\ DOMAIN breaker' \subseteq Id /\ breaker' \in [DOMAIN breaker' -> BreakerType]
    /\ \A i \in DOMAIN breaker' : i \in DOMAIN breaker => breaker'[i].rule = breaker[i].rule

LEMMA Collected ==
    ASSUME TypeOK, NEW h, KeepsRules(h), Heap(h),
           Within(nodeBreakers', load'.clone, req', settle', DOMAIN h)
    PROVE  Tended /\ \A i \in DOMAIN breaker' : breaker'[i] = h[i]
<1>1. None \notin Id
  BY OutlierAssumption, Zenon DEF Id
<1>2. /\ Range(nodeBreakers') \subseteq DOMAIN h /\ Range(load'.clone) \subseteq DOMAIN h
      /\ \A r \in Request : Range(req'[r].copy) \subseteq DOMAIN h
  BY Zenon DEF Within, Range
<1>3. Referenced' \subseteq DOMAIN h
  BY <1>1, <1>2, Zenon DEF Referenced, Within
<1>4. DOMAIN breaker' = Referenced' /\ \A i \in Referenced' : breaker'[i] = h[i]
  BY Zenon DEF Heap, Restrict
<1>5. breaker' = [i \in DOMAIN breaker' |-> breaker'[i]]
  BY Zenon DEF Heap, Restrict
<1>6. /\ \A n \in DOMAIN nodeBreakers' : nodeBreakers'[n] \in Referenced'
      /\ \A n \in DOMAIN load'.clone : load'.clone[n] \in Referenced'
  <2>1. /\ \A n \in DOMAIN nodeBreakers' : nodeBreakers'[n] \in Id /\ nodeBreakers'[n] \in Range(nodeBreakers')
        /\ \A n \in DOMAIN load'.clone : load'.clone[n] \in Id /\ load'.clone[n] \in Range(load'.clone)
    BY Zenon DEF Within, Range, KeepsRules
  <2> QED
    BY <2>1, Zenon DEF Referenced
<1>7. \A n \in Node : settle'[n].breaker \in Referenced' \cup {None}
  BY Zenon DEF Referenced, Within, KeepsRules
<1>8. ASSUME NEW r \in Request
      PROVE  /\ \A n \in DOMAIN req'[r].copy : req'[r].copy[n] \in Referenced'
             /\ req'[r].breaker \in Referenced' \cup {None}
             /\ req'[r].pc = "add" => req'[r].breaker \in Referenced'
  <2>1. \A n \in DOMAIN req'[r].copy : /\ req'[r].copy[n] \in Id
                                       /\ req'[r].copy[n] \in Range(req'[r].copy)
    BY Zenon DEF Within, Range, KeepsRules
  <2>0. ASSUME NEW i \in Id, i \in Range(req'[r].copy) \cup {req'[r].breaker}
        PROVE  i \in Referenced'
    <3>1. i \in UNION {Range(req'[s].copy) \cup {req'[s].breaker} : s \in Request}
      BY <2>0, SMT
    <3> QED
      BY <3>1, Zenon DEF Referenced
  <2>2. \A n \in DOMAIN req'[r].copy : req'[r].copy[n] \in Referenced'
    BY <2>0, <2>1, Zenon
  <2>3. req'[r].breaker \in Id => req'[r].breaker \in Referenced'
    BY <2>0, Zenon
  <2>4. /\ req'[r].breaker \in DOMAIN h \cup {None}
        /\ req'[r].pc = "add" => req'[r].breaker \in DOMAIN h
    BY Zenon DEF Within
  <2> QED
    BY <2>2, <2>3, <2>4, Zenon DEF KeepsRules
<1>9. HeapInv'
  BY <1>4, <1>6, <1>7, <1>8, Zenon DEF HeapInv, Within
<1>10. breaker' \in [DOMAIN breaker' -> BreakerType]
  BY <1>3, <1>4, <1>5, Zenon DEF KeepsRules
<1> QED
  BY <1>3, <1>4, <1>9, <1>10, Zenon DEF KeepsRules, Tended

LEMMA Untouched ==
    ASSUME TypeOK, UNCHANGED breaker,
           Within(nodeBreakers', load'.clone, req', settle', DOMAIN breaker)
    PROVE  Tended
BY Zenon DEF TypeOK, Tended, HeapInv

\* Breakers in force that stay, or go, follow the rule as before.
LEMMA Follows ==
    ASSUME HeapInv, BreakersFollowRule, Tended,
           \A n \in DOMAIN nodeBreakers' :
               n \in DOMAIN nodeBreakers /\ nodeBreakers'[n] = nodeBreakers[n],
           UNCHANGED <<rule, load, stale>>
    PROVE  BreakersFollowRule'
<1> SUFFICES ASSUME load'.pc = "idle", ~stale', NEW n \in DOMAIN nodeBreakers'
             PROVE  rule' # None /\ breaker'[nodeBreakers'[n]].rule = rule'.breaker
  BY Zenon DEF BreakersFollowRule
<1>1. rule # None /\ breaker[nodeBreakers[n]].rule = rule.breaker
  BY Zenon DEF BreakersFollowRule
<1>2. nodeBreakers[n] \in DOMAIN breaker /\ nodeBreakers'[n] \in DOMAIN breaker'
  BY Zenon DEF HeapInv, Within, Tended
<1> QED
  BY <1>1, <1>2, Zenon DEF Tended

LEMMA LetGo ==
    ASSUME TypeOK, NEW r \in Request, Over(r) \/ Panic(r)
    PROVE  req'[r].copy = Empty /\ req'[r].breaker = None /\ req'[r].pc # "add"
<1>0. req \in [Request -> ReqType]
  BY Zenon DEF TypeOK
<1>1. CASE Over(r)
  BY <1>0, <1>1, Zenon DEF Over, Idle
<1>2. CASE Panic(r)
  <2>1. PICK l : req' = [req EXCEPT ![r] = [Idle EXCEPT !.pc = "call", !.lists = l, !.err = TRUE]]
    BY <1>2, Zenon DEF Panic
  <2> QED
    BY <1>0, <2>1, Zenon DEF Idle
<1> QED
  BY <1>1, <1>2, Zenon

\* The steps of a request refer to breakers in force, or to the one they build.
LEMMA RequestTends ==
    ASSUME TypeOK, BlameInv, HeapInv, NEW r \in Request, RequestStep(r)
    PROVE  Tended /\ nodeBreakers' \in Copies /\ (BreakersFollowRule => BreakersFollowRule')
<1> DEFINE p == req[r]
           p2 == req'[r]
           Goal == Tended /\ nodeBreakers' \in Copies /\ (BreakersFollowRule => BreakersFollowRule')
<1>0. req \in [Request -> ReqType]
  BY Zenon DEF TypeOK
<1>1. p \in ReqType /\ Honest(p)
  BY <1>0, Zenon DEF BlameInv
<1>2. \A s \in Request : s # r => req'[s] = req[s]
  <2>1. PICK q \in ReqType : req' = [req EXCEPT ![r] = q]
    BY RequestMoves, Zenon
  <2> QED
    BY <1>0, <2>1, Zenon
<1>3. UNCHANGED <<rule, load, settle>>
  BY Zenon DEF RequestStep, GetNodeBreakers, CheckAllNodes, OfferRetry, SendRetry, OfferRecycle,
     SendRecycle, Call, RetryCall, OnCompleted, AddNodeBreaker, GetAdded, OnRequestComplete,
     RecoverNode, retry, rules
<1>4. ASSUME NEW B, DOMAIN breaker \subseteq B,
             \A n \in DOMAIN nodeBreakers' : nodeBreakers'[n] \in B,
             p2.copy \in {Empty, p.copy, nodeBreakers},
             p2.breaker \in B \cup {None}, p2.pc = "add" => p2.breaker \in B
      PROVE  Within(nodeBreakers', load'.clone, req', settle', B)
  <2>1. /\ \A n \in DOMAIN nodeBreakers : nodeBreakers[n] \in DOMAIN breaker
        /\ \A n \in DOMAIN p.copy : p.copy[n] \in DOMAIN breaker
        /\ \A n \in DOMAIN load.clone : load.clone[n] \in DOMAIN breaker
        /\ \A n \in Node : settle[n].breaker \in DOMAIN breaker \cup {None}
    BY Zenon DEF HeapInv, Within
  <2>2. \A n \in DOMAIN p2.copy : p2.copy[n] \in B
    BY <1>4, <2>1, CopyType, Zenon
  <2>3. ASSUME NEW s \in Request, s # r
        PROVE  /\ \A n \in DOMAIN req'[s].copy : req'[s].copy[n] \in B
               /\ req'[s].breaker \in B \cup {None}
               /\ req'[s].pc = "add" => req'[s].breaker \in B
    BY <1>2, <1>4, <2>3, Zenon DEF HeapInv, Within
  <2> QED
    BY <1>3, <1>4, <2>1, <2>2, <2>3, Zenon DEF Within
<1>5. p.breaker \in DOMAIN breaker \cup {None} /\ (p.pc = "add" => p.breaker \in DOMAIN breaker)
  BY Zenon DEF HeapInv, Within
<1>6. \A n \in DOMAIN nodeBreakers : nodeBreakers[n] \in DOMAIN breaker
  BY Zenon DEF HeapInv, Within
<1>7. ASSUME UNCHANGED <<nodeBreakers, stale>>, Tended PROVE Goal
  BY <1>3, <1>7, Follows, Zenon DEF TypeOK
\* The steps that leave the breakers alone.
<1>8. ASSUME UNCHANGED <<nodeBreakers, breaker, stale>>, p2.pc # "add",
             p2.copy \in {Empty, p.copy, nodeBreakers},
             p2.breaker \in {None, p.breaker} \cup Range(nodeBreakers)
      PROVE  Goal
  <2>1. p2.breaker \in DOMAIN breaker \cup {None}
    BY <1>5, <1>6, <1>8, Zenon DEF Range
  <2>2. Within(nodeBreakers', load'.clone, req', settle', DOMAIN breaker)
    BY <1>4, <1>6, <1>8, <2>1, Zenon
  <2>3. Tended
    BY <1>8, <2>2, Untouched, Zenon
  <2> QED
    BY <1>7, <1>8, <2>3, Zenon
\* The steps that end in a heap with the same breakers.
<1>9. ASSUME NEW h, KeepsRules(h), Heap(h), UNCHANGED <<nodeBreakers, stale>>, p2.pc # "add",
             p2.copy \in {Empty, p.copy, nodeBreakers},
             p2.breaker \in {None, p.breaker} \cup Range(nodeBreakers)
      PROVE  Goal
  <2>1. DOMAIN breaker \subseteq DOMAIN h
    BY <1>9, Zenon DEF KeepsRules
  <2>2. p2.breaker \in DOMAIN h \cup {None}
    BY <1>5, <1>6, <1>9, <2>1, Zenon DEF Range
  <2>3. Within(nodeBreakers', load'.clone, req', settle', DOMAIN h)
    BY <1>4, <1>6, <1>9, <2>1, <2>2, Zenon
  <2>4. Tended
    BY <1>9, <2>3, Collected, Zenon
  <2> QED
    BY <1>7, <1>9, <2>4, Zenon
<1>10. CASE GetNodeBreakers(r)
  <2>1. p2.copy = nodeBreakers /\ p2.breaker = p.breaker /\ p2.pc = "check"
    BY <1>1, <1>10, Zenon DEF GetNodeBreakers, TypeOK, ReqType
  <2> QED
    BY <1>8, <1>10, <2>1, Zenon DEF GetNodeBreakers
<1>11. CASE CheckAllNodes(r)
  <2>1. UNCHANGED <<nodeBreakers, stale>>
    BY <1>11, Zenon DEF CheckAllNodes
  <2>2. PICK B : Heap(Tried(B))
    BY <1>11, Zenon DEF CheckAllNodes
  <2>3. CASE Panic(r)
    BY <1>9, <2>1, <2>2, <2>3, KeepsTried, LetGo, Zenon
  <2>4. CASE \E l \in {"call", "offerRetry"} : \E o, ls :
                req' = [req EXCEPT ![r] = [@ EXCEPT !.pc = l, !.copy = Empty, !.outliers = o, !.lists = ls]]
    <3>1. p2.copy = Empty /\ p2.breaker = p.breaker /\ p2.pc # "add"
      BY <1>0, <1>1, <2>4, ZenonT(80) DEF ReqType
    <3> QED
      BY <1>9, <2>1, <2>2, <3>1, KeepsTried, Zenon
  <2> QED
    BY <1>11, <2>3, <2>4, Zenon DEF CheckAllNodes
<1>12. CASE OfferRetry(r)
  <2>1. CASE Panic(r)
    BY <1>8, <1>12, <2>1, LetGo, Zenon DEF OfferRetry
  <2>2. CASE Goto(r, "sendRetry") \/ Goto(r, "offerRecycle")
    <3>1. p2.copy = p.copy /\ p2.breaker = p.breaker /\ p2.pc # "add"
      BY <1>0, <1>1, <2>2, ZenonT(40) DEF Goto, ReqType
    <3> QED
      BY <1>8, <1>12, <3>1, Zenon DEF OfferRetry
  <2> QED
    BY <1>12, <2>1, <2>2, Zenon DEF OfferRetry
<1>13. CASE SendRetry(r) \/ OfferRecycle(r) \/ SendRecycle(r) \/ RetryCall(r)
  <2>1. p2.copy = p.copy /\ p2.breaker = p.breaker /\ p2.pc # "add"
    <3>1. CASE SendRetry(r)
      BY <1>0, <1>1, <3>1, Zenon DEF SendRetry, Goto, ReqType
    <3>2. CASE OfferRecycle(r)
      <4>1. CASE Goto(r, "sendRecycle")
        BY <1>0, <1>1, <4>1, Zenon DEF Goto, ReqType
      <4>2. CASE req' = [req EXCEPT ![r].pc = "call", ![r].outliers = {}]
        BY <1>0, <1>1, <4>2, Zenon DEF ReqType
      <4> QED
        BY <3>2, <4>1, <4>2, Zenon DEF OfferRecycle
    <3>3. CASE SendRecycle(r)
      BY <1>0, <1>1, <3>3, Zenon DEF SendRecycle, ReqType
    <3>4. CASE RetryCall(r)
      <4>1. PICK n : req' = [req EXCEPT ![r].node = n, ![r].failed = ~healthy[n], ![r].retried = TRUE]
        BY <3>4, Zenon DEF RetryCall
      <4>2. p2.copy = p.copy /\ p2.breaker = p.breaker /\ p2.pc = p.pc
        BY <1>0, <1>1, <4>1, Zenon DEF ReqType
      <4> QED
        BY <3>4, <4>2, Zenon DEF RetryCall
    <3> QED
      BY <1>13, <3>1, <3>2, <3>3, <3>4, Zenon
  <2>2. UNCHANGED <<nodeBreakers, breaker, stale>>
    BY <1>13, Zenon DEF SendRetry, OfferRecycle, SendRecycle, RetryCall
  <2> QED
    BY <1>8, <2>1, <2>2, Zenon
<1>14. CASE Call(r)
  <2>1. CASE Over(r)
    BY <1>8, <1>14, <2>1, LetGo, Zenon DEF Call
  <2>2. CASE ~Over(r)
    <3>1. p2.copy = p.copy /\ p2.breaker = p.breaker /\ p2.pc # "add"
      <4>1. PICK n : req' = [req EXCEPT ![r].pc = "onCompleted", ![r].node = n,
                                        ![r].failed = ~healthy[n], ![r].err = @ \/ ~healthy[n]]
        BY <1>14, <2>2, Zenon DEF Call
      <4> QED
        BY <1>0, <1>1, <4>1, Zenon DEF ReqType
    <3> QED
      BY <1>8, <1>14, <3>1, Zenon DEF Call
  <2> QED
    BY <2>1, <2>2, Zenon
<1>15. CASE OnCompleted(r)
  <2>0. UNCHANGED <<nodeBreakers, stale>>
    BY <1>15, Zenon DEF OnCompleted
  <2>1. CASE Over(r) /\ Heap(breaker)
    BY <1>9, <2>0, <2>1, KeepsSame, LetGo, Zenon
  <2>2. CASE /\ p.node \in DOMAIN nodeBreakers /\ Heap(breaker)
             /\ req' = [req EXCEPT ![r].pc = "complete", ![r].breaker = nodeBreakers[p.node],
                                   ![r].lists = Left(r)]
    <3>1. p2.copy = p.copy /\ p2.breaker = nodeBreakers[p.node] /\ p2.pc # "add"
      BY <1>1, <2>2, Zenon DEF TypeOK, ReqType
    <3>2. p2.breaker \in Range(nodeBreakers)
      BY <2>2, <3>1, Zenon DEF Range
    <3> QED
      BY <1>9, <2>0, <2>2, <3>1, <3>2, KeepsSame, Zenon
  <2>3. CASE /\ rule # None /\ Room({p.node}) /\ Heap(Made(Fresh({p.node}), rule))
             /\ req' = [req EXCEPT ![r].pc = "add", ![r].breaker = Fresh({p.node})[p.node],
                                   ![r].lists = Left(r)]
    <3> DEFINE f == Fresh({p.node})
               h == Made(f, rule)
    <3>1. f \in [{p.node} -> Id \ DOMAIN breaker]
      BY <2>3, FreshType, FS_Singleton, Zenon
    <3>2. rule \in RuleSet
      BY <2>3, Zenon DEF TypeOK
    <3>3. p2.copy = p.copy /\ p2.breaker = f[p.node]
      BY <1>1, <2>3, Zenon DEF TypeOK, ReqType
    <3> HIDE DEF f
    <3>4. KeepsRules(h) /\ f[p.node] \in DOMAIN h
      BY <3>1, <3>2, KeepsMade, Zenon
    <3>5. Heap(h)
      BY <2>3, Zenon DEF f
    <3> HIDE DEF h
    <3>6. DOMAIN breaker \subseteq DOMAIN h
      BY <3>4, Zenon DEF KeepsRules
    <3>7. Within(nodeBreakers', load'.clone, req', settle', DOMAIN h)
      BY <1>4, <1>6, <2>0, <3>3, <3>4, <3>6, Zenon
    <3>8. Tended
      BY <3>4, <3>5, <3>7, Collected, Zenon
    <3> QED
      BY <1>7, <2>0, <3>8, Zenon
  <2> QED
    BY <1>15, <2>1, <2>2, <2>3, Zenon DEF OnCompleted
\* A breaker that is stored in time was built for the rule in force.
<1>16. CASE AddNodeBreaker(r)
  <2>1. p.pc = "add" /\ Heap(breaker)
    BY <1>16, Zenon DEF AddNodeBreaker
  <2>2. p2.copy = p.copy /\ p2.breaker = None /\ p2.pc # "add"
    BY <1>1, <1>16, Zenon DEF AddNodeBreaker, TypeOK, ReqType
  <2>3. p.node \in Node /\ p.breaker \in Id
    BY <1>1, <1>5, <2>1, Zenon DEF Honest, Answered, TypeOK
  <2>4. /\ nodeBreakers' = [n \in {p.node} \cup DOMAIN nodeBreakers |->
                              IF n = p.node THEN p.breaker ELSE nodeBreakers[n]]
    BY <1>16, Zenon DEF AddNodeBreaker, Overlay
  <2>5. DOMAIN nodeBreakers \subseteq Node /\ \A n \in DOMAIN nodeBreakers : nodeBreakers[n] \in Id
    BY CopyType, ZenonT(40) DEF TypeOK
  <2>6. nodeBreakers' \in Copies
    <3>1. nodeBreakers' \in [{p.node} \cup DOMAIN nodeBreakers -> Id]
      BY <2>3, <2>4, <2>5, Zenon
    <3> QED
      BY <2>3, <2>5, <3>1, CopyType, Zenon
  <2>7. /\ DOMAIN nodeBreakers' = {p.node} \cup DOMAIN nodeBreakers
        /\ nodeBreakers'[p.node] = p.breaker
        /\ \A n \in DOMAIN nodeBreakers : n # p.node => nodeBreakers'[n] = nodeBreakers[n]
    BY <2>4, Zenon
  <2>8. Within(nodeBreakers', load'.clone, req', settle', DOMAIN breaker)
    BY <1>4, <1>5, <1>6, <2>1, <2>2, <2>7, Zenon
  <2>9. Tended
    BY <2>1, <2>8, KeepsSame, Collected, Zenon
  <2>10. ASSUME BreakersFollowRule PROVE BreakersFollowRule'
    <3> SUFFICES ASSUME load'.pc = "idle", ~stale', NEW n \in DOMAIN nodeBreakers'
                 PROVE  rule' # None /\ breaker'[nodeBreakers'[n]].rule = rule'.breaker
      BY Zenon DEF BreakersFollowRule
    <3>1. ~stale /\ rule # None /\ breaker[p.breaker].rule = rule.breaker
      BY <1>16, Zenon DEF AddNodeBreaker
    <3>2. nodeBreakers'[n] \in DOMAIN breaker /\ breaker[nodeBreakers'[n]].rule = rule.breaker
      BY <1>3, <1>5, <1>6, <2>1, <2>7, <2>10, <3>1, Zenon DEF BreakersFollowRule
    <3>3. nodeBreakers'[n] \in DOMAIN breaker'
      BY <2>9, Zenon DEF Tended, HeapInv, Within
    <3> QED
      BY <1>3, <2>9, <3>1, <3>2, <3>3, Zenon DEF Tended
  <2> QED
    BY <2>6, <2>9, <2>10, Zenon
<1>17. CASE GetAdded(r)
  <2>1. CASE Over(r)
    BY <1>8, <1>17, <2>1, LetGo, Zenon DEF GetAdded
  <2>2. CASE /\ p.node \in DOMAIN nodeBreakers
             /\ req' = [req EXCEPT ![r].pc = "complete", ![r].breaker = nodeBreakers[p.node]]
    <3>1. p2.copy = p.copy /\ p2.breaker = nodeBreakers[p.node] /\ p2.pc # "add"
      BY <1>1, <2>2, Zenon DEF TypeOK, ReqType
    <3>2. p2.breaker \in Range(nodeBreakers)
      BY <2>2, <3>1, Zenon DEF Range
    <3> QED
      BY <1>8, <1>17, <3>1, <3>2, Zenon DEF GetAdded
  <2> QED
    BY <1>17, <2>1, <2>2, Zenon DEF GetAdded
<1>18. CASE OnRequestComplete(r)
  <2>1. p2.copy = Empty /\ p2.breaker = None /\ p2.pc # "add"
    <3>1. CASE Over(r)
      BY <3>1, LetGo, Zenon
    <3>2. CASE ~Over(r)
      <4>1. req' = [req EXCEPT ![r] = [Idle EXCEPT !.pc = "recover", !.node = p.node,
                                                   !.lists = Left(r)]]
        BY <1>18, <3>2, Zenon DEF OnRequestComplete
      <4> QED
        BY <1>0, <4>1, Zenon DEF Idle
    <3> QED
      BY <3>1, <3>2, Zenon
  <2> QED
    BY <1>9, <1>18, <2>1, KeepsCompleted, Zenon DEF OnRequestComplete
<1>19. CASE RecoverNode(r)
  BY <1>8, <1>19, LetGo, Zenon DEF RecoverNode
<1> QED
  BY <1>10, <1>11, <1>12, <1>13, <1>14, <1>15, <1>16, <1>17, <1>18, <1>19, Zenon DEF RequestStep

----------------------------------------------------------------------------
(* The invariant of the requests, the breakers and the rule.               *)

IInv == TypeOK /\ BlameInv /\ HeapInv /\ BreakersFollowRule

LEMMA IInvInit == Init => IInv
<1> SUFFICES ASSUME Init PROVE IInv
  OBVIOUS
<1>1. PICK s \in Start : /\ rule = s.rule /\ registry = s.registry /\ clients = s.clients
                         /\ retries = s.retries /\ healthy = [n \in Node |-> n \in s.up]
  BY Zenon DEF Init
<1>2. /\ nodeBreakers = Empty /\ DOMAIN breaker = {} /\ breaker \in [{} -> BreakerType]
      /\ req = [r \in Request |-> Idle] /\ settle = [n \in Node |-> NotSettling]
      /\ load = NoLoad /\ cleared = FALSE
  BY Zenon DEF Init
<1>3. /\ NotSettling \in [pc : {"none", "recover", "complete"}, breaker : Id \cup {None}]
      /\ NotSettling.breaker = None
  BY Zenon DEF NotSettling
<1>4. /\ NoLoad \in [pc : {"idle", "clone", "swap"}, rule : Rules \cup {None}, clone : Copies]
      /\ NoLoad.clone = Empty
  BY CopyType, Zenon DEF NoLoad
<1>5. TypeOK
  <2>0. rule \in RuleSet \cup {None}
    BY <1>1, Zenon DEF RuleSet
  <2>1. healthy \in [Node -> BOOLEAN]
    BY <1>1, SMT
  <2>2. registry \subseteq Node /\ clients \subseteq Request /\ retries \in BOOLEAN
    BY <1>1, OutlierAssumption, Zenon
  <2> QED
    BY <1>2, <1>3, <1>4, <2>0, <2>1, <2>2, IdleType, CopyType, Zenon DEF TypeOK
<1>6. \A r \in Request : req[r].copy = Empty /\ req[r].breaker = None /\ req[r].pc = "idle"
                         /\ req[r].err = FALSE
  BY <1>2, Zenon DEF Idle
<1>7. HeapInv
  BY <1>2, <1>3, <1>4, <1>6, CopyType, Zenon DEF HeapInv, Within
<1>8. BlameInv
  BY <1>2, <1>6, CopyType, Zenon DEF BlameInv, Honest, Before, Answered
<1>9. BreakersFollowRule
  BY <1>2, CopyType, Zenon DEF BreakersFollowRule
<1> QED
  BY <1>5, <1>7, <1>8, <1>9, Zenon DEF IInv

\* The rule is taken away only by clearing it.
LEMMA BlameKept ==
    ASSUME BlameInv, UNCHANGED <<req, retries>>, cleared => cleared',
           rule' = None /\ ~cleared' => rule = None /\ ~cleared,
           DOMAIN nodeBreakers' \subseteq DOMAIN nodeBreakers \/ rule' # None
    PROVE  BlameInv'
BY Zenon DEF BlameInv, Honest

LEMMA RequestNext ==
    ASSUME IInv, NEW r \in clients, RequestStep(r)
    PROVE  IInv'
<1>1. r \in Request /\ req \in [Request -> ReqType]
  BY Zenon DEF IInv, TypeOK
<1>2. PICK q \in ReqType : req' = [req EXCEPT ![r] = q] /\ Honest(q)
  BY <1>1, RequestMoves, Zenon DEF IInv
<1>3. Tended /\ nodeBreakers' \in Copies /\ BreakersFollowRule'
  BY <1>1, RequestTends, Zenon DEF IInv
<1>4. UNCHANGED <<rule, load, cleared, settle, registry, clients, retries, healthy>>
  BY Zenon DEF RequestStep, GetNodeBreakers, CheckAllNodes, OfferRetry, SendRetry, OfferRecycle,
     SendRecycle, Call, RetryCall, OnCompleted, AddNodeBreaker, GetAdded, OnRequestComplete,
     RecoverNode, retry, rules, world
<1>5. req' \in [Request -> ReqType]
  BY <1>1, <1>2, Zenon
<1>6. TypeOK'
  BY <1>3, <1>4, <1>5, Zenon DEF IInv, TypeOK, Tended
<1>7. \A s \in Request : Honest(req'[s])
  BY <1>1, <1>2, Zenon DEF IInv, BlameInv
<1>8. rule = None /\ ~cleared => DOMAIN nodeBreakers' = {}
  <2>1. CASE AddNodeBreaker(r)
    BY <1>1, <2>1, Zenon DEF AddNodeBreaker, IInv, BlameInv, Honest
  <2>2. CASE ~AddNodeBreaker(r)
    <3>1. UNCHANGED nodeBreakers
      BY <2>2, Zenon DEF RequestStep, GetNodeBreakers, CheckAllNodes, OfferRetry, SendRetry,
         OfferRecycle, SendRecycle, Call, RetryCall, OnCompleted, GetAdded, OnRequestComplete,
         RecoverNode
    <3> QED
      BY <3>1, Zenon DEF IInv, BlameInv
  <2> QED
    BY <2>1, <2>2, Zenon
<1>9. BlameInv'
  BY <1>4, <1>7, <1>8, Zenon DEF BlameInv, Honest
<1> QED
  BY <1>3, <1>6, <1>9, Zenon DEF IInv, Tended

\* The steps of the Retryer, the Recycler, the timers and the nodes.
LEMMA BackgroundNext ==
    ASSUME IInv, UNCHANGED <<rule, load, cleared, stale, req, registry, clients, retries>>,
           \/ ConsumeRetry \/ ConsumeRecycle
           \/ \E n \in Node : RetryerStep(n) \/ Recycle(n) \/ Flip(n)
           \/ \E i \in DOMAIN breaker : RetryTimeout(i)
    PROVE  IInv'
<1>0. TypeOK /\ BlameInv /\ HeapInv /\ BreakersFollowRule
  BY Zenon DEF IInv
<1>1. /\ nodeBreakers \in Copies /\ healthy \in [Node -> BOOLEAN]
      /\ settle \in [Node -> [pc : {"none", "recover", "complete"}, breaker : Id \cup {None}]]
  BY <1>0, Zenon DEF TypeOK
<1>2. /\ \A n \in DOMAIN nodeBreakers : nodeBreakers[n] \in DOMAIN breaker
      /\ \A n \in Node : settle[n].breaker \in DOMAIN breaker \cup {None}
  BY <1>0, Zenon DEF HeapInv, Within
<1>3. DOMAIN breaker \subseteq Id
  BY <1>0, Zenon DEF TypeOK
<1> DEFINE SettleType == [pc : {"none", "recover", "complete"}, breaker : Id \cup {None}]
<1>4. ASSUME healthy' \in [Node -> BOOLEAN], settle' \in [Node -> SettleType],
             nodeBreakers' \in Copies, Tended,
             \A n \in DOMAIN nodeBreakers' :
                 n \in DOMAIN nodeBreakers /\ nodeBreakers'[n] = nodeBreakers[n]
      PROVE  IInv'
  <2>1. TypeOK'
    BY <1>0, <1>4, Zenon DEF TypeOK, Tended
  <2>2. BlameInv'
    BY <1>0, <1>4, BlameKept, Zenon
  <2>3. BreakersFollowRule'
    BY <1>0, <1>4, Follows, Zenon
  <2> QED
    BY <1>4, <2>1, <2>2, <2>3, Zenon DEF IInv, Tended
<1>5. ASSUME NEW B, DOMAIN breaker \subseteq B,
             \A n \in DOMAIN nodeBreakers' : nodeBreakers'[n] \in B,
             \A n \in Node : settle'[n].breaker \in B \cup {None}
      PROVE  Within(nodeBreakers', load'.clone, req', settle', B)
  BY <1>0, <1>5, Zenon DEF HeapInv, Within
<1>6. ASSUME UNCHANGED <<nodeBreakers, breaker, settle>>, healthy' \in [Node -> BOOLEAN] PROVE IInv'
  BY <1>1, <1>2, <1>4, <1>5, <1>6, <1>0, Untouched, Zenon
<1>7. ASSUME NEW n \in Node, NEW s \in SettleType, s.breaker \in DOMAIN breaker \cup {None},
             settle' = [settle EXCEPT ![n] = s], UNCHANGED <<nodeBreakers, healthy>>
      PROVE  /\ settle' \in [Node -> SettleType]
             /\ \A m \in Node : settle'[m].breaker \in DOMAIN breaker \cup {None}
  BY <1>1, <1>2, <1>7, Zenon
<1>8. CASE ConsumeRetry \/ ConsumeRecycle
  BY <1>1, <1>6, <1>8, Zenon DEF ConsumeRetry, ConsumeRecycle, retry, world
<1>9. ASSUME NEW n \in Node, ConnectNode(n) PROVE IInv'
  <2>1. UNCHANGED <<nodeBreakers, breaker, healthy>>
    BY <1>9, Zenon DEF ConnectNode
  <2>2. CASE UNCHANGED settle
    BY <1>1, <1>6, <2>1, <2>2, Zenon
  <2>3. CASE settle' = [settle EXCEPT ![n].pc = "recover"]
    <3> DEFINE s == [settle[n] EXCEPT !.pc = "recover"]
    <3>1. s \in SettleType /\ s.breaker = settle[n].breaker
      BY <1>1, Zenon
    <3>2. settle' = [settle EXCEPT ![n] = s]
      BY <2>3, Zenon
    <3> HIDE DEF s
    <3>3. /\ settle' \in [Node -> SettleType]
          /\ \A m \in Node : settle'[m].breaker \in DOMAIN breaker \cup {None}
      BY <1>2, <1>7, <2>1, <3>1, <3>2, Zenon
    <3>4. Tended
      BY <1>0, <1>2, <1>5, <2>1, <3>3, Untouched, Zenon
    <3> QED
      BY <1>1, <1>4, <2>1, <3>3, <3>4, Zenon
  <2> QED
    BY <1>9, <2>2, <2>3, Zenon DEF ConnectNode
<1>10. ASSUME NEW n \in Node, RecoverConnected(n) PROVE IInv'
  <2>1. UNCHANGED <<nodeBreakers, breaker, healthy>>
    BY <1>10, Zenon DEF RecoverConnected, world
  <2> DEFINE s == IF n \in DOMAIN nodeBreakers
                  THEN [pc |-> "complete", breaker |-> nodeBreakers[n]] ELSE NotSettling
  <2>2. s \in SettleType /\ s.breaker \in DOMAIN breaker \cup {None}
    BY <1>2, <1>3, Zenon DEF NotSettling
  <2>3. settle' = [settle EXCEPT ![n] = s]
    BY <1>10, Zenon DEF RecoverConnected
  <2> HIDE DEF s
  <2>4. /\ settle' \in [Node -> SettleType]
        /\ \A m \in Node : settle'[m].breaker \in DOMAIN breaker \cup {None}
    BY <1>7, <2>1, <2>2, <2>3, Zenon
  <2>5. Tended
    BY <1>0, <1>2, <1>5, <2>1, <2>4, Untouched, Zenon
  <2> QED
    BY <1>1, <1>4, <2>1, <2>4, <2>5, Zenon
<1>11. ASSUME NEW n \in Node, CompleteConnected(n) PROVE IInv'
  <2> DEFINE h == Completed(settle[n].breaker, FALSE)
  <2>1. KeepsRules(h)
    BY <1>0, KeepsCompleted, Zenon
  <2>2. Heap(h) /\ settle' = [settle EXCEPT ![n] = NotSettling] /\ UNCHANGED <<nodeBreakers, healthy>>
    BY <1>11, Zenon DEF CompleteConnected, world
  <2> HIDE DEF h
  <2>3. NotSettling \in SettleType /\ NotSettling.breaker \in DOMAIN breaker \cup {None}
    BY Zenon DEF NotSettling
  <2>4. /\ settle' \in [Node -> SettleType]
        /\ \A m \in Node : settle'[m].breaker \in DOMAIN breaker \cup {None}
    BY <1>7, <2>2, <2>3, Zenon
  <2>5. DOMAIN breaker \subseteq DOMAIN h
    BY <2>1, Zenon DEF KeepsRules
  <2>6. Within(nodeBreakers', load'.clone, req', settle', DOMAIN h)
    BY <1>2, <1>5, <2>2, <2>4, <2>5, Zenon
  <2>7. Tended
    BY <1>0, <2>1, <2>2, <2>6, Collected, Zenon
  <2> QED
    BY <1>1, <1>4, <2>2, <2>4, <2>7, Zenon
<1>12. ASSUME NEW n \in Node, Recycle(n) PROVE IInv'
  <2>1. Heap(breaker) /\ UNCHANGED <<settle, healthy>>
    BY <1>12, Zenon DEF Recycle, retry, world
  <2>2. \/ UNCHANGED nodeBreakers
        \/ nodeBreakers' = [m \in DOMAIN nodeBreakers \ {n} |-> nodeBreakers[m]]
    BY <1>12, Zenon DEF Recycle, Restrict
  <2>3. \A m \in DOMAIN nodeBreakers' : m \in DOMAIN nodeBreakers /\ nodeBreakers'[m] = nodeBreakers[m]
    BY <2>2, Zenon
  <2>4. nodeBreakers' \in Copies
    <3>1. /\ DOMAIN nodeBreakers \ {n} \in SUBSET Node
          /\ \A m \in DOMAIN nodeBreakers : nodeBreakers[m] \in Id
      BY <1>1, CopyType, Zenon
    <3>2. CASE nodeBreakers' = [m \in DOMAIN nodeBreakers \ {n} |-> nodeBreakers[m]]
      <4>1. nodeBreakers' \in [DOMAIN nodeBreakers \ {n} -> Id]
        BY <3>1, <3>2, Zenon
      <4> QED
        BY <3>1, <4>1, CopyType, Zenon
    <3> QED
      BY <1>1, <2>2, <3>2, Zenon
  <2>5. Within(nodeBreakers', load'.clone, req', settle', DOMAIN breaker)
    BY <1>2, <1>5, <2>1, <2>3, Zenon
  <2>6. Tended
    BY <1>0, <2>1, <2>5, KeepsSame, Collected, Zenon
  <2> QED
    BY <1>1, <1>4, <2>1, <2>3, <2>4, <2>6, Zenon
<1>13. ASSUME NEW n \in Node, Flip(n) PROVE IInv'
  <2>1. UNCHANGED <<nodeBreakers, breaker, settle>>
    BY <1>13, Zenon DEF Flip, retry
  <2>2. healthy' \in [Node -> BOOLEAN]
    BY <1>1, <1>13, SMT DEF Flip
  <2> QED
    BY <1>6, <2>1, <2>2, Zenon
<1>14. ASSUME NEW i \in DOMAIN breaker, RetryTimeout(i) PROVE IInv'
  <2>0. breaker \in [DOMAIN breaker -> BreakerType]
    BY <1>0, Zenon DEF TypeOK
  <2> DEFINE b == [breaker[i] EXCEPT !.due = TRUE]
  <2>1. b \in BreakerType /\ b.rule = breaker[i].rule
    BY <2>0, Zenon DEF BreakerType
  <2>2. breaker' = [breaker EXCEPT ![i] = b] /\ UNCHANGED <<nodeBreakers, settle, healthy>>
    BY <1>14, Zenon DEF RetryTimeout, retry, world
  <2> HIDE DEF b
  <2>3. /\ DOMAIN breaker' = DOMAIN breaker /\ breaker' \in [DOMAIN breaker -> BreakerType]
        /\ \A j \in DOMAIN breaker : breaker'[j].rule = breaker[j].rule
    BY <2>0, <2>1, <2>2, Zenon
  <2>4. Within(nodeBreakers', load'.clone, req', settle', DOMAIN breaker)
    BY <1>2, <1>5, <2>2, Zenon
  <2>5. Tended
    BY <1>3, <2>3, <2>4, Zenon DEF Tended, HeapInv
  <2> QED
    BY <1>1, <1>4, <2>2, <2>5, Zenon
<1> QED
  BY <1>8, <1>9, <1>10, <1>11, <1>12, <1>13, <1>14, Zenon DEF RetryerStep

\* The swap renews the breakers of the clone that have another rule.
LEMMA RebuiltFollows ==
    ASSUME TypeOK, HeapInv, NEW r \in RuleSet, r # None, Room(Renewed(r)), Rebuilt(r), rule' = r,
           UNCHANGED <<req, settle>>
    PROVE  Tended /\ nodeBreakers' \in Copies /\ BreakersFollowRule'
<1> DEFINE S == Renewed(r)
           f == Fresh(S)
           h == Made(f, r)
           c == load.clone
<1>1. c \in Copies
  BY Zenon DEF TypeOK
<1>2. S \subseteq DOMAIN c /\ DOMAIN c \in SUBSET Node /\ \A n \in DOMAIN c : c[n] \in Id
  BY <1>1, CopyType, Zenon DEF Renewed
<1>3. IsFiniteSet(S)
  BY <1>2, OutlierAssumption, FS_Subset, Zenon
<1>4. f \in [S -> Id \ DOMAIN breaker]
  BY <1>3, FreshType, Zenon
<1>5. \A n \in DOMAIN c : c[n] \in DOMAIN breaker /\ (n \notin S => breaker[c[n]].rule = r.breaker)
  BY Zenon DEF HeapInv, Within, Renewed
<1>6. Heap(h) /\ nodeBreakers' = Overlay(f, c) /\ load' = NoLoad
  BY Zenon DEF Rebuilt
<1> HIDE DEF f, S, c
<1>7. KeepsRules(h) /\ \A n \in S : f[n] \in DOMAIN h /\ h[f[n]].rule = r.breaker
  BY <1>4, KeepsMade, ZenonT(40)
<1> HIDE DEF h
<1>8. /\ DOMAIN breaker \subseteq DOMAIN h /\ DOMAIN h \subseteq Id
      /\ \A i \in DOMAIN breaker : h[i].rule = breaker[i].rule
  BY <1>7, Zenon DEF KeepsRules
<1>9. nodeBreakers' = [n \in DOMAIN c |-> IF n \in S THEN f[n] ELSE c[n]]
  <2>1. DOMAIN f = S /\ S \cup DOMAIN c = DOMAIN c
    BY <1>2, <1>4, Zenon
  <2> QED
    BY <1>6, <2>1, Zenon DEF Overlay
<1>10. \A n \in DOMAIN c : /\ nodeBreakers'[n] \in DOMAIN h
                           /\ h[nodeBreakers'[n]].rule = r.breaker
  BY <1>5, <1>7, <1>8, <1>9, Zenon
<1>11. DOMAIN nodeBreakers' = DOMAIN c
  BY <1>9, Zenon
<1>12. nodeBreakers' \in Copies
  <2>1. nodeBreakers' \in [DOMAIN c -> Id]
    BY <1>8, <1>9, <1>10, Zenon
  <2> QED
    BY <1>2, <2>1, CopyType, Zenon
<1>13. Within(nodeBreakers', load'.clone, req', settle', DOMAIN h)
  <2>1. load'.clone = Empty
    BY <1>6, Zenon DEF NoLoad
  <2> QED
    BY <1>8, <1>10, <1>11, <2>1, CopyType, Zenon DEF HeapInv, Within
<1>14. Tended /\ \A i \in DOMAIN breaker' : breaker'[i] = h[i]
  BY <1>6, <1>7, <1>13, Collected, Zenon
<1>15. \A n \in DOMAIN nodeBreakers' : nodeBreakers'[n] \in DOMAIN breaker'
  BY <1>14, Zenon DEF Tended, HeapInv, Within
<1>16. BreakersFollowRule'
  BY <1>10, <1>11, <1>14, <1>15, Zenon DEF BreakersFollowRule
<1> QED
  BY <1>12, <1>14, <1>16, Zenon

LEMMA LoadNext ==
    ASSUME IInv, UNCHANGED <<req, settle, registry, clients, retries, healthy, stale>>,
           (\E r \in Rules \cup {None} : LoadRules(r) \/ LoadRuleOfResource(r)) \/ LoadStep
    PROVE  IInv'
<1>0. TypeOK /\ BlameInv /\ HeapInv /\ BreakersFollowRule
  BY Zenon DEF IInv
<1>1. /\ nodeBreakers \in Copies /\ rule \in RuleSet \cup {None} /\ cleared \in BOOLEAN
      /\ load \in [pc : {"idle", "clone", "swap"}, rule : Rules \cup {None}, clone : Copies]
  BY <1>0, Zenon DEF TypeOK
<1>2. /\ \A n \in DOMAIN nodeBreakers : nodeBreakers[n] \in DOMAIN breaker
      /\ \A n \in DOMAIN load.clone : load.clone[n] \in DOMAIN breaker
  BY <1>0, Zenon DEF HeapInv, Within
<1> DEFINE LoadType == [pc : {"idle", "clone", "swap"}, rule : Rules \cup {None}, clone : Copies]
<1>3. ASSUME Tended, nodeBreakers' \in Copies, load' \in LoadType, rule' \in RuleSet \cup {None},
             cleared' \in BOOLEAN, BreakersFollowRule', cleared => cleared',
             rule' = None /\ ~cleared' => rule = None /\ ~cleared,
             DOMAIN nodeBreakers' \subseteq DOMAIN nodeBreakers \/ rule' # None
      PROVE  IInv'
  <2>1. TypeOK'
    BY <1>0, <1>3, Zenon DEF TypeOK, Tended
  <2>2. BlameInv'
    BY <1>0, <1>3, BlameKept, Zenon
  <2> QED
    BY <1>3, <2>1, <2>2, Zenon DEF IInv, Tended
<1>4. ASSUME \A n \in DOMAIN nodeBreakers' : nodeBreakers'[n] \in DOMAIN breaker,
             \A n \in DOMAIN load'.clone : load'.clone[n] \in DOMAIN breaker
      PROVE  Within(nodeBreakers', load'.clone, req', settle', DOMAIN breaker)
  BY <1>0, <1>4, Zenon DEF HeapInv, Within
<1>5. NoLoad \in LoadType /\ NoLoad.clone = Empty /\ NoLoad.pc = "idle"
  BY CopyType, Zenon DEF NoLoad
\* While a load is under way nothing is promised.
<1>6. ASSUME NEW l \in LoadType, load' = l, l.pc # "idle", UNCHANGED <<nodeBreakers, breaker>>,
             l.clone \in {Empty, nodeBreakers}
      PROVE  Tended /\ BreakersFollowRule'
  <2>1. Within(nodeBreakers', load'.clone, req', settle', DOMAIN breaker)
    BY <1>2, <1>4, <1>6, CopyType, Zenon
  <2> QED
    BY <1>0, <1>6, <2>1, Untouched, Zenon DEF BreakersFollowRule
\* Without a rule there are no breakers.
<1>7. ASSUME nodeBreakers' = Empty, Heap(breaker), load' = load \/ load' = NoLoad
      PROVE  Tended /\ BreakersFollowRule'
  <2>1. Within(nodeBreakers', load'.clone, req', settle', DOMAIN breaker)
    BY <1>2, <1>4, <1>5, <1>7, CopyType, Zenon
  <2>2. Tended
    BY <1>0, <1>7, <2>1, KeepsSame, Collected, Zenon
  <2>3. BreakersFollowRule'
    BY <1>7, CopyType, Zenon DEF BreakersFollowRule
  <2> QED
    BY <2>2, <2>3, Zenon
<1>8. ASSUME NEW r \in Rules \cup {None}, LoadRules(r) PROVE IInv'
  <2> DEFINE l == [NoLoad EXCEPT !.pc = "clone"]
  <2>1. l \in LoadType /\ l.pc = "clone" /\ l.clone = Empty
    BY CopyType, Zenon DEF NoLoad
  <2>2. /\ load' = l /\ UNCHANGED <<nodeBreakers, breaker>>
        /\ rule' = ValidOrNone(r) /\ cleared' = (cleared \/ ValidOrNone(r) = None)
    BY <1>8, Zenon DEF LoadRules
  <2> HIDE DEF l
  <2>3. ValidOrNone(r) \in RuleSet \cup {None}
    BY Zenon DEF ValidOrNone, RuleSet
  <2>4. Tended /\ BreakersFollowRule'
    BY <1>6, <2>1, <2>2, Zenon
  <2>5. /\ cleared' \in BOOLEAN /\ cleared => cleared'
        /\ rule' = None => cleared'
    BY <2>2, Zenon
  <2> QED
    BY <1>1, <1>3, <2>1, <2>2, <2>3, <2>4, <2>5, ZenonT(40)
<1>9. ASSUME NEW r \in Rules \cup {None}, LoadRuleOfResource(r) PROVE IInv'
  <2>1. CASE r = None
    <3>1. /\ nodeBreakers' = Empty /\ Heap(breaker) /\ load' = load
          /\ rule' = None /\ cleared' = TRUE
      BY <1>9, <2>1, Zenon DEF LoadRuleOfResource
    <3>2. Tended /\ BreakersFollowRule'
      BY <1>7, <3>1, Zenon
    <3> QED
      BY <1>1, <1>3, <3>1, <3>2, CopyType, Zenon
  <2>2. CASE r # None
    <3> DEFINE l == [NoLoad EXCEPT !.pc = "clone", !.rule = r]
    <3>1. l \in LoadType /\ l.pc = "clone" /\ l.clone = Empty
      BY CopyType, Zenon DEF NoLoad
    <3>2. load' = l /\ UNCHANGED <<rule, cleared, nodeBreakers, breaker>>
      BY <1>9, <2>2, Zenon DEF LoadRuleOfResource
    <3> HIDE DEF l
    <3>3. Tended /\ BreakersFollowRule'
      BY <1>6, <3>1, <3>2, Zenon
    <3> QED
      BY <1>1, <1>3, <3>1, <3>2, <3>3, Zenon
  <2> QED
    BY <2>1, <2>2, Zenon
<1>10. CASE CloneBreakers
  <2> DEFINE l == [load EXCEPT !.pc = "swap", !.clone = nodeBreakers]
  <2>1. l \in LoadType /\ l.pc = "swap" /\ l.clone = nodeBreakers
    BY <1>1, Zenon
  <2>2. load' = l /\ UNCHANGED <<rule, cleared, nodeBreakers, breaker>>
    BY <1>10, Zenon DEF CloneBreakers
  <2> HIDE DEF l
  <2>3. Tended /\ BreakersFollowRule'
    BY <1>6, <2>1, <2>2, Zenon
  <2> QED
    BY <1>1, <1>3, <2>1, <2>2, <2>3, Zenon
<1>11. CASE SwapBreakers
  <2>0. UNCHANGED cleared
    BY <1>11, Zenon DEF SwapBreakers
  <2>1. CASE \E r \in RuleSet : r # None /\ Room(Renewed(r)) /\ Rebuilt(r) /\ rule' = r
    <3>1. Tended /\ nodeBreakers' \in Copies /\ BreakersFollowRule'
      BY <1>0, <2>1, RebuiltFollows, Zenon
    <3>2. load' = NoLoad /\ rule' \in RuleSet /\ rule' # None
      BY <2>1, Zenon DEF Rebuilt
    <3> QED
      BY <1>1, <1>3, <1>5, <2>0, <3>1, <3>2, Zenon
  <2>2. CASE rule = None /\ rule' = None /\ nodeBreakers' = Empty /\ load' = NoLoad /\ Heap(breaker)
    <3>1. Tended /\ BreakersFollowRule'
      BY <1>7, <2>2, Zenon
    <3> QED
      BY <1>1, <1>3, <1>5, <2>0, <2>2, <3>1, CopyType, Zenon
  <2>3. load.rule # None => load.rule \in RuleSet
    BY <1>1, Zenon DEF RuleSet
  <2> QED
    BY <1>1, <1>11, <2>1, <2>2, <2>3, Zenon DEF SwapBreakers
<1> QED
  BY <1>8, <1>9, <1>10, <1>11, Zenon DEF LoadStep

LEMMA IInvNext == IInv /\ [Next]_vars => IInv'
<1> SUFFICES ASSUME IInv, [Next]_vars PROVE IInv'
  OBVIOUS
<1>1. CASE UNCHANGED vars
  BY <1>1, Zenon DEF vars, rules, retry, world, IInv, TypeOK, BlameInv, Honest, HeapInv, BreakersFollowRule
<1>2. ASSUME NEW r \in clients, RequestStep(r) PROVE IInv'
  BY <1>2, RequestNext, Zenon
<1>3. ASSUME \/ ConsumeRetry \/ ConsumeRecycle
             \/ \E n \in Node : RetryerStep(n) \/ Recycle(n) \/ Flip(n)
             \/ \E i \in DOMAIN breaker : RetryTimeout(i)
      PROVE  IInv'
  <2>1. UNCHANGED <<rule, load, cleared, stale, req, registry, clients, retries>>
    BY <1>3, Zenon DEF ConsumeRetry, ConsumeRecycle, RetryerStep, ConnectNode, RecoverConnected,
       CompleteConnected, Recycle, Flip, RetryTimeout, rules, world
  <2> QED
    BY <1>3, <2>1, BackgroundNext, Zenon
<1>4. ASSUME (\E r \in Rules \cup {None} : LoadRules(r) \/ LoadRuleOfResource(r)) \/ LoadStep
      PROVE  IInv'
  <2>1. UNCHANGED <<req, settle, registry, clients, retries, healthy, stale>>
    BY <1>4, Zenon DEF LoadRules, LoadRuleOfResource, LoadStep, CloneBreakers, SwapBreakers, retry, world
  <2> QED
    BY <1>4, <2>1, LoadNext, Zenon
<1> QED
  BY <1>1, <1>2, <1>3, <1>4, Zenon DEF Next

\* A breaker hears of an error only when the node it guards has failed this request,
\* with a client that does not retry and a rule that was never cleared: no mix of
\* requests, probes, recycled nodes and loads charges another node.
THEOREM ErrorsHitTheirNode == Spec => []RightNodeBlamed
<1>1. IInv => RightNodeBlamed
  BY Zenon DEF IInv, BlameInv, Honest, RightNodeBlamed
<1> QED
  BY <1>1, IInvInit, IInvNext, PTL DEF Spec

\* Between loads the breakers in force were built for the rule in force, and without
\* a rule there are none, unless a completion stored one that it had built before.
THEOREM BreakersMatchRule == Spec => []BreakersFollowRule
<1>1. IInv => BreakersFollowRule
  BY Zenon DEF IInv
<1> QED
  BY <1>1, IInvInit, IInvNext, PTL DEF Spec

=============================================================================
