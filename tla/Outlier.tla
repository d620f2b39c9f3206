------------------------------ MODULE Outlier ------------------------------
(***************************************************************************)
(* Outlier ejection for one resource: every node of a service has a        *)
(* circuit breaker, nodes whose breaker refuses are left out by the        *)
(* client's load balancer, and are brought back by a probing request, by   *)
(* the Retryer or by the Recycler.                                         *)
(*                                                                         *)
(* A critical section, a call of a breaker and a firing timer are one step *)
(* each (CircuitBreaker models the inside of a breaker).  Time is left     *)
(* out: timers fire and timeouts pass at any time, so every length of an   *)
(* interval is covered.  One bad result trips a breaker, as with an error  *)
(* count of one.                                                           *)
(***************************************************************************)
EXTENDS Naturals, Sequences, FiniteSets, Functions, FiniteSetsExt

CONSTANTS
    Node,           \* addresses
    Request,        \* goroutines of the client, each sending requests for ever
    Rules,          \* rules that are loaded: [active, percent, breaker, valid]
    None,           \* no rule, no breaker, no retryer
    Capacity,       \* of the two channels; 200 in the code
    MaxBreakers,    \* bound: breakers in use at once
    Start           \* where behaviours start and how far they go: [rule, registry, up, clients,
                    \* retries, loads, flips]

ASSUME OutlierAssumption ==
    /\ IsFiniteSet(Node) /\ MaxBreakers \in Nat /\ None \notin 1 .. MaxBreakers
    /\ \A s \in Start : /\ s.registry \subseteq Node /\ s.clients \subseteq Request
                        /\ s.retries \in BOOLEAN

VARIABLES
    rule,           \* outlierRules and breakerRules of the resource
    currentRule,    \* currentRules: what was loaded last
    nodeBreakers,   \* address -> breaker
    breaker,        \* breaker -> its state; due: its retry timeout has arrived
    req,            \* the requests
    retryer,        \* the Retryer of the resource, made once
    retryerCh, recyclerCh,
    counts,         \* nodes in Retryer.counts
    retryTimers,    \* node -> timers that will call connectNode
    settle,         \* node -> where onConnected is, after giving up the lock
    status,         \* Recycler.status: "none", "lost" or "recovered"
    recycleTimers,  \* node -> timers that will call recycle
    load,           \* the goroutine that holds updateRuleMux
    registry,       \* the nodes that the service discovery gives the client
    clients,        \* the requests that are sent
    retries,        \* whether the client tries another node after a failure, as go-micro's does
    healthy,        \* whether a node answers
    loads, flips,   \* bounds: loads of rules and changes of health still to come
    crashed,        \* an unrecovered panic has ended the process
    cleared,        \* history: the rule was taken away once
    stale        \* history: a breaker was stored that was built for a rule gone

rules == <<rule, currentRule, load, loads, cleared>>
retry == <<retryer, counts, retryTimers, settle>>
recycle == <<status, recycleTimers>>
channels == <<retryerCh, recyclerCh>>
world == <<registry, clients, retries, flips, healthy, crashed>>
vars == <<rules, nodeBreakers, breaker, req, retry, recycle, channels, world, stale>>

Id == 1 .. MaxBreakers

Empty == [n \in {} |-> None]

\* The entries of f, and those of g for what f lacks.
Overlay(f, g) == [x \in DOMAIN f \cup DOMAIN g |-> IF x \in DOMAIN f THEN f[x] ELSE g[x]]

New(r) == [state |-> "Closed", due |-> FALSE, rule |-> r.breaker]

NoLists == [filters |-> {}, halfs |-> {}]

Idle == [pc |-> "idle", copy |-> Empty, outliers |-> {}, lists |-> NoLists, node |-> None,
         err |-> FALSE, failed |-> FALSE, retried |-> FALSE, breaker |-> None]

NotSettling == [pc |-> "none", breaker |-> None]

NoLoad == [pc |-> "idle", rule |-> None, clone |-> Empty]

Init ==
    /\ \E s \in Start :
          /\ rule = s.rule /\ currentRule = s.rule
          /\ registry = s.registry /\ clients = s.clients /\ retries = s.retries
          /\ loads = s.loads /\ flips = s.flips
          /\ healthy = [n \in Node |-> n \in s.up]
    /\ nodeBreakers = Empty /\ breaker = [i \in {} |-> None]
    /\ req = [r \in Request |-> Idle]
    /\ retryer = None /\ counts = {}
    /\ retryTimers = [n \in Node |-> 0] /\ recycleTimers = [n \in Node |-> 0]
    /\ settle = [n \in Node |-> NotSettling]
    /\ status = [n \in Node |-> "none"]
    /\ retryerCh = <<>> /\ recyclerCh = <<>>
    /\ load = NoLoad /\ cleared = FALSE
    /\ crashed = FALSE /\ stale = FALSE

-----------------------------------------------------------------------------
(* The breakers that something still refers to; the others are garbage.     *)

Referenced ==
    (Range(nodeBreakers) \cup Range(load.clone) \cup {settle[n].breaker : n \in Node}
        \cup UNION {Range(req[r].copy) \cup {req[r].breaker} : r \in Request}) \cap Id

\* The last conjunct of an action: the breakers it leaves.
Heap(h) == breaker' = Restrict(h, Referenced')

\* New breakers for the nodes of S.
Fresh(S) == CHOOSE f \in [S -> Id \ DOMAIN breaker] : IsInjective(f)
Room(S) == Cardinality(S) <= Cardinality(Id \ DOMAIN breaker)
Made(f, r) == Overlay([i \in Range(f) |-> New(r)], breaker)

\* TryPass: the breakers of B after it, and the ones that refuse.  The probe number
\* is zero, so a half-open breaker refuses.
Tried(B) ==
    [i \in DOMAIN breaker |->
        IF i \in B /\ breaker[i].state = "Open" /\ breaker[i].due
        THEN [breaker[i] EXCEPT !.state = "HalfOpen", !.due = FALSE] ELSE breaker[i]]
Refuses(i) == breaker[i].state = "HalfOpen" \/ (breaker[i].state = "Open" /\ ~breaker[i].due)

\* A successful probe does not close the breaker.
CompletedMutant(i, err) ==
    [breaker EXCEPT ![i] =
        IF @.state # "Open" /\ err THEN [@ EXCEPT !.state = "Open", !.due = FALSE] ELSE @]

\* OnRequestComplete.
Completed(i, err) ==
    [breaker EXCEPT ![i] =
        CASE @.state = "HalfOpen" /\ ~err -> [@ EXCEPT !.state = "Closed"]
          [] @.state # "Open" /\ err      -> [@ EXCEPT !.state = "Open", !.due = FALSE]
          [] OTHER                        -> @]

RetryTimeout(i) ==
    /\ breaker[i].state = "Open" /\ ~breaker[i].due
    /\ breaker' = [breaker EXCEPT ![i].due = TRUE]
    /\ UNCHANGED <<rules, nodeBreakers, req, retry, recycle, channels, world, stale>>

-----------------------------------------------------------------------------
(* A request: Check, the call of a node that the lists allow, OnCompleted.  *)

Goto(r, pc) == req' = [req EXCEPT ![r].pc = pc]

\* ResetToPass keeps the lists of nodes: the next request finds them in the pooled
\* context.  They are read only if its Check panics, for which the rule must go.
Left(r) == IF rule # None /\ loads = 0 /\ load.pc = "idle" THEN NoLists ELSE req[r].lists

Over(r) == req' = [req EXCEPT ![r] = [Idle EXCEPT !.lists = Left(r)]]

\* A panic in Check is recovered by the slot chain; the entry passes, with an error.
\* The context may also be a new one.
Panic(r) ==
    \E lists \in {req[r].lists, NoLists} :
        req' = [req EXCEPT ![r] = [Idle EXCEPT !.pc = "call", !.lists = lists, !.err = TRUE]]

GetNodeBreakers(r) ==
    /\ req[r].pc = "idle"
    /\ req' = [req EXCEPT ![r].pc = "check", ![r].copy = nodeBreakers]
    /\ UNCHANGED <<rules, nodeBreakers, breaker, retry, recycle, channels, world, stale>>

\* The breakers are tried in the order of a map; the first refusing nodes are
\* filtered, up to the share of the nodes that the rule allows.
CheckAllNodes(r) ==
    LET copy     == req[r].copy
        all      == DOMAIN copy
        outliers == {n \in all : Refuses(copy[n])}
        probed   == {n \in all \ outliers : breaker[copy[n]].state = "Open"}
        limit    == (Cardinality(all) * rule.percent) \div 100
    IN  /\ req[r].pc = "check"
        /\ UNCHANGED <<rules, nodeBreakers, retry, recycle, channels, world, stale>>
        /\ \/ /\ rule = None => all = {}
              /\ \E filters \in SUBSET outliers :
                    /\ outliers # {} => Cardinality(filters) = Min({limit, Cardinality(outliers)})
                    /\ req' = [req EXCEPT ![r] = [@ EXCEPT
                            !.pc = IF outliers = {} THEN "call" ELSE "offerRetry", !.copy = Empty,
                            !.outliers = outliers,
                            !.lists = [filters |-> filters,
                                       halfs |-> IF all = {} \/ rule.active THEN {} ELSE probed]]]
              /\ Heap(Tried(Range(copy)))
           \/ /\ rule = None
              /\ \E n \in all :
                    /\ Panic(r)
                    /\ Heap(Tried({copy[n]}))

OfferRetry(r) ==
    /\ req[r].pc = "offerRetry"
    /\ \/ rule = None /\ Panic(r)
       \/ /\ rule # None
          /\ Goto(r, IF rule.active /\ Len(retryerCh) < Capacity THEN "sendRetry" ELSE "offerRecycle")
    /\ UNCHANGED <<rules, nodeBreakers, breaker, retry, recycle, channels, world, stale>>

SendRetry(r) ==
    /\ req[r].pc = "sendRetry" /\ Len(retryerCh) < Capacity
    /\ retryerCh' = Append(retryerCh, req[r].outliers)
    /\ Goto(r, "offerRecycle")
    /\ UNCHANGED <<rules, nodeBreakers, breaker, retry, recycle, recyclerCh, world, stale>>

OfferRecycle(r) ==
    /\ req[r].pc = "offerRecycle"
    /\ \/ /\ Len(recyclerCh) < Capacity
          /\ Goto(r, "sendRecycle")
       \/ /\ Len(recyclerCh) >= Capacity
          /\ req' = [req EXCEPT ![r].pc = "call", ![r].outliers = {}]
    /\ UNCHANGED <<rules, nodeBreakers, breaker, retry, recycle, channels, world, stale>>

SendRecycle(r) ==
    /\ req[r].pc = "sendRecycle" /\ Len(recyclerCh) < Capacity
    /\ recyclerCh' = Append(recyclerCh, req[r].outliers)
    /\ req' = [req EXCEPT ![r].pc = "call", ![r].outliers = {}]
    /\ UNCHANGED <<rules, nodeBreakers, breaker, retry, recycle, retryerCh, world, stale>>

GetRemainingNodes(nodes, filters, flag) == {n \in nodes : (n \in filters) = flag}

\* Only the half-open nodes if there are any, else all but the filtered ones.
OutlierClientFilter(r) ==
    LET l == req[r].lists
    IN  IF l.halfs # {} THEN GetRemainingNodes(registry, l.halfs, TRUE)
        ELSE GetRemainingNodes(registry, l.filters, FALSE)

\* Without a node left there is no address, and OnCompleted does nothing.
Call(r) ==
    /\ req[r].pc = "call"
    /\ \/ OutlierClientFilter(r) = {} /\ Over(r)
       \/ \E n \in OutlierClientFilter(r) :
             req' = [req EXCEPT ![r].pc = "onCompleted", ![r].node = n,
                                ![r].failed = ~healthy[n], ![r].err = @ \/ ~healthy[n]]
    /\ UNCHANGED <<rules, nodeBreakers, breaker, retry, recycle, channels, world, stale>>

\* The wrapper of the call runs for every attempt: the last node is the one that is
\* traced, and the error of an earlier attempt stays.  One retry, the library's default.
RetryCall(r) ==
    /\ req[r].pc = "onCompleted" /\ retries /\ req[r].failed /\ ~req[r].retried
    /\ \E n \in OutlierClientFilter(r) :
          req' = [req EXCEPT ![r].node = n, ![r].failed = ~healthy[n], ![r].retried = TRUE]
    /\ UNCHANGED <<rules, nodeBreakers, breaker, retry, recycle, channels, world, stale>>

\* A completion for a node without a breaker builds one, outside the lock.  Without
\* a rule that is a panic, which Exit recovers.
OnCompleted(r) ==
    LET n == req[r].node IN
    /\ req[r].pc = "onCompleted"
    /\ UNCHANGED <<rules, nodeBreakers, retry, recycle, channels, world, stale>>
    /\ \/ /\ n \in DOMAIN nodeBreakers
          /\ req' = [req EXCEPT ![r].pc = "complete", ![r].breaker = nodeBreakers[n],
                                ![r].lists = Left(r)]
          /\ Heap(breaker)
       \/ /\ n \notin DOMAIN nodeBreakers /\ rule = None
          /\ Over(r)
          /\ Heap(breaker)
       \/ /\ n \notin DOMAIN nodeBreakers /\ rule # None /\ Room({n})
          /\ LET f == Fresh({n})
             IN  /\ req' = [req EXCEPT ![r].pc = "add", ![r].breaker = f[n],
                                       ![r].lists = Left(r)]
                 /\ Heap(Made(f, rule))

AddNodeBreaker(r) ==
    /\ req[r].pc = "add"
    /\ nodeBreakers' = Overlay([n \in {req[r].node} |-> req[r].breaker], nodeBreakers)
    /\ req' = [req EXCEPT ![r].pc = "getAdded", ![r].breaker = None]
    /\ stale' = (stale \/ rule = None \/ breaker[req[r].breaker].rule # rule.breaker)
    /\ UNCHANGED <<rules, retry, recycle, channels, world>>
    /\ Heap(breaker)

\* The breaker just added may be gone again: a nil breaker, and a panic.
GetAdded(r) ==
    LET n == req[r].node IN
    /\ req[r].pc = "getAdded"
    /\ \/ /\ n \in DOMAIN nodeBreakers
          /\ req' = [req EXCEPT ![r].pc = "complete", ![r].breaker = nodeBreakers[n]]
       \/ n \notin DOMAIN nodeBreakers /\ Over(r)
    /\ UNCHANGED <<rules, nodeBreakers, breaker, retry, recycle, channels, world, stale>>

\* The context of the request is used again with its error.
OnRequestCompleteMutant(r) ==
    /\ req[r].pc = "complete"
    /\ req' = [req EXCEPT ![r] = [Idle EXCEPT !.err = req[r].err]]
    /\ UNCHANGED <<rules, nodeBreakers, retry, recycle, channels, world, stale>>
    /\ Heap(Completed(req[r].breaker, req[r].err))

OnRequestComplete(r) ==
    /\ req[r].pc = "complete"
    /\ \/ req[r].err /\ Over(r)
       \/ /\ ~req[r].err
          /\ req' = [req EXCEPT ![r] = [Idle EXCEPT !.pc = "recover", !.node = req[r].node,
                                                   !.lists = Left(r)]]
    /\ UNCHANGED <<rules, nodeBreakers, retry, recycle, channels, world, stale>>
    /\ Heap(Completed(req[r].breaker, req[r].err))

\* Recycler.recover
Recover(n) == status' = [status EXCEPT ![n] = IF @ = "none" THEN @ ELSE "recovered"]

RecoverNode(r) ==
    /\ req[r].pc = "recover"
    /\ Recover(req[r].node)
    /\ Over(r)
    /\ UNCHANGED <<rules, nodeBreakers, breaker, retry, recycleTimers, channels, world, stale>>

-----------------------------------------------------------------------------
(* The Retryer probes nodes while the rule asks for active recovery.        *)

Scheduled(timers, S) == [n \in Node |-> timers[n] + IF n \in S THEN 1 ELSE 0]

\* getRetryerOfResource keeps what the first rule says, or no check without one.
GetRetryer == IF retryer = None THEN [checkFunc |-> rule # None] ELSE retryer

\* A timer is set for a node that has one.
ConsumeRetryMutant ==
    /\ retryerCh # <<>>
    /\ retryer' = GetRetryer
    /\ retryTimers' = Scheduled(retryTimers, Head(retryerCh))
    /\ counts' = counts \cup Head(retryerCh)
    /\ retryerCh' = Tail(retryerCh)
    /\ UNCHANGED <<rules, nodeBreakers, breaker, req, settle, recycle, recyclerCh,
                   world, stale>>

ConsumeRetry ==
    /\ retryerCh # <<>>
    /\ retryer' = GetRetryer
    /\ retryTimers' = Scheduled(retryTimers, Head(retryerCh) \ counts)
    /\ counts' = counts \cup Head(retryerCh)
    /\ retryerCh' = Tail(retryerCh)
    /\ UNCHANGED <<rules, nodeBreakers, breaker, req, settle, recycle, recyclerCh,
                   world, stale>>

\* connectNode with onDisconnected, which sets the next timer, or the first half of
\* onConnected.  A nil checkFunc panics in the goroutine of the timer, where nobody
\* recovers.  Bound: one connection of a node is settled at a time.
ConnectNode(n) ==
    /\ retryTimers[n] > 0 /\ settle[n].pc = "none"
    /\ \/ /\ ~retryer.checkFunc
          /\ crashed' = TRUE
          /\ UNCHANGED <<counts, retryTimers, settle>>
       \/ /\ retryer.checkFunc /\ ~healthy[n]
          /\ UNCHANGED <<counts, retryTimers, settle, crashed>>
       \/ /\ retryer.checkFunc /\ healthy[n]
          /\ retryTimers' = [retryTimers EXCEPT ![n] = @ - 1]
          /\ counts' = counts \ {n}
          /\ settle' = [settle EXCEPT ![n].pc = "recover"]
          /\ UNCHANGED crashed
    /\ UNCHANGED <<rules, nodeBreakers, breaker, req, retryer, recycle, channels,
                   registry, clients, retries, flips, healthy, stale>>

RecoverConnected(n) ==
    /\ settle[n].pc = "recover"
    /\ Recover(n)
    /\ settle' = [settle EXCEPT ![n] = IF n \in DOMAIN nodeBreakers
                                       THEN [pc |-> "complete", breaker |-> nodeBreakers[n]]
                                       ELSE NotSettling]
    /\ UNCHANGED <<rules, nodeBreakers, breaker, req, retryer, counts, retryTimers,
                   recycleTimers, channels, world, stale>>

CompleteConnected(n) ==
    /\ settle[n].pc = "complete"
    /\ settle' = [settle EXCEPT ![n] = NotSettling]
    /\ UNCHANGED <<rules, nodeBreakers, req, retryer, counts, retryTimers, recycle,
                   channels, world, stale>>
    /\ Heap(Completed(settle[n].breaker, FALSE))

-----------------------------------------------------------------------------
(* The Recycler forgets nodes that did not recover.                         *)

ConsumeRecycle ==
    LET new == {n \in Head(recyclerCh) : status[n] = "none"} IN
    /\ recyclerCh # <<>>
    /\ status' = [n \in Node |-> IF n \in new THEN "lost" ELSE status[n]]
    /\ recycleTimers' = Scheduled(recycleTimers, new)
    /\ recyclerCh' = Tail(recyclerCh)
    /\ UNCHANGED <<rules, nodeBreakers, breaker, req, retry, retryerCh, world, stale>>

Recycle(n) ==
    /\ recycleTimers[n] > 0
    /\ recycleTimers' = [recycleTimers EXCEPT ![n] = @ - 1]
    /\ status' = [status EXCEPT ![n] = "none"]
    /\ nodeBreakers' = IF status[n] = "lost" THEN Restrict(nodeBreakers, DOMAIN nodeBreakers \ {n})
                                             ELSE nodeBreakers
    /\ UNCHANGED <<rules, req, retry, channels, world, stale>>
    /\ Heap(breaker)

-----------------------------------------------------------------------------
(* Loads of rules, one at a time under updateRuleMux.                       *)

ValidOrNone(r) == IF r # None /\ r.valid THEN r ELSE None

\* The breakers of the clone, kept where their rule is the same.
Renewed(r) == {n \in DOMAIN load.clone : breaker[load.clone[n]].rule # r.breaker}

Rebuilt(r) ==
    LET f == Fresh(Renewed(r))
    IN  /\ nodeBreakers' = Overlay(f, load.clone)
        /\ load' = NoLoad
        /\ Heap(Made(f, r))

\* onRuleUpdate replaces the rules before it looks at the breakers.
LoadRules(r) ==
    /\ load.pc = "idle" /\ loads > 0 /\ r # currentRule
    /\ loads' = loads - 1
    /\ currentRule' = r
    /\ rule' = ValidOrNone(r)
    /\ cleared' = (cleared \/ ValidOrNone(r) = None)
    /\ load' = [NoLoad EXCEPT !.pc = "clone"]
    /\ UNCHANGED <<nodeBreakers, breaker, req, retry, recycle, channels, world, stale>>

\* Clearing the rule leaves its breakers.
LoadRuleOfResourceMutant(r) ==
    /\ load.pc = "idle" /\ loads > 0 /\ r = None
    /\ loads' = loads - 1
    /\ rule' = None /\ currentRule' = None /\ cleared' = TRUE
    /\ UNCHANGED <<load, nodeBreakers, breaker, req, retry, recycle, channels, world, stale>>

LoadRuleOfResource(r) ==
    /\ load.pc = "idle" /\ loads > 0
    /\ r # None => r # currentRule /\ r.valid
    /\ loads' = loads - 1
    /\ UNCHANGED <<req, retry, recycle, channels, world, stale>>
    /\ \/ /\ r = None
          /\ rule' = None /\ currentRule' = None /\ cleared' = TRUE
          /\ nodeBreakers' = Empty
          /\ UNCHANGED load
          /\ Heap(breaker)
       \/ /\ r # None
          /\ load' = [NoLoad EXCEPT !.pc = "clone", !.rule = r]
          /\ UNCHANGED <<rule, currentRule, cleared, nodeBreakers, breaker>>

CloneBreakers ==
    /\ load.pc = "clone"
    /\ load' = [load EXCEPT !.pc = "swap", !.clone = nodeBreakers]
    /\ UNCHANGED <<rule, currentRule, loads, cleared, nodeBreakers, breaker, req, retry,
                   recycle, channels, world, stale>>

\* The breakers stored or deleted since the clone are overwritten.
SwapBreakers ==
    /\ load.pc = "swap"
    /\ UNCHANGED <<loads, cleared, req, retry, recycle, channels, world, stale>>
    /\ \/ /\ load.rule # None /\ Room(Renewed(load.rule))
          /\ rule' = load.rule /\ currentRule' = load.rule
          /\ Rebuilt(load.rule)
       \/ /\ load.rule = None /\ rule # None /\ Room(Renewed(rule))
          /\ Rebuilt(rule)
          /\ UNCHANGED <<rule, currentRule>>
       \/ /\ load.rule = None /\ rule = None
          /\ nodeBreakers' = Empty /\ load' = NoLoad
          /\ Heap(breaker)
          /\ UNCHANGED <<rule, currentRule>>

-----------------------------------------------------------------------------

Flip(n) ==
    /\ n \in registry /\ flips > 0
    /\ flips' = flips - 1
    /\ healthy' = [healthy EXCEPT ![n] = ~@]
    /\ UNCHANGED <<rules, nodeBreakers, breaker, req, retry, recycle, channels,
                   registry, clients, retries, crashed, stale>>

RequestStep(r) ==
    \/ GetNodeBreakers(r) \/ CheckAllNodes(r) \/ OfferRetry(r) \/ SendRetry(r)
    \/ OfferRecycle(r) \/ SendRecycle(r) \/ Call(r) \/ RetryCall(r) \/ OnCompleted(r) \/ AddNodeBreaker(r)
    \/ GetAdded(r) \/ OnRequestComplete(r) \/ RecoverNode(r)

RetryerStep(n) ==
    ConnectNode(n) \/ RecoverConnected(n) \/ CompleteConnected(n)

LoadStep == CloneBreakers \/ SwapBreakers

Next ==
    /\ ~crashed
    /\ \/ \E r \in clients : RequestStep(r)
       \/ ConsumeRetry \/ ConsumeRecycle
       \/ \E n \in Node : RetryerStep(n) \/ Recycle(n) \/ Flip(n)
       \/ \E i \in DOMAIN breaker : RetryTimeout(i)
       \/ \E r \in Rules \cup {None} : LoadRules(r) \/ LoadRuleOfResource(r)
       \/ LoadStep

Spec == Init /\ [][Next]_vars

\* Goroutines keep running, timers fire, timeouts pass and clients keep sending.
Fairness ==
    /\ \A r \in Request : WF_vars(~crashed /\ r \in clients /\ RequestStep(r))
    /\ WF_vars(~crashed /\ ConsumeRetry) /\ WF_vars(~crashed /\ ConsumeRecycle)
    /\ \A n \in Node : WF_vars(~crashed /\ RetryerStep(n)) /\ WF_vars(~crashed /\ Recycle(n))
    /\ \A n \in Node : WF_vars(~crashed /\ n \in DOMAIN nodeBreakers /\ RetryTimeout(nodeBreakers[n]))
    /\ WF_vars(~crashed /\ LoadStep)

FairSpec == Spec /\ Fairness

-----------------------------------------------------------------------------

\* A node in the books of the Retryer or the Recycler has exactly one timer, and
\* a node outside them has none: nodes are not probed
\* twice at a time, and none is kept out of the books' next round for ever.
OneTimerEach ==
    \A n \in Node :
        /\ retryTimers[n] = IF n \in counts THEN 1 ELSE 0
        /\ recycleTimers[n] = IF status[n] = "none" THEN 0 ELSE 1

\* After a load every breaker in force was built for the rule in force, and there is
\* none without a rule, which would make every Check panic.  The exception is a
\* completion that stores a breaker it had built for the rule before.
BreakersFollowRule ==
    load.pc = "idle" /\ ~stale =>
        \A n \in DOMAIN nodeBreakers : rule # None /\ breaker[nodeBreakers[n]].rule = rule.breaker

\* A breaker hears of an error only when the node it guards has failed this request.
\* The exceptions are a client that retries, whose last node is charged with the
\* failure of another one, and a Check that panicked after the rule was cleared,
\* whose error is charged to whatever node was called.
RightNodeBlamed ==
    \A r \in Request : req[r].pc = "complete" /\ req[r].err =>
                       req[r].failed \/ (retries /\ req[r].retried) \/ cleared

\* A node that stays healthy is not kept out for ever: again and again it has a
\* closed breaker, or none.  A Retryer made after the rule was cleared has no check
\* function, and its first timer ends the process; a client that retries may go on
\* charging the node with the failures of others.
Readmitted ==
    \A n \in Node :
        <>[](healthy[n] /\ ~retries /\ ~stale /\ ~(crashed /\ cleared)) =>
            []<>(n \notin DOMAIN nodeBreakers \/ breaker[nodeBreakers[n]].state = "Closed")
=============================================================================
