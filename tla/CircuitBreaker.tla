--------------------------- MODULE CircuitBreaker ---------------------------
(***************************************************************************)
(* One circuit breaker of core/circuitbreaker, shared by the goroutines    *)
(* that call the resource it protects.  Every step is one atomic access of *)
(* the Go code (an atomic load, store, add or compare-and-swap), so the    *)
(* model has the interleavings of TryPass, OnRequestComplete and the exit  *)
(* hook that fromOpenToHalfOpen registers.  Three short stretches are one  *)
(* step each: a clock read with the comparison it is for, currentCounter   *)
(* with the adds that follow, and a pass over the buckets (LeapArray has   *)
(* the interleavings inside the statistics).                               *)
(*                                                                         *)
(* The three strategies differ only in what makes a request bad (slow, or  *)
(* returned an error) and in the test that trips the breaker.  Listeners,  *)
(* logging and the snapshot value passed to listeners are left out.        *)
(***************************************************************************)
EXTENDS BucketTime, FiniteSetsExt

CONSTANTS
    Req,              \* goroutines that enter and exit the resource
    NoReq,            \* no goroutine
    Strategy,         \* Rule.Strategy
    ProbeNums,        \* the values of Rule.ProbeNum to consider
    RetryTimeout,     \* Rule.RetryTimeoutMs
    MinRequestAmount, \* Rule.MinRequestAmount
    ThresholdNum,     \* Rule.Threshold is ThresholdNum / ThresholdDen
    ThresholdDen,
    MaxTime,          \* bound: the clock stops there
    MaxEntries        \* bound: number of entries over all goroutines

ASSUME ReqAssumption == NoReq \notin Req

ASSUME RuleAssumption ==
    /\ Strategy \in {"SlowRequestRatio", "ErrorRatio", "ErrorCount"}
    /\ ProbeNums \subseteq Nat /\ RetryTimeout \in Nat /\ MinRequestAmount \in Nat
    /\ ThresholdNum \in Nat /\ ThresholdDen \in Nat \ {0}

ASSUME BoundAssumption == MaxTime \in Nat /\ MaxEntries \in Nat

VARIABLES
    now,        \* util.CurrentTimeMillis()
    state,      \* circuitBreakerBase.state
    nextRetry,  \* circuitBreakerBase.nextRetryTimestampMs
    curProbe,   \* circuitBreakerBase.curProbeNumber
    probeNum,   \* circuitBreakerBase.probeNumber, never assigned again
    win,        \* the leap array: [start, bad, total] per bucket
    pc,         \* next atomic access of each goroutine
    reg,        \* locals of OnRequestComplete: clock, outcome, trip decision
    hooked,     \* goroutines whose entry carries the roll-back exit handler
    entries,    \* entries started so far
    owner       \* history: who moved the breaker to half-open, while it is

breaker == <<state, nextRetry, curProbe, probeNum>>
vars == <<now, breaker, win, pc, reg, hooked, entries, owner>>

States == {"Closed", "HalfOpen", "Open"}

\* Places of a completion that has been counted and has yet to settle the
\* breaker, should the breaker be half-open.
Settling == {"sum", "status", "addProbe", "loadProbe", "casClosed", "recheck", "casReopen"}

\* Places of an admitted entry that has not delivered its result.
Unsettled == {"slots", "hook", "running", "bucket"} \cup Settling

\* Places of a goroutine whose breaker a reload has replaced (BreakerReload).
Replaced == {"oldTry", "oldBucket", "oldSettle"}

PcSet == Unsettled \cup Replaced \cup
    {"idle", "load", "retry", "casHalfOpen", "casOpen",
     "resetOpen", "clock", "store", "resetClosed", "resetMetric"}

NoLocals == [time |-> 0, bad |-> FALSE, reached |-> FALSE]

\* Next access of r; a goroutine that leaves Sentinel forgets its locals.
Goto(r, l) == pc' = [pc EXCEPT ![r] = l] /\ UNCHANGED <<reg, hooked>>

Leave(r) ==
    /\ pc' = [pc EXCEPT ![r] = "idle"]
    /\ reg' = [reg EXCEPT ![r] = NoLocals]
    /\ hooked' = hooked \ {r}

----------------------------------------------------------------------------
(* The statistics: a leap array of counters.                               *)

InitialWin == [i \in BucketIds |-> [start |-> FirstStart(i), bad |-> 0, total |-> 0]]

Valid(i) == ~Deprecated(now, win[i].start)

BadSum == MapThenSumSet(LAMBDA i : win[i].bad, {i \in BucketIds : Valid(i)})

TotalSum == MapThenSumSet(LAMBDA i : win[i].total, {i \in BucketIds : Valid(i)})

\* With no request at all the ratio is NaN and compares false.
RatioReached == TotalSum > 0 /\ BadSum * ThresholdDen >= ThresholdNum * TotalSum

ErrorCountReached == BadSum >= ThresholdNum

ThresholdReached ==
    /\ TotalSum >= MinRequestAmount
    /\ IF Strategy = "ErrorCount" THEN ErrorCountReached ELSE RatioReached

----------------------------------------------------------------------------
Init ==
    /\ now = StartTime
    /\ state = "Closed"
    /\ nextRetry = 0
    /\ curProbe = 0
    /\ probeNum \in ProbeNums
    /\ win = InitialWin
    /\ pc = [r \in Req |-> "idle"]
    /\ reg = [r \in Req |-> NoLocals]
    /\ hooked = {}
    /\ entries = 0
    /\ owner = NoReq

Tick ==
    /\ now < MaxTime
    /\ now' = now + 1
    /\ UNCHANGED <<breaker, win, pc, reg, hooked, entries, owner>>

(* Slot.Check -> TryPass ***************************************************)

Enter(r) ==
    /\ pc[r] = "idle"
    /\ entries < MaxEntries
    /\ entries' = entries + 1
    /\ Goto(r, "load")
    /\ UNCHANGED <<now, breaker, win, owner>>

\* Mutant: a half-open breaker admits probes whatever ProbeNum is.
TryPassMutant(r) ==
    /\ pc[r] = "load"
    /\ \/ state \in {"Closed", "HalfOpen"} /\ Goto(r, "slots")
       \/ state = "Open" /\ Goto(r, "retry")
    /\ UNCHANGED <<now, breaker, win, entries, owner>>

TryPass(r) ==
    /\ pc[r] = "load"
    /\ \/ state = "Closed" /\ Goto(r, "slots")
       \/ state = "Open" /\ Goto(r, "retry")
       \/ state = "HalfOpen" /\ probeNum > 0 /\ Goto(r, "slots")
       \/ state = "HalfOpen" /\ probeNum = 0 /\ Leave(r)
    /\ UNCHANGED <<now, breaker, win, entries, owner>>

RetryTimeoutArrived(r) ==
    /\ pc[r] = "retry"
    /\ \/ now >= nextRetry /\ Goto(r, "casHalfOpen")
       \/ now < nextRetry /\ Leave(r)
    /\ UNCHANGED <<now, breaker, win, entries, owner>>

FromOpenToHalfOpen(r) ==
    /\ pc[r] = "casHalfOpen"
    /\ \/ /\ state = "Open"
          /\ state' = "HalfOpen"
          /\ owner' = r
          /\ hooked' = hooked \cup {r}
          /\ pc' = [pc EXCEPT ![r] = "slots"]
          /\ UNCHANGED reg
       \/ state # "Open" /\ Leave(r) /\ UNCHANGED <<state, owner>>
    /\ UNCHANGED <<now, probeNum, nextRetry, curProbe, win, entries>>

\* The breakers and slots checked after this one pass or block the entry.  A
\* blocked entry exits at once and never reaches OnCompleted.
RestOfSlots(r) ==
    /\ pc[r] = "slots"
    /\ \/ Goto(r, "running")
       \/ r \in hooked /\ Goto(r, "hook")
       \/ r \notin hooked /\ Leave(r)
    /\ UNCHANGED <<now, breaker, win, entries, owner>>

\* The exit handler of a blocked probe: roll back, and nothing else.
RollBackHook(r) ==
    /\ pc[r] = "hook"
    /\ \/ state = "HalfOpen" /\ state' = "Open" /\ owner' = NoReq
       \/ state # "HalfOpen" /\ UNCHANGED <<state, owner>>
    /\ Leave(r)
    /\ UNCHANGED <<now, probeNum, nextRetry, curProbe, win, entries>>

(* MetricStatSlot.OnCompleted -> OnRequestComplete *************************)

\* Exit of a passed entry, up to the clock read of currentCounter.
OnCompleted(r) ==
    /\ pc[r] = "running"
    /\ \E bad \in BOOLEAN :
          reg' = [reg EXCEPT ![r] = [time |-> now, bad |-> bad, reached |-> FALSE]]
    /\ pc' = [pc EXCEPT ![r] = "bucket"]
    /\ UNCHANGED <<now, breaker, win, hooked, entries, owner>>

\* currentCounter and the two adds, at one place and on to the next.  A goroutine
\* whose clock is behind the bucket is dropped, unless the array has one bucket
\* only.
CountAt(r, here, next) ==
    LET i     == IdxOf(reg[r].time)
        start == StartOf(reg[r].time)
        One   == IF reg[r].bad THEN 1 ELSE 0
    IN  /\ pc[r] = here
        /\ \/ /\ start > win[i].start
              /\ win' = [win EXCEPT ![i] = [start |-> start, bad |-> One, total |-> 1]]
              /\ Goto(r, next)
           \/ /\ start = win[i].start \/ (start < win[i].start /\ BucketCount = 1)
              /\ win' = [win EXCEPT ![i] =
                    [start |-> @.start, bad |-> @.bad + One, total |-> @.total + 1]]
              /\ Goto(r, next)
           \/ /\ start < win[i].start /\ BucketCount > 1
              /\ Leave(r)
              /\ UNCHANGED win
        /\ UNCHANGED <<now, breaker, entries, owner>>

CurrentCounter(r) == CountAt(r, "bucket", "sum")

\* The clock reading is not used any more.
AllCounter(r) ==
    /\ pc[r] = "sum"
    /\ reg' = [reg EXCEPT ![r] = [time |-> 0, bad |-> @.bad, reached |-> ThresholdReached]]
    /\ pc' = [pc EXCEPT ![r] = "status"]
    /\ UNCHANGED <<now, breaker, win, hooked, entries, owner>>

\* Mutant: a failed probe returns without reopening the breaker.
CurrentStateMutant(r) ==
    /\ pc[r] = "status"
    /\ \/ state = "Open" /\ Leave(r)
       \/ state = "HalfOpen" /\ ~reg[r].bad /\ Goto(r, "addProbe")
       \/ state = "Closed" /\ reg[r].reached /\ Goto(r, "recheck")
       \/ state # "Open" /\ reg[r].bad /\ ~reg[r].reached /\ Leave(r)
       \/ state = "HalfOpen" /\ reg[r].bad /\ reg[r].reached /\ Leave(r)
       \/ state = "Closed" /\ ~reg[r].bad /\ ~reg[r].reached /\ Leave(r)
    /\ UNCHANGED <<now, breaker, win, entries, owner>>

CurrentState(r) ==
    /\ pc[r] = "status"
    /\ \/ state = "Open" /\ Leave(r)
       \/ state = "HalfOpen" /\ reg[r].bad /\ Goto(r, "casReopen")
       \/ state = "HalfOpen" /\ ~reg[r].bad /\ Goto(r, "addProbe")
       \/ state = "Closed" /\ reg[r].reached /\ Goto(r, "recheck")
       \/ state = "Closed" /\ ~reg[r].reached /\ Leave(r)
    /\ UNCHANGED <<now, breaker, win, entries, owner>>

AddCurProbeNum(r) ==
    /\ pc[r] = "addProbe"
    /\ curProbe' = curProbe + 1
    /\ Goto(r, "loadProbe")
    /\ UNCHANGED <<now, probeNum, state, nextRetry, win, entries, owner>>

EnoughProbes(r) ==
    /\ pc[r] = "loadProbe"
    /\ \/ (probeNum = 0 \/ curProbe >= probeNum) /\ Goto(r, "casClosed")
       \/ ~(probeNum = 0 \/ curProbe >= probeNum) /\ Leave(r)
    /\ UNCHANGED <<now, breaker, win, entries, owner>>

\* The result of the compare-and-swap is ignored: resetMetric follows anyway.
FromHalfOpenToClosed(r) ==
    /\ pc[r] = "casClosed"
    /\ \/ /\ state = "HalfOpen" /\ state' = "Closed" /\ owner' = NoReq
          /\ Goto(r, "resetClosed")
       \/ state # "HalfOpen" /\ Goto(r, "resetMetric") /\ UNCHANGED <<state, owner>>
    /\ UNCHANGED <<now, probeNum, nextRetry, curProbe, win, entries>>

ResetAt(r, here) ==
    /\ pc[r] = here
    /\ win' = [i \in BucketIds |->
                  IF Valid(i) THEN [win[i] EXCEPT !.bad = 0, !.total = 0] ELSE win[i]]
    /\ Leave(r)
    /\ UNCHANGED <<now, breaker, entries, owner>>

ResetMetric(r) == ResetAt(r, "resetMetric")

FromHalfOpenToOpen(r) ==
    /\ pc[r] = "casReopen"
    /\ \/ /\ state = "HalfOpen" /\ state' = "Open" /\ owner' = NoReq
          /\ Goto(r, "resetOpen")
       \/ state # "HalfOpen" /\ Leave(r) /\ UNCHANGED <<state, owner>>
    /\ UNCHANGED <<now, probeNum, nextRetry, curProbe, win, entries>>

ResetCurProbeNum(r) ==
    /\ \/ pc[r] = "resetOpen" /\ Goto(r, "clock")
       \/ pc[r] = "resetClosed" /\ Goto(r, "resetMetric")
    /\ curProbe' = 0
    /\ UNCHANGED <<now, probeNum, state, nextRetry, win, entries, owner>>

\* The state is loaded again before the breaker is tripped.
RecheckState(r) ==
    /\ pc[r] = "recheck"
    /\ \/ state = "Closed" /\ Goto(r, "casOpen")
       \/ state = "HalfOpen" /\ Goto(r, "casReopen")
       \/ state = "Open" /\ Leave(r)
    /\ UNCHANGED <<now, breaker, win, entries, owner>>

\* Mutant: the breaker opens without a new retry timestamp.
FromClosedToOpenMutant(r) ==
    /\ pc[r] = "casOpen"
    /\ \/ state = "Closed" /\ state' = "Open"
       \/ state # "Closed" /\ UNCHANGED state
    /\ Leave(r)
    /\ UNCHANGED <<now, probeNum, nextRetry, curProbe, win, entries, owner>>

FromClosedToOpen(r) ==
    /\ pc[r] = "casOpen"
    /\ \/ state = "Closed" /\ state' = "Open" /\ Goto(r, "clock")
       \/ state # "Closed" /\ Leave(r) /\ UNCHANGED state
    /\ UNCHANGED <<now, probeNum, nextRetry, curProbe, win, entries, owner>>

\* updateNextRetryTimestamp reads the clock, then stores.
ReadClock(r) ==
    /\ pc[r] = "clock"
    /\ reg' = [reg EXCEPT ![r].time = now]
    /\ pc' = [pc EXCEPT ![r] = "store"]
    /\ UNCHANGED <<now, breaker, win, hooked, entries, owner>>

\* Mutant: the timeout is added to the previous timestamp.
UpdateNextRetryTimestampMutant(r) ==
    /\ pc[r] = "store"
    /\ nextRetry' = (IF nextRetry > reg[r].time THEN nextRetry ELSE reg[r].time) + RetryTimeout
    /\ Leave(r)
    /\ UNCHANGED <<now, probeNum, state, curProbe, win, entries, owner>>

UpdateNextRetryTimestamp(r) ==
    /\ pc[r] = "store"
    /\ nextRetry' = reg[r].time + RetryTimeout
    /\ Leave(r)
    /\ UNCHANGED <<now, probeNum, state, curProbe, win, entries, owner>>

----------------------------------------------------------------------------
\* What a goroutine that is inside Sentinel, or runs the resource, does next.
Step(r) ==
    \/ TryPass(r) \/ RetryTimeoutArrived(r) \/ FromOpenToHalfOpen(r)
    \/ RestOfSlots(r) \/ RollBackHook(r)
    \/ OnCompleted(r) \/ CurrentCounter(r) \/ AllCounter(r) \/ CurrentState(r)
    \/ AddCurProbeNum(r) \/ EnoughProbes(r) \/ FromHalfOpenToClosed(r) \/ ResetMetric(r)
    \/ FromHalfOpenToOpen(r) \/ ResetCurProbeNum(r)
    \/ RecheckState(r) \/ FromClosedToOpen(r)
    \/ ReadClock(r) \/ UpdateNextRetryTimestamp(r)

Next == Tick \/ \E r \in Req : Enter(r) \/ Step(r)

Spec == Init /\ [][Next]_vars

\* The Go scheduler runs every runnable goroutine, and the API requires that
\* an admitted entry is exited; nothing forces new entries or a probe.
Fairness == \A r \in Req : WF_vars(Step(r))

FairSpec == Spec /\ Fairness
----------------------------------------------------------------------------
\* Type invariant of the breaker's fields and of the goroutines' locals.
TypeOK ==
    /\ now \in Nat /\ nextRetry \in Nat /\ curProbe \in Nat /\ entries \in Nat
    /\ probeNum \in ProbeNums
    /\ state \in States
    /\ win \in [BucketIds -> [start : Nat, bad : Nat, total : Nat]]
    /\ pc \in [Req -> PcSet]
    /\ reg \in [Req -> [time : Nat, bad : BOOLEAN, reached : BOOLEAN]]
    /\ hooked \subseteq Req
    /\ owner \in Req \cup {NoReq}

\* A goroutine whose next accesses settle the breaker if it is half-open: the
\* prober before its completion, or any completion that currentCounter did
\* not and will not drop for being behind its bucket.
Settler(r) ==
    \/ pc[r] \in Settling
    \/ r = owner /\ pc[r] \in {"slots", "hook", "running"}
    \/ /\ r = owner /\ pc[r] = "bucket"
       /\ win[IdxOf(reg[r].time)].start <= StartOf(reg[r].time)

\* With probeNum = 0 a half-open breaker, which refuses every new entry, is
\* never abandoned: some goroutine in flight will settle it, however late
\* completions from before the trip, lost compare-and-swaps, a blocked prober
\* and a completion dropped by currentCounter interleave.
HalfOpenSettled ==
    (state = "HalfOpen" /\ probeNum = 0) => \E r \in Req : Settler(r)

\* updateNextRetryTimestamp never pushes the next probe further than one
\* RetryTimeout from the present, however late and in whatever order the
\* goroutines that opened the breaker store their timestamps.
BoundedOutage == nextRetry <= now + RetryTimeout

\* The retry timestamp of a breaker that is not closed has been set, unless a
\* goroutine that opened it is still on its way to updateNextRetryTimestamp:
\* the compare-and-swap to open comes first, so TryPass can meet an open
\* breaker with the timestamp of long ago, but only in that window.
Armed ==
    state # "Closed" =>
        \/ nextRetry >= StartTime + RetryTimeout
        \/ \E r \in Req : pc[r] \in {"clock", "store"}

\* A half-open breaker leaves that state: the probe is answered, or rolled
\* back by the exit hook of fromOpenToHalfOpen.
HalfOpenTemporary == (state = "HalfOpen") ~> (state # "HalfOpen")

\* With one bucket, the default, the breaker implements the promise of a
\* single answerable probe.
Abstract == INSTANCE SingleProbe WITH
    phase  <- state,
    prober <- owner,
    active <- {r \in Req : pc[r] \in Unsettled}

\* Every step of TryPass, of OnRequestComplete and of the exit hook is a step
\* of SingleProbe or changes nothing SingleProbe can see.
RefinesSingleProbe == Abstract!FairSpec
=============================================================================
