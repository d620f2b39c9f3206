---------------------------- MODULE SlidingWindow ----------------------------
(***************************************************************************)
(* What core/stat keeps of one resource and what it reports: BaseStatNode, *)
(* its BucketLeapArray and the read-only views (SlidingWindowMetric) over  *)
(* it, against a log of everything recorded.  The goroutines take turns    *)
(* here, an operation at a time; LeapArray has their interleavings.        *)
(*                                                                         *)
(* The pass counter stands for the pass, block and error counters, which   *)
(* differ only in their index.                                             *)
(***************************************************************************)
EXTENDS BucketTime, FiniteSetsExt, Sequences

CONSTANTS
    ViewCount,      \* SlidingWindowMetric.sampleCount
    ViewInterval,   \* SlidingWindowMetric.intervalInMs
    Rts,            \* response times
    DefaultMaxRt,   \* base.DefaultStatisticMaxRt
    MaxTime,        \* bound: the clock stops there
    MaxOps          \* bound: operations recorded

\* CheckValidityForReuseStatistic, which NewSlidingWindowMetric insists on.
ASSUME ReuseAssumption ==
    /\ ViewCount \in Nat \ {0} /\ ViewInterval \in Nat \ {0}
    /\ ViewInterval % ViewCount = 0
    /\ Interval % ViewInterval = 0
    /\ (ViewInterval \div ViewCount) % BucketLen = 0

\* A real clock is further from zero than the interval is long.
ASSUME ClockAssumption == StartTime >= 2 * Interval

ASSUME RtAssumption == Rts \subseteq Nat /\ DefaultMaxRt \in Nat

VARIABLES
    now,            \* util.CurrentTimeMillis()
    win,            \* the MetricBucket of each index, with its BucketStart
    concurrency,    \* BaseStatNode.concurrency
    log             \* history: what was recorded, when

vars == <<now, win, concurrency, log>>

\* NewMetricBucket, and MetricBucket.reset
EmptyBucket(start) ==
    [start |-> start, pass |-> 0, rt |-> 0, complete |-> 0,
     minRt |-> DefaultMaxRt, maxConcurrency |-> 0]

RefreshMutant(t) ==
    IF StartOf(t) > win[IdxOf(t)].start
    THEN [win EXCEPT ![IdxOf(t)].start = StartOf(t)] ELSE win

\* currentBucketOfTime: the buckets once the bucket of time t is up to date.
Refresh(t) ==
    IF StartOf(t) > win[IdxOf(t)].start
    THEN [win EXCEPT ![IdxOf(t)] = EmptyBucket(StartOf(t))] ELSE win

\* isBucketDeprecated, over all buckets of w: valuesWithTime
Values(w, t) == {i \in BucketIds : ~Deprecated(t, w[i].start)}

\* MetricBucket.Add and AddRt
AddCount(b, event, n) == [b EXCEPT ![event] = @ + n]

AddRt(b, rt) ==
    [AddCount(b, "rt", rt) EXCEPT !.minRt = IF rt < @ THEN rt ELSE @]

\* MetricBucket.UpdateConcurrency
UpdateConcurrency(b, c) ==
    [b EXCEPT !.maxConcurrency = IF c > @ THEN c ELSE @]

Init ==
    /\ now = StartTime
    /\ win = [i \in BucketIds |-> EmptyBucket(FirstStart(i))]
    /\ concurrency = 0
    /\ log = << >>

Tick ==
    /\ now < MaxTime
    /\ now' = now + 1
    /\ UNCHANGED <<win, concurrency, log>>

\* recordPassFor: IncreaseConcurrency, which records the new level, and a pass.
RecordPass ==
    /\ Len(log) < MaxOps
    /\ concurrency' = concurrency + 1
    /\ win' = [Refresh(now) EXCEPT ![IdxOf(now)] =
                 AddCount(UpdateConcurrency(@, concurrency + 1), "pass", 1)]
    /\ log' = Append(log, [t |-> now, op |-> "pass", v |-> concurrency + 1])
    /\ UNCHANGED now

\* recordCompleteFor: the response time, a completion, DecreaseConcurrency.
RecordComplete(rt) ==
    /\ Len(log) < MaxOps
    /\ concurrency > 0
    /\ concurrency' = concurrency - 1
    /\ win' = [Refresh(now) EXCEPT ![IdxOf(now)] =
                 AddCount(AddRt(@, rt), "complete", 1)]
    /\ log' = Append(log, [t |-> now, op |-> "complete", v |-> rt])
    /\ UNCHANGED now

\* BucketLeapArray.Count refreshes the bucket of the present before it sums.
Read ==
    /\ win' = Refresh(now)
    /\ UNCHANGED <<now, concurrency, log>>

Next == Tick \/ RecordPass \/ (\E rt \in Rts : RecordComplete(rt)) \/ Read

Spec == Init /\ [][Next]_vars

------------------------------------------------------------------------------
(* What is reported                                                           *)

Total(w, event, ids) == MapThenSumSet(LAMBDA i : w[i][event], ids)

\* BucketLeapArray.CountWithTime
CountWithTime(t, event) == LET w == Refresh(t) IN Total(w, event, Values(w, t))

\* SlidingWindowMetric.getSatisfiedBuckets and getBucketStartRange; no refresh.
GetSatisfiedBuckets(t) ==
    {i \in Values(win, t) :
        /\ win[i].start >= StartOf(t) - ViewInterval + BucketLen
        /\ win[i].start <= StartOf(t)}

\* getSumWithTime
GetSum(t, event) == Total(win, event, GetSatisfiedBuckets(t))

\* GetPreviousQPS, times the interval in seconds
GetPreviousSum(event) == GetSum(now - (ViewInterval \div ViewCount), event)

GetMaxOfSingleBucket(event) ==
    Max({win[i][event] : i \in GetSatisfiedBuckets(now)} \cup {0})

MinRT == Max({1, Min({win[i].minRt : i \in GetSatisfiedBuckets(now)} \cup {DefaultMaxRt})})

MaxConcurrency == Max({win[i].maxConcurrency : i \in GetSatisfiedBuckets(now)} \cup {0})

------------------------------------------------------------------------------

\* The log entries of one kind within a span of time.
Within(op, from, to) == {k \in DOMAIN log : log[k].op = op /\ from <= log[k].t /\ log[k].t < to}

Sums(k) == log[k].v

\* The span that a view of the given length covers at time t.
SpanStart(t, length) == StartOf(t) - length + BucketLen
SpanEnd(t) == StartOf(t) + BucketLen

\* Count, "the sum count ... within all valid (non-expired) buckets", is the
\* number of events of the last BucketCount spans up to now: no event is counted
\* after its bucket expired, or forgotten while it is valid, whichever buckets
\* have been reset and whichever still hold an older cycle or lie ahead.
CountExact ==
    /\ CountWithTime(now, "pass") =
         Cardinality(Within("pass", SpanStart(now, Interval), SpanEnd(now)))
    /\ CountWithTime(now, "rt") =
         MapThenSumSet(Sums, Within("complete", SpanStart(now, Interval), SpanEnd(now)))

\* A view of the array reports the events of its own, shorter interval, although
\* it does not refresh the bucket of the present, which may hold an old cycle.
\* GetPreviousQPS looks one view bucket back.  The buckets it needs still exist
\* when the array is longer than the view and that bucket together, less one
\* bucket of the array.
ViewExact ==
    LET len == ViewInterval \div ViewCount
        t == now - len
    IN  /\ GetSum(now, "pass") =
                Cardinality(Within("pass", SpanStart(now, ViewInterval), SpanEnd(now)))
        /\ ViewInterval + len - BucketLen < Interval =>
            GetPreviousSum("pass") =
                Cardinality(Within("pass", SpanStart(t, ViewInterval), SpanEnd(t)))

\* The extremes a view reports are those of its interval: the smallest response
\* time (at least 1, at most the default), the highest concurrency recorded, the
\* busiest span.
ExtremesExact ==
    LET from == SpanStart(now, ViewInterval)
        to   == SpanEnd(now)
    IN  /\ MinRT = Max({1, Min({log[k].v : k \in Within("complete", from, to)}
                               \cup {DefaultMaxRt})})
        /\ MaxConcurrency = Max({log[k].v : k \in Within("pass", from, to)} \cup {0})
        /\ GetMaxOfSingleBucket("pass") =
             Max({Cardinality(Within("pass", s, s + BucketLen)) :
                     s \in {StartOf(t) : t \in from .. to - 1}})

\* What a node reports of its pass counts, response times and concurrency, over the
\* whole array and over a view, is what was recorded in that interval, across
\* buckets that were reset, still hold an old cycle or lie ahead.
ReportsExact == CountExact /\ ViewExact /\ ExtremesExact
==============================================================================
