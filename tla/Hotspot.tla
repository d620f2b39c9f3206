------------------------------ MODULE Hotspot ------------------------------
(* Hotspot parameter control (core/hotspot): one rule and the requests that   *)
(* carry a value of its parameter.  The counters of the values live in LRU     *)
(* caches (core/hotspot/cache) of pointers: a goroutine keeps the pointer it   *)
(* was given and goes on with it when the entry has been evicted since.        *)
(* Every step is one operation on a cache (under its lock) or one atomic       *)
(* access through a pointer; the clock is read with the cache access that      *)
(* follows.  ExtractArgs has found the value; DurationInSec is in ticks.       *)
EXTENDS Integers, Sequences, FiniteSets, Functions

CONSTANTS
    Req,         \* the requests
    Args,        \* the values of the parameter
    Rules,       \* the rules to check; one is chosen in Init
    Batches,     \* batch counts
    StartTime, MaxTime,
    Parallel     \* how many goroutines run a check or a statistic at once

\* limit is threshold or the specific item of a value.
Rule == [behavior : {"Concurrency", "Reject", "Throttling"}, limit : [Args -> Int],
         burst : Nat, duration : Nat \ {0}, maxQueue : Nat, capacity : Nat \ {0}]

ASSUME HotspotAssumption ==
    /\ Rules \subseteq Rule
    /\ Batches \subseteq Nat \ {0}
    /\ Parallel \in Nat \ {0}
    /\ StartTime \in Nat /\ MaxTime \in Nat /\ StartTime <= MaxTime
    /\ IsFiniteSet(Req) /\ IsFiniteSet(Args) /\ Args # {}

VARIABLES
    rule, clock,
    times,       \* RuleTimeCounter: entries [arg, cell], the freshest first
    tokens,      \* RuleTokenCounter
    conc,        \* ConcurrencyCounter
    heap,        \* what the pointers point to
    req,         \* the requests
    lost,        \* values of which an entry in use was evicted
    refill,      \* of each value, the last two refills and what passed since
    overlapped,  \* values of which two goroutines refilled at once
    free,        \* values of which a request passed without a token
    slots,       \* of each value, the times at which throttled requests pass
    overtaken    \* values of which a slot was taken before another was stored

caches == <<times, tokens, conc>>
ghosts == <<lost, refill, overlapped, free, slots, overtaken>>
vars == <<rule, clock, times, tokens, conc, heap, req, lost, refill, overlapped, free, slots,
          overtaken>>

Limit(a) == rule.limit[a]
MaxCount(a) == Limit(a) + rule.burst

----------------------------------------------------------------------------
(* The LRU cache                                                             *)

Has(c, a) == \E i \in 1..Len(c) : c[i].arg = a
Find(c, a) == CHOOSE i \in 1..Len(c) : c[i].arg = a
CellOf(c, a) == c[Find(c, a)].cell

\* An entry that is found moves to the front.
Get(c, a) ==
    LET i == Find(c, a)
    IN  IF Has(c, a) THEN <<c[i]>> \o SubSeq(c, 1, i - 1) \o SubSeq(c, i + 1, Len(c)) ELSE c

\* removeOldest, when the cache holds more than its size.
Evict(c) == IF Len(c) > rule.capacity THEN SubSeq(c, 1, Len(c) - 1) ELSE c

AddIfAbsentMutant(c, a, cell) ==
    LET others == SelectSeq(c, LAMBDA e : e.arg # a)
    IN  Evict(<<[arg |-> a, cell |-> cell]>> \o others)

\* A value that is absent is added in front, and the oldest entry falls out.
AddIfAbsent(c, a, cell) ==
    IF Has(c, a) THEN Get(c, a) ELSE Evict(<<[arg |-> a, cell |-> cell]>> \o c)

----------------------------------------------------------------------------
Idle == [pc |-> "idle", arg |-> CHOOSE a \in Args : TRUE, batch |-> 0, now |-> 0, timePtr |-> 0,
         ptr |-> 0, seen |-> 0, next |-> 0, first |-> FALSE]
Rest(pc, a) == [Idle EXCEPT !.pc = pc, !.arg = a]

At(r, pc) == req[r].pc = pc
AtAny(a, pcs) == {r \in Req : req[r].arg = a /\ req[r].pc \in pcs}
Resting == {"idle", "inside", "uncounted", "passed", "blocked", "done"}
Busy == {r \in Req : req[r].pc \notin Resting}
Turn == Cardinality(Busy) < Parallel

Set(r, new) == req' = [req EXCEPT ![r] = new]
Goto(r, pc) == Set(r, [req[r] EXCEPT !.pc = pc])
End(r, pc) == Set(r, Rest(pc, req[r].arg))

\* A new int64 variable takes a cell that nothing points to.
Cells == 1..(2 * Cardinality(Args) + 2 * Parallel + 1)
Held == {e.cell : e \in Range(times) \cup Range(tokens) \cup Range(conc)}
            \cup UNION {{req[r].timePtr, req[r].ptr} : r \in Req}
Fresh == CHOOSE c \in Cells : c \notin Held

\* The heap after AddIfAbsent of a variable with value v to cache c.
Stored(c, a, v) == IF Has(c, a) THEN heap ELSE [heap EXCEPT ![Fresh] = v]

\* A quota is lost with its entry; a concurrency only with a request in flight.
InFlight == {"load", "admitted", "inc", "inside", "uncounted", "dec"}
Loses(c, d) ==
    LET out == {e.arg : e \in Range(c)} \ {e.arg : e \in Range(d)}
    IN  lost' = lost \cup {a \in out :
                    rule.behavior # "Concurrency" \/ AtAny(a, InFlight) # {}}

Init ==
    /\ rule \in Rules
    /\ clock = StartTime
    /\ times = <<>> /\ tokens = <<>> /\ conc = <<>>
    /\ heap = [c \in Cells |-> 0]
    /\ req = [r \in Req |-> Idle]
    /\ lost = {} /\ overlapped = {} /\ free = {} /\ overtaken = {}
    /\ refill = [a \in Args |-> [at |-> 0, before |-> 0, passed |-> 0]]
    /\ slots = [a \in Args |-> {}]

Tick ==
    /\ clock < MaxTime
    /\ clock' = clock + 1
    /\ UNCHANGED <<rule, caches, heap, req, ghosts>>

\* Slot.Check with a value and a batch count, up to the loops.
Check(r) ==
    /\ At(r, "idle") /\ Turn
    /\ \E a \in Args, b \in Batches :
         Set(r, CASE rule.behavior = "Concurrency" -> Rest("count", a)
                  [] rule.behavior # "Concurrency" /\ Limit(a) <= 0 -> Rest("blocked", a)
                  [] rule.behavior = "Reject" /\ Limit(a) > 0 ->
                       IF b > MaxCount(a) THEN Rest("blocked", a)
                       ELSE [Rest("reject", a) EXCEPT !.batch = b]
                  [] rule.behavior = "Throttling" /\ Limit(a) > 0 ->
                       [Rest("throttle", a) EXCEPT !.batch = b])
    /\ UNCHANGED <<rule, clock, caches, heap, ghosts>>

----------------------------------------------------------------------------
(* performCheckingForConcurrencyMetric and ConcurrencyStatSlot               *)

\* The first request of a value passes unchecked.
CountFirst(r) ==
    LET a == req[r].arg
    IN  /\ At(r, "count")
        /\ conc' = AddIfAbsent(conc, a, Fresh)
        /\ heap' = Stored(conc, a, 0)
        /\ Loses(conc, conc')
        /\ IF Has(conc, a)
           THEN Set(r, [req[r] EXCEPT !.pc = "load", !.ptr = CellOf(conc, a)])
           ELSE Goto(r, "admitted")
        /\ UNCHANGED <<rule, clock, times, tokens, refill, overlapped, free, slots, overtaken>>

CheckConcurrencyMutant(r) ==
    /\ At(r, "load")
    /\ IF heap[req[r].ptr] <= Limit(req[r].arg)
       THEN Set(r, [req[r] EXCEPT !.pc = "admitted", !.ptr = 0])
       ELSE End(r, "blocked")
    /\ UNCHANGED <<rule, clock, caches, heap, ghosts>>

CheckConcurrency(r) ==
    /\ At(r, "load")
    /\ IF heap[req[r].ptr] + 1 <= Limit(req[r].arg)
       THEN Set(r, [req[r] EXCEPT !.pc = "admitted", !.ptr = 0])
       ELSE End(r, "blocked")
    /\ UNCHANGED <<rule, clock, caches, heap, ghosts>>

\* Both callbacks look the value up again and skip one that was evicted.
Callback(r, adding, skipped) ==
    /\ conc' = Get(conc, req[r].arg)
    /\ IF Has(conc, req[r].arg)
       THEN Set(r, [req[r] EXCEPT !.pc = adding, !.ptr = CellOf(conc, req[r].arg)])
       ELSE End(r, skipped)
    /\ UNCHANGED <<rule, clock, times, tokens, heap, ghosts>>

OnEntryPassed(r) == At(r, "admitted") /\ Callback(r, "inc", "uncounted")
OnCompleted(r) == (At(r, "inside") \/ At(r, "uncounted")) /\ Turn /\ Callback(r, "dec", "done")

AddInt64(r, delta, pc) ==
    /\ heap' = [heap EXCEPT ![req[r].ptr] = @ + delta]
    /\ End(r, pc)
    /\ UNCHANGED <<rule, clock, caches, ghosts>>

Increment(r) == At(r, "inc") /\ AddInt64(r, 1, "inside")
Decrement(r) == At(r, "dec") /\ AddInt64(r, -1, "done")

----------------------------------------------------------------------------
(* rejectTrafficShapingController.PerformChecking                            *)

\* A request that took its tokens without a refill.
Spent(a, b) == refill' = [refill EXCEPT ![a].passed = @ + b]

Refilled(r) ==
    refill' = [refill EXCEPT ![req[r].arg] = [at |-> req[r].now, before |-> @.at,
                                              passed |-> req[r].batch]]

\* One turn of the loop: the time of the last refill.
RejectLoop(r) ==
    LET a == req[r].arg
    IN  /\ At(r, "reject")
        /\ times' = AddIfAbsent(times, a, Fresh)
        /\ heap' = Stored(times, a, clock)
        /\ Loses(times, times')
        /\ Set(r, [req[r] EXCEPT !.now = clock,
                                 !.pc = IF Has(times, a) THEN "age" ELSE "fill",
                                 !.timePtr = IF Has(times, a) THEN CellOf(times, a) ELSE 0])
        /\ UNCHANGED <<rule, clock, tokens, conc, refill, overlapped, free, slots, overtaken>>

\* The first request fills; it passes even when the tokens are already there.
FirstFill(r) ==
    LET a == req[r].arg
    IN  /\ At(r, "fill")
        /\ tokens' = AddIfAbsent(tokens, a, Fresh)
        /\ heap' = Stored(tokens, a, MaxCount(a) - req[r].batch)
        /\ Loses(tokens, tokens')
        /\ IF Has(tokens, a)
           THEN free' = free \cup {a} /\ Spent(a, req[r].batch)
           ELSE Refilled(r) /\ UNCHANGED free
        /\ End(r, "passed")
        /\ UNCHANGED <<rule, clock, times, conc, overlapped, slots, overtaken>>

Refilling == {"refill", "rest", "swap", "stamp"}

Age(r) ==
    LET passTime == req[r].now - heap[req[r].timePtr]
    IN  /\ At(r, "age")
        /\ IF passTime > rule.duration
           THEN /\ Set(r, [req[r] EXCEPT !.pc = "refill", !.next = passTime])
                /\ overlapped' = overlapped \cup
                        {a \in {req[r].arg} : AtAny(a, Refilling) # {}}
           ELSE Set(r, [req[r] EXCEPT !.pc = "take", !.timePtr = 0]) /\ UNCHANGED overlapped
        /\ UNCHANGED <<rule, clock, caches, heap, lost, refill, free, slots, overtaken>>

RefillTokens(r) ==
    LET a == req[r].arg
    IN  /\ At(r, "refill")
        /\ tokens' = AddIfAbsent(tokens, a, Fresh)
        /\ heap' = Stored(tokens, a, MaxCount(a) - req[r].batch)
        /\ Loses(tokens, tokens')
        /\ IF Has(tokens, a)
           THEN /\ Set(r, [req[r] EXCEPT !.pc = "rest", !.ptr = CellOf(tokens, a)])
                /\ UNCHANGED refill
           ELSE Goto(r, "stamp") /\ Refilled(r)
        /\ UNCHANGED <<rule, clock, times, conc, overlapped, free, slots, overtaken>>

\* What is left after a refill for the time passed, at most MaxCount.
NewQps(r, restQps) ==
    LET toAddTokenNum == (req[r].next * Limit(req[r].arg)) \div rule.duration
    IN  IF toAddTokenNum + restQps > MaxCount(req[r].arg)
        THEN MaxCount(req[r].arg) - req[r].batch
        ELSE toAddTokenNum + restQps - req[r].batch

RestQps(r) ==
    LET restQps == heap[req[r].ptr]
    IN  /\ At(r, "rest")
        /\ IF NewQps(r, restQps) < 0
           THEN End(r, "blocked")
           ELSE Set(r, [req[r] EXCEPT !.pc = "swap", !.seen = restQps,
                                      !.next = NewQps(r, restQps)])
        /\ UNCHANGED <<rule, clock, caches, heap, ghosts>>

\* A lost race starts the loop over.
Again(r, pc) == Set(r, [Rest(pc, req[r].arg) EXCEPT !.batch = req[r].batch])

SwapRefill(r) ==
    /\ At(r, "swap")
    /\ IF heap[req[r].ptr] = req[r].seen
       THEN /\ heap' = [heap EXCEPT ![req[r].ptr] = req[r].next]
            /\ Set(r, [req[r] EXCEPT !.pc = "stamp", !.ptr = 0])
            /\ Refilled(r)
       ELSE Again(r, "reject") /\ UNCHANGED <<heap, refill>>
    /\ UNCHANGED <<rule, clock, caches, lost, overlapped, free, slots, overtaken>>

\* The time of the refill is stored after the tokens.
Stamp(r) ==
    /\ At(r, "stamp")
    /\ heap' = [heap EXCEPT ![req[r].timePtr] = req[r].now]
    /\ End(r, "passed")
    /\ UNCHANGED <<rule, clock, caches, ghosts>>

\* Without tokens in the cache the loop spins.
GetTokens(r) ==
    LET a == req[r].arg
    IN  /\ At(r, "take")
        /\ tokens' = Get(tokens, a)
        /\ IF Has(tokens, a)
           THEN Set(r, [req[r] EXCEPT !.pc = "left", !.ptr = CellOf(tokens, a)])
           ELSE Again(r, "reject")
        /\ UNCHANGED <<rule, clock, times, conc, heap, ghosts>>

LoadTokens(r) ==
    /\ At(r, "left")
    /\ IF heap[req[r].ptr] - req[r].batch >= 0
       THEN Set(r, [req[r] EXCEPT !.pc = "spend", !.seen = heap[req[r].ptr]])
       ELSE End(r, "blocked")
    /\ UNCHANGED <<rule, clock, caches, heap, ghosts>>

SpendMutant(r) ==
    /\ At(r, "spend")
    /\ heap' = [heap EXCEPT ![req[r].ptr] = req[r].seen - req[r].batch]
    /\ End(r, "passed")
    /\ Spent(req[r].arg, req[r].batch)
    /\ UNCHANGED <<rule, clock, caches, lost, overlapped, free, slots, overtaken>>

Spend(r) ==
    /\ At(r, "spend")
    /\ IF heap[req[r].ptr] = req[r].seen
       THEN /\ heap' = [heap EXCEPT ![req[r].ptr] = @ - req[r].batch]
            /\ End(r, "passed")
            /\ Spent(req[r].arg, req[r].batch)
       ELSE Again(r, "reject") /\ UNCHANGED <<heap, refill>>
    /\ UNCHANGED <<rule, clock, caches, lost, overlapped, free, slots, overtaken>>

----------------------------------------------------------------------------
(* throttlingTrafficShapingController.PerformChecking                        *)

IntervalCost(r) == (req[r].batch * rule.duration) \div Limit(req[r].arg)

\* Another goroutine has taken a slot through this pointer and not stored it.
Unstored(r) == \E q \in Req \ {r} : At(q, "store") /\ req[q].timePtr = req[r].timePtr
Overtakes(r, condition) ==
    overtaken' = overtaken \cup {a \in {req[r].arg} : condition}

\* r passes at the given time.
TakesSlot(r, at) ==
    slots' = [slots EXCEPT ![req[r].arg] = @ \cup {[at |-> at, cost |-> IntervalCost(r), by |-> r]}]

\* The first request of a value goes on with the variable it has put in.
ThrottleLoop(r) ==
    LET a == req[r].arg
    IN  /\ At(r, "throttle")
        /\ times' = AddIfAbsent(times, a, Fresh)
        /\ heap' = Stored(times, a, clock)
        /\ Loses(times, times')
        /\ Set(r, [req[r] EXCEPT !.pc = "last", !.now = clock, !.first = ~Has(times, a),
                        !.timePtr = IF Has(times, a) THEN CellOf(times, a) ELSE Fresh])
        /\ UNCHANGED <<rule, clock, tokens, conc, refill, overlapped, free, slots, overtaken>>

ExpectedTimeMutant(r, lastPassTime, current) ==
    IF req[r].first \/ lastPassTime < current - rule.duration
    THEN current - rule.duration + IntervalCost(r)
    ELSE current + IntervalCost(r)

ExpectedTime(r, lastPassTime, current) ==
    IF req[r].first \/ lastPassTime < current - rule.duration
    THEN current - rule.duration + IntervalCost(r)
    ELSE lastPassTime + IntervalCost(r)

\* The variable currentTimeInMs: of the first request, the one in the cache.
Current(r) == IF req[r].first THEN heap[req[r].timePtr] ELSE req[r].now

LoadLast(r) ==
    LET lastPassTime == heap[req[r].timePtr]
        expected == ExpectedTime(r, lastPassTime, Current(r))
    IN  /\ At(r, "last")
        /\ IF expected <= Current(r) \/ expected - Current(r) < rule.maxQueue
           THEN Set(r, [req[r] EXCEPT !.pc = "claim", !.seen = lastPassTime, !.next = expected])
           ELSE End(r, "blocked")
        /\ UNCHANGED <<rule, clock, caches, heap, ghosts>>

\* The swap publishes the current time, not yet the slot.
Claim(r) ==
    LET current == IF req[r].first THEN req[r].seen ELSE req[r].now
    IN  /\ At(r, "claim")
        /\ IF heap[req[r].timePtr] = req[r].seen
           THEN /\ heap' = [heap EXCEPT ![req[r].timePtr] = current]
                /\ IF req[r].first \/ req[r].next > current
                   THEN Goto(r, IF req[r].first THEN "await" ELSE "store") /\ UNCHANGED slots
                   ELSE End(r, "passed") /\ TakesSlot(r, req[r].now)
                /\ Overtakes(r, ~req[r].first /\ Unstored(r))
           ELSE Again(r, "throttle") /\ UNCHANGED <<heap, slots, overtaken>>
        /\ UNCHANGED <<rule, clock, caches, lost, refill, overlapped, free>>

\* The first request reads its variable, which others now change, once more; it
\* is given a duration of credit, as if nobody had passed.
AwaitTime(r) ==
    /\ At(r, "await")
    /\ IF req[r].next > Current(r)
       THEN /\ Goto(r, "store")
            /\ Overtakes(r, Unstored(r) \/ slots[req[r].arg] # {})
            /\ UNCHANGED slots
       ELSE End(r, "passed") /\ TakesSlot(r, req[r].now) /\ UNCHANGED overtaken
    /\ UNCHANGED <<rule, clock, caches, heap, lost, refill, overlapped, free>>

\* The request sleeps until its slot and passes.
StoreExpected(r) ==
    /\ At(r, "store")
    /\ heap' = [heap EXCEPT ![req[r].timePtr] = req[r].next]
    /\ TakesSlot(r, req[r].next)
    /\ End(r, "passed")
    /\ UNCHANGED <<rule, clock, caches, lost, refill, overlapped, free, overtaken>>

----------------------------------------------------------------------------
Next ==
    \/ Tick
    \/ \E r \in Req :
         \/ Check(r)
         \/ CountFirst(r) \/ CheckConcurrency(r) \/ OnEntryPassed(r) \/ Increment(r)
         \/ OnCompleted(r) \/ Decrement(r)
         \/ RejectLoop(r) \/ FirstFill(r) \/ Age(r) \/ RefillTokens(r) \/ RestQps(r)
         \/ SwapRefill(r) \/ Stamp(r) \/ GetTokens(r) \/ LoadTokens(r) \/ Spend(r)
         \/ ThrottleLoop(r) \/ LoadLast(r) \/ Claim(r) \/ AwaitTime(r) \/ StoreExpected(r)

Spec == Init /\ [][Next]_vars

----------------------------------------------------------------------------
\* ConcurrencyStatSlot: while no counter in use was evicted, the counter of a
\* value is the number of its requests between OnEntryPassed and OnCompleted, so
\* that it neither drifts nor stays above 0 when all have left.
ConcurrencyIsExact ==
    \A a \in Args \ lost : Has(conc, a) =>
        heap[CellOf(conc, a)] = Cardinality(AtAny(a, {"inside", "dec"}))

\* performCheckingForConcurrencyMetric: check and count are two steps, so a value
\* may exceed its limit, by at most the goroutines that run at once less one;
\* and one request is let in unchecked.
ConcurrencyOvershoot ==
    rule.behavior = "Concurrency" =>
        \A a \in Args \ lost :
            Cardinality(AtAny(a, {"admitted", "inc", "inside", "uncounted", "dec"}))
                <= (IF Limit(a) > 1 THEN Limit(a) ELSE 1) - 1 + Parallel

\* PerformChecking of the reject controller: from one refill to the next, the
\* requests that pass have at most threshold and burst together (not when an
\* entry was evicted, or the first request filled late); and two refills are more
\* than a duration apart, unless two goroutines decide to refill before one of
\* them has stored the new time.
BurstBounded ==
    \A a \in Args \ lost :
        /\ a \notin free => refill[a].passed <= IF Limit(a) > 0 THEN MaxCount(a) ELSE 0
        /\ a \notin overlapped /\ refill[a].before > 0 =>
               refill[a].at - refill[a].before > rule.duration

\* PerformChecking of the throttling controller: a request passes its interval
\* after the one before, unless it swapped between the swap of another and the
\* store that publishes its slot, or the first request of the value queues behind
\* its credit after another has passed, or the entry was evicted.
ThrottledApart ==
    \A a \in Args \ (lost \cup overtaken) : \A s, t \in slots[a] :
        /\ s.at < t.at => t.at - s.at >= t.cost
        /\ s # t /\ s.at = t.at => s.cost = 0 \/ t.cost = 0
=============================================================================
