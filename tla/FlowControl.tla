---------------------------- MODULE FlowControl ----------------------------
(***************************************************************************)
(* core/flow: concurrent requests of one resource under one rule.  A       *)
(* calculator (Direct, WarmUp or MemoryAdaptive) yields the tokens allowed *)
(* and a checker (Reject or Throttling) decides.  A step is one atomic     *)
(* access; the statistics are read in one step, and so are the two loads   *)
(* of coolDownTokens.                                                      *)
(*                                                                         *)
(* Time is in ticks and the statistics are exact (SlidingWindow shows that *)
(* a view reports the passes of its interval).  Tokens allowed are kept as *)
(* a fraction <<numerator, denominator>>.                                  *)
(***************************************************************************)
EXTENDS Integers, FiniteSets, FiniteSetsExt

CONSTANTS
    Req,            \* requests
    Rules,          \* rules, one of which is loaded
    Batches,        \* batch counts
    Mems,           \* memory usages the sampler may report
    StatInterval,   \* ticks of the statistic interval, which is one second
    BucketLen,      \* ticks of a bucket of the statistics
    StartTime,      \* the clock at the start
    MaxTime,        \* bound: the clock stops there
    Parallel,       \* goroutines that enter the resource
    Huge            \* 2^(w-1) for the width w of an integer

ASSUME FlowAssumption ==
    /\ StatInterval \in Nat \ {0} /\ BucketLen \in Nat \ {0} /\ StatInterval % BucketLen = 0
    /\ StartTime \in Nat /\ MaxTime \in Nat /\ StartTime <= MaxTime
    /\ Parallel \in Nat /\ Huge \in Nat
    /\ Batches \subseteq Nat \ {0} /\ Mems \subseteq Int

\* IsValidRule, with integral thresholds; the constructor replaces a cold factor
\* below two.  threshold is LowMemUsageThreshold and floor HighMemUsageThreshold in
\* a MemoryAdaptive rule.
ASSUME RulesAssumption ==
    Rules \subseteq [calc : {"Direct", "WarmUp", "MemoryAdaptive"}, check : {"Reject", "Throttling"},
                    threshold : Nat, maxQueue : Nat, period : Nat, cold : Nat \ {0, 1},
                    floor : Nat, lowMark : Int, highMark : Int]

\* A throttled warm-up rule has tokens above the warning line.
ASSUME SlopeAssumption ==
    \A ru \in Rules : ru.calc = "WarmUp" /\ ru.check = "Throttling" =>
        2 * ru.period * ru.threshold >= 1 + ru.cold

VARIABLES
    now,            \* the clock
    rule,           \* TrafficShapingController.rule
    storedTokens, lastFilledTime,   \* WarmUpTrafficShapingCalculator
    lastPassedTime, \* ThrottlingChecker
    passed,         \* statistics: the batch counts passed up to each tick
    pc, reg,        \* each request: next access, locals
    slot,           \* history: when a throttled request may go, and its interval
    overtaken,      \* history: a reservation was taken back after a later one
    behind          \* history: tokens were refilled for a second already filled

warm == <<storedTokens, lastFilledTime>>
vars == <<now, rule, warm, lastPassedTime, passed, pc, reg, slot, overtaken, behind>>

Times == StartTime .. MaxTime
NoSlot == [at |-> -1, len |-> 0]
Fresh(batch, prev, fraction) ==
    [batch |-> batch, prev |-> prev, num |-> fraction[1], den |-> fraction[2],
     t |-> 0, old |-> 0, new |-> 0, last |-> 0, len |-> 0]
None == <<0, 1>>
NoLocals == Fresh(0, 0, None)

Init ==
    /\ now = StartTime
    /\ rule \in Rules
    /\ storedTokens = 0 /\ lastFilledTime = 0 /\ lastPassedTime = 0
    /\ passed = [t \in Times |-> 0]
    /\ pc = [r \in Req |-> "new"]
    /\ reg = [r \in Req |-> NoLocals]
    /\ slot = [r \in Req |-> NoSlot]
    /\ overtaken = FALSE /\ behind = FALSE

Goto(r, place) == pc' = [pc EXCEPT ![r] = place]
\* A function returns: its locals are gone.
Return(r, place) ==
    /\ Goto(r, place)
    /\ reg' = [reg EXCEPT ![r] = IF place = "passed" THEN Fresh(reg[r].batch, 0, None) ELSE NoLocals]
SetReg(r, field, v) == reg' = [reg EXCEPT ![r][field] = v]
History == <<slot, overtaken, behind>>

InFlight(r) == pc[r] \notin {"new", "blocked", "done"}

Tick ==
    /\ now < MaxTime
    /\ now' = now + 1
    /\ UNCHANGED <<rule, warm, lastPassedTime, passed, pc, reg, History>>

\* GetSum and GetPreviousQPS over the view of the rule
StartOf(t) == t - (t % BucketLen)
UpTo(t) == IF t < StartTime THEN 0 ELSE passed[IF t > MaxTime THEN MaxTime ELSE t]
GetSum(t) == UpTo(StartOf(t) + BucketLen - 1) - UpTo(StartOf(t) + BucketLen - 1 - StatInterval)

\* The start of the second, as syncToken computes it.
SecondOf(t) == t - (t % StatInterval)

-----------------------------------------------------------------------------
(* WarmUpTrafficShapingCalculator                                            *)

WarningToken == (rule.period * rule.threshold) \div (rule.cold - 1)
MaxToken == WarningToken + (2 * rule.period * rule.threshold) \div (1 + rule.cold)

Wrap(x) == IF x < -Huge THEN x + 2 * Huge ELSE x
ToInt(x) == IF x < Huge THEN x ELSE -Huge
AtMostMax(x) == IF x <= MaxToken THEN x ELSE MaxToken

\* The tokens with those of the time since lastFilledTime.
Refill(old, t) == ToInt(old + ((t - lastFilledTime) * rule.threshold) \div StatInterval)

CoolDownTokensMutant(old, t, prev) ==
    {IF old < WarningToken \/ prev < rule.threshold \div rule.cold THEN Refill(old, t) ELSE old}

\* What coolDownTokens may return.  Above the warning line the time difference is
\* unsigned: before lastFilledTime it is huge, and depending on the threshold the
\* product is still an integer, or none and becomes the smallest one.
CoolDownTokens(old, t, prev) ==
    CASE old < WarningToken -> {AtMostMax(Refill(old, t))}
      [] old > WarningToken /\ prev < rule.threshold \div rule.cold ->
           IF t >= lastFilledTime THEN {AtMostMax(Refill(old, t))} ELSE {MaxToken, -Huge}
      [] OTHER -> {AtMostMax(old)}

\* What is allowed with that many tokens left.  Without any token between the
\* warning line and the maximum the slope is infinite and the result not a number.
AllowedWith(rest) ==
    LET above == rest - WarningToken
        span  == MaxToken - WarningToken
    IN  IF above < 0 THEN <<rule.threshold, 1>>
        ELSE <<rule.threshold * span, above * (rule.cold - 1) + span>>

\* MemoryAdaptiveTrafficShapingCalculator; a negative usage was not retrieved.
AllowedUnder(mem) ==
    CASE mem < 0 \/ mem <= rule.lowMark -> <<rule.threshold, 1>>
      [] mem >= rule.highMark -> <<rule.floor, 1>>
      [] OTHER -> <<(rule.floor - rule.threshold) * (mem - rule.lowMark)
                      + rule.threshold * (rule.highMark - rule.lowMark),
                    rule.highMark - rule.lowMark>>

Allow(r, fraction) ==
    /\ reg' = [reg EXCEPT ![r] = Fresh(reg[r].batch, 0, fraction)]
    /\ Goto(r, rule.check)

\* Slot.Check for a new request: the calculator's turn.
Check(r, batch) ==
    /\ pc[r] = "new"
    /\ Cardinality({q \in Req : InFlight(q)}) < Parallel
    /\ \/ /\ rule.calc = "Direct"
          /\ reg' = [reg EXCEPT ![r] = Fresh(batch, 0, <<rule.threshold, 1>>)]
          /\ Goto(r, rule.check)
       \/ /\ rule.calc = "MemoryAdaptive"
          /\ \E m \in Mems : reg' = [reg EXCEPT ![r] = Fresh(batch, 0, AllowedUnder(m))]
          /\ Goto(r, rule.check)
       \/ /\ rule.calc = "WarmUp"
          /\ reg' = [reg EXCEPT ![r] = Fresh(batch, GetSum(now - BucketLen), None)]
          /\ Goto(r, "sync")
    /\ UNCHANGED <<now, rule, warm, lastPassedTime, passed, History>>

\* syncToken, access by access
SyncToken(r) ==
    /\ pc[r] = "sync"
    /\ SetReg(r, "t", SecondOf(now))
    /\ Goto(r, "loadFilled")
    /\ UNCHANGED <<now, rule, warm, lastPassedTime, passed, History>>

LoadFilled(r) ==
    /\ pc[r] = "loadFilled"
    /\ Goto(r, IF reg[r].t <= lastFilledTime THEN "rest" ELSE "loadStored")
    /\ UNCHANGED <<now, rule, warm, lastPassedTime, passed, reg, History>>

LoadStored(r) ==
    /\ pc[r] = "loadStored"
    /\ SetReg(r, "old", storedTokens)
    /\ Goto(r, "coolDown")
    /\ UNCHANGED <<now, rule, warm, lastPassedTime, passed, History>>

CoolDown(r) ==
    /\ pc[r] = "coolDown"
    /\ \E new \in CoolDownTokens(storedTokens, reg[r].t, reg[r].prev) :
          SetReg(r, "new", new)
    /\ behind' = (behind \/ reg[r].t < lastFilledTime)
    /\ Goto(r, "casStored")
    /\ UNCHANGED <<now, rule, warm, lastPassedTime, passed, slot, overtaken>>

CasStored(r) ==
    /\ pc[r] = "casStored"
    /\ \/ storedTokens = reg[r].old /\ storedTokens' = reg[r].new /\ Goto(r, "subtract")
       \/ storedTokens # reg[r].old /\ UNCHANGED storedTokens /\ Goto(r, "rest")
    /\ UNCHANGED <<now, rule, lastFilledTime, lastPassedTime, passed, reg, History>>

Subtract(r) ==
    /\ pc[r] = "subtract"
    /\ storedTokens' = Wrap(storedTokens - reg[r].prev)
    /\ Goto(r, IF storedTokens' < 0 THEN "zero" ELSE "storeFilled")
    /\ UNCHANGED <<now, rule, lastFilledTime, lastPassedTime, passed, reg, History>>

Zero(r) ==
    /\ pc[r] = "zero"
    /\ storedTokens' = 0
    /\ Goto(r, "storeFilled")
    /\ UNCHANGED <<now, rule, lastFilledTime, lastPassedTime, passed, reg, History>>

StoreFilled(r) ==
    /\ pc[r] = "storeFilled"
    /\ lastFilledTime' = reg[r].t
    /\ Goto(r, "rest")
    /\ UNCHANGED <<now, rule, storedTokens, lastPassedTime, passed, reg, History>>

\* CalculateAllowedTokens reads what is left.
Rest(r) ==
    /\ pc[r] = "rest"
    /\ Allow(r, AllowedWith(IF storedTokens < 0 THEN 0 ELSE storedTokens))
    /\ UNCHANGED <<now, rule, warm, lastPassedTime, passed, History>>

-----------------------------------------------------------------------------
(* The checkers                                                              *)

\* n > num / den; no number is greater than what is not one.
Exceeds(n, r) == n * reg[r].den > reg[r].num

RejectMutant(r) ==
    /\ pc[r] = "Reject"
    /\ Return(r, IF Exceeds(GetSum(now), r) THEN "blocked" ELSE "passed")
    /\ UNCHANGED <<now, rule, warm, lastPassedTime, passed, History>>

\* RejectTrafficShapingChecker.DoCheck
Reject(r) ==
    /\ pc[r] = "Reject"
    /\ Return(r, IF Exceeds(GetSum(now) + reg[r].batch, r) THEN "blocked" ELSE "passed")
    /\ UNCHANGED <<now, rule, warm, lastPassedTime, passed, History>>

\* The interval of a request, rounded up.
IntervalOf(r) ==
    (reg[r].batch * reg[r].den * StatInterval + reg[r].num - 1) \div reg[r].num

\* ThrottlingChecker.DoCheck
Throttling(r) ==
    /\ pc[r] = "Throttling"
    /\ \/ /\ reg[r].num <= 0 \/ Exceeds(reg[r].batch, r)
          /\ Return(r, "blocked")
       \/ /\ reg[r].num > 0 /\ ~Exceeds(reg[r].batch, r)
          /\ reg' = [reg EXCEPT ![r].t = now, ![r].len = IntervalOf(r)]
          /\ Goto(r, "loadLast")
    /\ UNCHANGED <<now, rule, warm, lastPassedTime, passed, History>>

LoadLast(r) ==
    /\ pc[r] = "loadLast"
    /\ SetReg(r, "last", lastPassedTime)
    /\ Goto(r, IF lastPassedTime + reg[r].len <= reg[r].t THEN "casLast" ELSE "estimate")
    /\ UNCHANGED <<now, rule, warm, lastPassedTime, passed, History>>

Grant(r, at) == slot' = [slot EXCEPT ![r] = [at |-> at, len |-> reg[r].len]]

CasLastMutant(r) ==
    /\ pc[r] = "casLast"
    /\ lastPassedTime' = reg[r].t
    /\ Grant(r, reg[r].t) /\ Return(r, "passed")
    /\ UNCHANGED <<now, rule, warm, passed, overtaken, behind>>

CasLast(r) ==
    /\ pc[r] = "casLast"
    /\ \/ /\ lastPassedTime = reg[r].last
          /\ lastPassedTime' = reg[r].t
          /\ Grant(r, reg[r].t)
          /\ Return(r, "passed")
       \/ /\ lastPassedTime # reg[r].last
          /\ Goto(r, "estimate")
          /\ UNCHANGED <<lastPassedTime, reg, slot>>
    /\ UNCHANGED <<now, rule, warm, passed, overtaken, behind>>

Estimate(r) ==
    /\ pc[r] = "estimate"
    /\ \/ /\ lastPassedTime + reg[r].len - reg[r].t > rule.maxQueue
          /\ Return(r, "blocked")
       \/ /\ lastPassedTime + reg[r].len - reg[r].t <= rule.maxQueue
          /\ Goto(r, "addLast")
          /\ UNCHANGED reg
    /\ UNCHANGED <<now, rule, warm, lastPassedTime, passed, History>>

\* The reservation, and the wait it takes.
AddLast(r) ==
    /\ pc[r] = "addLast"
    /\ lastPassedTime' = lastPassedTime + reg[r].len
    /\ \/ /\ lastPassedTime' - reg[r].t > rule.maxQueue
          /\ SetReg(r, "last", lastPassedTime')
          /\ Goto(r, "rollBack")
          /\ UNCHANGED slot
       \/ /\ lastPassedTime' - reg[r].t <= rule.maxQueue
          /\ Grant(r, lastPassedTime')
          /\ Goto(r, "wait")
          /\ UNCHANGED reg
    /\ UNCHANGED <<now, rule, warm, passed, overtaken, behind>>

\* The reservation was too late and is taken back.
RollBack(r) ==
    /\ pc[r] = "rollBack"
    /\ lastPassedTime' = lastPassedTime - reg[r].len
    /\ overtaken' = (overtaken \/ lastPassedTime # reg[r].last)
    /\ Return(r, "blocked")
    /\ UNCHANGED <<now, rule, warm, passed, slot, behind>>

\* util.Sleep
Wait(r) ==
    /\ pc[r] = "wait"
    /\ now >= slot[r].at
    /\ Return(r, "passed")
    /\ UNCHANGED <<now, rule, warm, lastPassedTime, passed, History>>

\* The statistic slot counts the entry.
OnEntryPassed(r) ==
    /\ pc[r] = "passed"
    /\ passed' = [t \in Times |-> IF t >= now THEN passed[t] + reg[r].batch ELSE passed[t]]
    /\ Return(r, "done")
    /\ UNCHANGED <<now, rule, warm, lastPassedTime, History>>

Step(r) ==
    \/ SyncToken(r) \/ LoadFilled(r) \/ LoadStored(r) \/ CoolDown(r) \/ CasStored(r) \/ Subtract(r) \/ Zero(r)
    \/ StoreFilled(r) \/ Rest(r)
    \/ Reject(r) \/ Throttling(r) \/ LoadLast(r) \/ CasLast(r) \/ Estimate(r) \/ AddLast(r) \/ RollBack(r)
    \/ Wait(r) \/ OnEntryPassed(r)

Next == Tick \/ \E r \in Req : Step(r) \/ \E b \in Batches : Check(r, b)

Spec == Init /\ [][Next]_vars

-----------------------------------------------------------------------------

\* Reject compares before anybody counts: requests checked at the same time pass
\* together, and the passes of an interval exceed the threshold by the batches of
\* those requests at most, whatever the calculator allows and whenever buckets expire.
RejectOvershoot ==
    rule.check = "Reject" =>
        GetSum(now) + MapThenSumSet(LAMBDA r : reg[r].batch, {r \in Req : pc[r] = "passed"})
          <= rule.threshold + (Parallel - 1) * Max(Batches)

\* No calculator allows more than the threshold.  However syncToken interleaves, the
\* tokens stay below the maximum and no less than the cold rate is allowed, unless a
\* goroutine refills for a second that another one filled already.
AllowedInRange ==
    \A r \in Req :
        pc[r] \in {"Reject", "Throttling"} =>
            /\ reg[r].den > 0
            /\ reg[r].num <= rule.threshold * reg[r].den
            /\ rule.calc = "WarmUp" /\ ~behind => reg[r].num * rule.cold >= rule.threshold * reg[r].den
            /\ rule.calc = "MemoryAdaptive" => reg[r].num >= rule.floor * reg[r].den

\* The reservations held: granted to a request, or about to be taken back.
Held ==
    {[at |-> slot[r].at, len |-> slot[r].len, by |-> r] : r \in {q \in Req : slot[q] # NoSlot}}
    \cup {[at |-> reg[r].last, len |-> reg[r].len, by |-> r] : r \in {q \in Req : pc[q] = "rollBack"}}

\* Throttled requests go one interval apart: every reservation lies its own
\* interval behind all earlier ones.  It takes a reservation that is taken back
\* after a later one was made to break this.
SpacedUnlessOvertaken ==
    ~overtaken => \A h, k \in Held : \/ h = k
                                     \/ h.at - k.at >= h.len
                                     \/ k.at - h.at >= k.len

=============================================================================
