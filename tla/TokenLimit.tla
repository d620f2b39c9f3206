----------------------------- MODULE TokenLimit -----------------------------
(* core/llm_token_ratelimit: requests that are checked against the limit keys *)
(* of the rules that match, and charged with what they used when they are     *)
(* complete.  The counts are in Redis; each script is atomic, the time it is  *)
(* given is read before it is sent, and a call may fail before or after the   *)
(* script ran or be repeated by the client.                                   *)
EXTENDS Integers, Sequences, FiniteSets, FiniteSetsExt, Functions, TLC

CONSTANTS
    Request,
    Parallel,       \* bound on the requests inside at a time
    Rules,          \* the rules that match a resource, each a set of limit keys
    Strategy, CountStrategy, TokenSize, TimeWindow,  \* of a limit key
    Lengths,        \* what the encoder may count for the prompts
    Usages,         \* what a response may report: [input, output]
    FixedDelay,     \* 3 ms
    Grace,          \* 5 s
    StartTime, MaxTime, MaxLag, MaxFaults

Key == UNION UNION Range(Rules)
PETAKeys == {k \in Key : Strategy[k] = "peta"}
FixedKeys == Key \ PETAKeys

\* A limit of 0 is excluded although validateToken lets it pass: correct.lua
\* would not end.
ASSUME LimitAssumption ==
    /\ \A k \in Key : TokenSize[k] \in Nat \ {0} /\ TimeWindow[k] \in Nat \ {0}
    /\ MaxLag \in Nat /\ \A k \in PETAKeys : MaxLag < TimeWindow[k]
    /\ \A u \in Usages : u.input \in Nat /\ u.output \in Nat
    /\ Lengths \subseteq Nat

VARIABLES
    now,
    fixed,     \* per key of a fixed window: value and end
    peta,      \* per other key: bucket, sliding window and difference
    encoder,   \* tokenEncoderMap of the one encoding: "none", "ok" or "broken"
    req,       \* the requests
    faults,    \* history: failed calls so far
    granted,   \* history: what requests were let through with
    leaked     \* history: keys whose capacity was lowered without an entry

vars == <<now, fixed, peta, encoder, req, faults, granted, leaked>>

----------------------------------------------------------------------------
(* The scripts, as functions of what is stored under a key                   *)

NoBucket == [exists |-> FALSE, capacity |-> 0, max |-> 0, window |-> <<>>, difference |-> 0, until |-> 0]
NoWindow == [value |-> 0, until |-> 0]

\* calculate_tokens_in_range: the window maps members to their scores.
InRange(w, from, to) == {m \in DOMAIN w : from <= w[m] /\ w[m] <= to}
TokensOf(members) == MapThenSumSet(LAMBDA m : m.tokens, members)
Added(w, id, tokens, score) == ([id |-> id, tokens |-> tokens] :> score) @@ w

\* A bucket that is missing is made, with an entry without tokens.
Opened(p, k, ts, id) ==
    IF p.exists THEN p
    ELSE [p EXCEPT !.exists = TRUE, !.capacity = TokenSize[k], !.max = TokenSize[k],
                   !.window = Added(<<>>, id, 0, ts)]

\* Entries without tokens alone are not cleaned up.
ReplenishedMutant(p, k, ts) ==
    LET released == TokensOf(InRange(p.window, 0, ts - TimeWindow[k]))
    IN  IF released > 0 THEN [p EXCEPT !.capacity = @ + released] ELSE p

Replenished(p, k, ts) ==
    LET expired == InRange(p.window, 0, ts - TimeWindow[k])
        released == TokensOf(expired)
        rest == Restrict(p.window, DOMAIN p.window \ expired)
    IN  IF released > 0
        THEN [p EXCEPT !.window = rest,
                       !.capacity = IF @ + released > p.max THEN p.max - TokensOf(DOMAIN rest)
                                    ELSE @ + released]
        ELSE p

ExpiringMutant(p, k) == [p EXCEPT !.until = now + Grace]

Expiring(p, k) == [p EXCEPT !.until = now + TimeWindow[k] + Grace]

\* withhold.lua
Withhold(old, k, ts, id, length) ==
    LET p == Replenished(Opened(old, k, ts, id), k, ts)
        adjusted == length + p.difference
        estimated == IF adjusted >= 0 THEN adjusted ELSE length
        q == IF adjusted >= 0 THEN p ELSE [p EXCEPT !.difference = 0]
        first == IF q.window = <<>> THEN ts ELSE Min(Range(q.window))
        answer(state, waiting) ==
            [state |-> Expiring(state, k), waiting |-> waiting, estimated |-> estimated]
    IN  IF q.max < estimated \/ estimated <= 0 THEN answer(q, -1)
        ELSE IF q.capacity < estimated
        THEN answer(q, FixedDelay + TimeWindow[k] - (ts - first))
        ELSE answer([q EXCEPT !.window = Added(@, id, estimated, ts), !.capacity = @ - estimated], 0)

\* binary_search_compensation_time
CompensationTime(p, k, start, error) ==
    LET fits(t) == TokensOf(InRange(p.window, t - TimeWindow[k], t)) + error <= p.max
        search[l \in Nat, r \in Nat] ==
            LET mid == (l + r) \div 2
            IN  IF l >= r THEN l ELSE IF fits(mid) THEN search[l, mid] ELSE search[mid + 1, r]
    IN  search[start, start + TimeWindow[k]]

\* The loop of correct.lua: full windows, then the rest.  An entry of the same call
\* and size replaces the one before.
Distributed(old, k, from, all, id) ==
    LET size == TimeWindow[k]
        full[n \in Nat] ==
            IF n = 0 THEN old.window ELSE Added(full[n - 1], id, old.max, from + (n - 1) * size)
        count == (all - 1) \div old.max
        error == all - count * old.max
        p == [old EXCEPT !.window = full[count]]
        at == CompensationTime(p, k, from + count * size, error)
    IN  IF TokensOf(InRange(p.window, at - size, at)) + error > p.max THEN p
        ELSE [p EXCEPT !.window = Added(@, id, error, at)]

\* correct.lua
Correct(old, k, ts, id, estimated, actual) ==
    LET p == [Replenished(Opened(old, k, ts, id), k, ts) EXCEPT !.difference = actual - estimated]
        last == IF p.window = <<>> THEN ts ELSE Max(Range(p.window))
        error == actual - estimated
    IN  Expiring(IF error > 0
                 THEN Distributed([p EXCEPT !.capacity = @ - error], k, last, error, id)
                 ELSE p, k)

\* query.lua and update.lua
Query(w, k) == IF w.until > now THEN w ELSE [value |-> TokenSize[k], until |-> now + TimeWindow[k]]
Update(w, k, used) == [Query(w, k) EXCEPT !.value = @ - used]

----------------------------------------------------------------------------
(* The slots                                                                 *)

Idle == [pc |-> "idle", length |-> 0, rules |-> {}, keys |-> {}, key |-> "", ts |-> 0,
         group |-> <<>>, matched |-> <<>>, usage |-> [input |-> 0, output |-> 0]]
Done == [Idle EXCEPT !.pc = "done"]
Inside == {r \in Request : req[r].pc \notin {"idle", "done"}}

\* The limit key let the request pass.  The limit keys of a rule are remembered
\* when all of them did (cacheMatchedRules).
KeyPassed(q, estimated) ==
    LET group == Append(q.group, [key |-> q.key, estimated |-> estimated])
        passed == [q EXCEPT !.key = "", !.ts = 0]
    IN  IF q.keys # {} THEN [passed EXCEPT !.pc = "check", !.group = group]
        ELSE [passed EXCEPT !.pc = IF q.rules = {} THEN "passed" ELSE "check",
                            !.length = IF q.rules = {} THEN 0 ELSE @,
                            !.group = <<>>, !.matched = @ \o group]

\* The limit key a request comes to next: rules and limit keys come out of maps,
\* in any order.
AtNextKey(q) ==
    UNION {{[q EXCEPT !.rules = @ \ {rule}, !.keys = rule \ {k}, !.key = k] : k \in rule} :
              rule \in IF q.keys = {} THEN q.rules ELSE {q.keys}}

\* countTokens fails with a broken encoder, unless output tokens are counted, and
\* the request passes; otherwise the time is read for the call.
Counted(q, enc) ==
    IF CountStrategy[q.key] # "output" /\ enc = "broken" THEN KeyPassed(q, 0)
    ELSE [q EXCEPT !.pc = "eval", !.ts = now]

Enter(r) ==
    /\ req[r].pc = "idle" /\ Cardinality(Inside) < Parallel
    /\ \E resource \in DOMAIN Rules : \E length \in Lengths :
         req' = [req EXCEPT ![r].pc = "check", ![r].rules = Rules[resource],
                            ![r].length = IF UNION Rules[resource] \subseteq FixedKeys THEN 0 ELSE length]
    /\ UNCHANGED <<now, fixed, peta, encoder, faults, granted, leaked>>

\* PETAChecker.checkLimitKey, up to the call
CheckLimitKey(r) ==
    /\ req[r].pc = "check"
    /\ \E q \in AtNextKey(req[r]) :
         /\ q.key \in PETAKeys
         /\ req' = [req EXCEPT ![r] = IF CountStrategy[q.key] # "output" /\ encoder = "none"
                                      THEN [q EXCEPT !.pc = "encode"] ELSE Counted(q, encoder)]
    /\ UNCHANGED <<now, fixed, peta, encoder, faults, granted, leaked>>

\* An encoder whose dictionary cannot be loaded is kept like any other.
NewTokenEncoder(r) ==
    /\ req[r].pc = "encode"
    /\ \E enc \in {"ok", "broken"} :
         /\ enc = "broken" => faults < MaxFaults
         /\ faults' = faults + (IF enc = "broken" THEN 1 ELSE 0)
         /\ encoder' = enc
         /\ req' = [req EXCEPT ![r] = Counted(@, enc)]
    /\ UNCHANGED <<now, fixed, peta, granted, leaked>>

\* What may become of a call: answered; lost before or after the script ran; or
\* repeated by the client, whose answer is the second one.
Outcome == {[runs |-> 1, answered |-> TRUE]} \cup
    (IF faults < MaxFaults
     THEN {[runs |-> 0, answered |-> FALSE], [runs |-> 1, answered |-> FALSE], [runs |-> 2, answered |-> TRUE]}
     ELSE {})
Faulty(o) == IF o.runs = 1 /\ o.answered THEN 0 ELSE 1

ExhaustedMutant(w) == w.value = 0

\* A request passes when nothing remains, and is held back when the window is
\* overdrawn.
Exhausted(w) == w.value < 0

\* FixedWindowChecker.checkLimitKey
QueryFixedWindow(r) ==
    /\ req[r].pc = "check"
    /\ \E q \in AtNextKey(req[r]), o \in Outcome :
         LET w == Query(fixed[q.key], q.key)
         IN  /\ q.key \in FixedKeys
             /\ fixed' = IF o.runs = 0 THEN fixed ELSE [fixed EXCEPT ![q.key] = w]
             /\ req' = [req EXCEPT ![r] = IF o.answered /\ Exhausted(w) THEN Done ELSE KeyPassed(q, 0)]
             /\ faults' = faults + Faulty(o)
    /\ UNCHANGED <<now, peta, encoder, granted, leaked>>

\* PETAChecker.checkLimitKey, the call and what follows
WithholdTokens(r) ==
    LET q == req[r]
        k == q.key
        id == <<r, "withhold">>
        length == IF CountStrategy[k] = "output" THEN 0 ELSE q.length
        once == Withhold(peta[k], k, q.ts, id, length)
        twice == Withhold(once.state, k, q.ts, id, length)
    IN  /\ q.pc = "eval" /\ k \in PETAKeys
        /\ \E o \in Outcome :
             LET answer == IF o.runs = 2 THEN twice ELSE once
             IN  /\ peta' = IF o.runs = 0 THEN peta ELSE [peta EXCEPT ![k] = answer.state]
                 /\ req' = [req EXCEPT ![r] =
                        IF ~o.answered THEN KeyPassed(q, 0)
                        ELSE IF answer.waiting # 0 THEN Done ELSE KeyPassed(q, answer.estimated)]
                 /\ faults' = faults + Faulty(o)
                 /\ granted' = IF o.answered /\ answer.waiting = 0
                               THEN [granted EXCEPT ![k] = @ \cup
                                        {[id |-> r, ts |-> q.ts, tokens |-> answer.estimated,
                                          free |-> [id |-> id, tokens |-> answer.estimated]
                                                      \notin DOMAIN answer.state.window]}]
                               ELSE granted
                 /\ leaked' = IF o.runs = 2 THEN leaked \cup {k} ELSE leaked
        /\ UNCHANGED <<now, fixed, encoder>>

\* The entry is complete.  No usage is known when the call failed; a slot further
\* on that blocks the entry has the same effect, its OnCompleted is not called.
Complete(r) ==
    /\ req[r].pc = "passed"
    /\ \/ req' = [req EXCEPT ![r] = Done]
       \/ \E usage \in Usages :
            req' = [req EXCEPT ![r].pc = "update", ![r].usage = usage]
    /\ UNCHANGED <<now, fixed, peta, encoder, faults, granted, leaked>>

\* The calculators
Calculate(k, usage) ==
    CASE CountStrategy[k] = "input" -> usage.input
      [] CountStrategy[k] = "output" -> usage.output
      [] CountStrategy[k] = "total" -> usage.input + usage.output

\* PETAUpdater.updateLimitKey, up to the call
UpdateLimitKey(r) ==
    /\ req[r].pc = "update" /\ Head(req[r].matched).key \in PETAKeys
    /\ req' = [req EXCEPT ![r].pc = "correct", ![r].ts = now]
    /\ UNCHANGED <<now, fixed, peta, encoder, faults, granted, leaked>>

\* A failed call is logged, and the next limit key follows.
KeyUpdated(q) ==
    IF Len(q.matched) = 1 THEN Done
    ELSE [q EXCEPT !.pc = "update", !.ts = 0, !.matched = Tail(@)]

\* FixedWindowUpdater
UpdateFixedWindow(r) ==
    LET k == Head(req[r].matched).key
        used == Calculate(k, req[r].usage)
        once == Update(fixed[k], k, used)
    IN  /\ req[r].pc = "update" /\ k \in FixedKeys
        /\ \E o \in Outcome :
             /\ fixed' = [fixed EXCEPT ![k] =
                    CASE o.runs = 0 -> @ [] o.runs = 1 -> once [] o.runs = 2 -> Update(once, k, used)]
             /\ faults' = faults + Faulty(o)
        /\ req' = [req EXCEPT ![r] = KeyUpdated(@)]
        /\ UNCHANGED <<now, peta, encoder, granted, leaked>>

\* PETAUpdater.updateLimitKey, the call
CorrectTokens(r) ==
    LET q == req[r]
        k == Head(q.matched).key
        estimated == Head(q.matched).estimated
        actual == Calculate(k, q.usage)
        id == <<r, "correct">>
        once == Correct(peta[k], k, q.ts, id, estimated, actual)
        error == actual - estimated
        rest == [id |-> id, tokens |-> ((error - 1) % TokenSize[k]) + 1]
    IN  /\ q.pc = "correct" /\ k \in PETAKeys
        /\ \E o \in Outcome :
             /\ peta' = [peta EXCEPT ![k] =
                    CASE o.runs = 0 -> @ [] o.runs = 1 -> once
                      [] o.runs = 2 -> Correct(once, k, q.ts, id, estimated, actual)]
             /\ faults' = faults + Faulty(o)
             /\ leaked' = IF /\ o.runs > 0 /\ error > 0
                             /\ \/ o.runs = 2
                                \/ error >= 2 * TokenSize[k]
                                \/ rest \notin DOMAIN once.window
                          THEN leaked \cup {k} ELSE leaked
        /\ req' = [req EXCEPT ![r] = KeyUpdated(@)]
        /\ UNCHANGED <<now, fixed, encoder, granted>>

\* Time passes, and the store forgets keys; a call is not under way for longer
\* than MaxLag.
Tick ==
    /\ now < MaxTime
    /\ \A r \in Request : req[r].ts > 0 => now < req[r].ts + MaxLag
    /\ now' = now + 1
    /\ fixed' = [k \in FixedKeys |-> IF fixed[k].until > now' THEN fixed[k] ELSE NoWindow]
    /\ peta' = [k \in PETAKeys |-> IF peta[k].until > now' THEN peta[k] ELSE NoBucket]
    /\ leaked' = {k \in leaked : peta'[k].exists}
    /\ granted' = [k \in PETAKeys |-> {g \in granted[k] : g.ts > now' - TimeWindow[k] - MaxLag}]
    /\ UNCHANGED <<encoder, req, faults>>

Init ==
    /\ now = StartTime
    /\ fixed = [k \in FixedKeys |-> NoWindow]
    /\ peta = [k \in PETAKeys |-> NoBucket]
    /\ encoder = "none"
    /\ req = [r \in Request |-> Idle]
    /\ faults = 0
    /\ granted = [k \in PETAKeys |-> {}]
    /\ leaked = {}

Next ==
    \/ Tick
    \/ \E r \in Request :
         \/ Enter(r) \/ CheckLimitKey(r) \/ NewTokenEncoder(r)
         \/ QueryFixedWindow(r) \/ WithholdTokens(r) \/ Complete(r)
         \/ UpdateLimitKey(r) \/ UpdateFixedWindow(r) \/ CorrectTokens(r)

Spec == Init /\ [][Next]_vars

----------------------------------------------------------------------------

\* Requests are granted at most TokenSize tokens in any time as long as the window
\* less the longest way of a call to the store, but for those that withhold.lua
\* told not to wait without taking tokens.
WindowBounded ==
    \A k \in PETAKeys : \A last \in granted[k] :
        LET span == {g \in granted[k] : /\ g.ts <= last.ts /\ ~g.free
                                        /\ g.ts > last.ts - (TimeWindow[k] - MaxLag)}
        IN  MapThenSumSet(LAMBDA g : g.tokens, span) <= TokenSize[k]

\* What the bucket lacks is in the sliding window and comes back when it expires,
\* unless a correction could not be placed or was split over equal entries, or a
\* call was repeated.
CapacityAccounted ==
    \A k \in PETAKeys : peta[k].exists =>
        LET accounted == peta[k].max - TokensOf(DOMAIN peta[k].window)
        IN  peta[k].capacity <= accounted /\ (k \notin leaked => peta[k].capacity = accounted)

\* A fixed window is overdrawn at most by the requests inside at the same time and
\* by those that a failed call let through or charged twice.
FixedWindowOvershoot ==
    \A k \in FixedKeys :
        fixed[k].value >= 0 - (Parallel + faults) * Max({Calculate(k, u) : u \in Usages})
=============================================================================
