-------------------------- MODULE FlowControlProof --------------------------
(***************************************************************************)
(* The throttling checker keeps granted requests apart, for any number of  *)
(* goroutines, any batch counts and any calculator.                        *)
(***************************************************************************)
EXTENDS FlowControl, TLAPS

Locals == [batch : Nat, t : Int, prev : Int, old : Int, new : Int,
           num : Int, den : Int, last : Int, len : Int]

Syncing == {"sync", "loadFilled", "loadStored", "coolDown", "casStored", "subtract", "zero",
            "storeFilled", "rest"}
Queueing == {"loadLast", "casLast", "estimate", "addLast", "rollBack"}
Granted == {"wait", "passed", "done"}
Places == Syncing \cup Queueing
          \cup {"new", "Reject", "Throttling", "wait", "passed", "blocked", "done"}

Types ==
    /\ now \in Times /\ rule \in Rules
    /\ storedTokens \in Int /\ lastFilledTime \in Int /\ lastPassedTime \in Int
    /\ passed \in [Times -> Int]
    /\ pc \in [Req -> Places]
    /\ reg \in [Req -> Locals]
    /\ slot \in [Req -> [at : Int, len : Int]]

\* A request carries its batch while it is in flight, and the calculators leave a
\* fraction for the throttling checker.
Carries ==
    \A r \in Req : /\ InFlight(r) => reg[r].batch >= 1
                   /\ pc[r] = "Throttling" => reg[r].den >= 1 /\ rule.check = "Throttling"
                   /\ pc[r] \in Syncing => rule.calc = "WarmUp"

\* Intervals are positive, and who tries to swap found its turn.
Positive ==
    \A r \in Req : /\ pc[r] \in Queueing => reg[r].len >= 1
                   /\ pc[r] = "casLast" => reg[r].last + reg[r].len <= reg[r].t
                   /\ slot[r] # NoSlot => slot[r].len >= 1 /\ pc[r] \in Granted

\* No reservation lies behind lastPassedTime.
Latest == ~overtaken => \A h \in Held : h.at <= lastPassedTime

Inv == Types /\ Carries /\ Positive /\ Latest /\ SpacedUnlessOvertaken

\* Rounding a positive quotient up yields a positive number.
LEMMA RoundUp == ASSUME NEW a \in Int, a >= 1, NEW n \in Nat \ {0}
                 PROVE  /\ ((a + n - 1) \div n) \in Int
                        /\ ((a + n - 1) \div n) >= 1
<1> DEFINE q == (a + n - 1) \div n
<1> DEFINE m == (a + n - 1) % n
<1>1. q \in Int /\ m \in 0 .. (n - 1) /\ a + n - 1 = n * q + m
  OBVIOUS
<1> HIDE DEF q, m
<1>2. q >= 1
  <2> SUFFICES ASSUME q <= 0 PROVE FALSE
    BY <1>1
  <2>1. n * q <= 0
    BY <1>1
  <2> QED
    BY <2>1, <1>1
<1> QED
  BY Zenon, <1>1, <1>2 DEF q

\* The sum of the window is an integer.
LEMMA SumType == ASSUME Types, NEW t \in Int PROVE GetSum(t) \in Int
<1>1. StartOf(t) \in Int
  BY FlowAssumption DEF StartOf
<1>2. \A u \in Int : UpTo(u) \in Int
  BY FlowAssumption DEF UpTo, Types, Times
<1> QED
  BY <1>1, <1>2, FlowAssumption DEF GetSum

\* The fields of the rule.
LEMMA RuleType ==
    ASSUME Types
    PROVE  /\ rule.threshold \in Nat /\ rule.maxQueue \in Nat /\ rule.period \in Nat
           /\ rule.cold \in Nat /\ rule.cold >= 2
           /\ rule.floor \in Nat /\ rule.lowMark \in Int /\ rule.highMark \in Int
<1>1. rule \in [calc : {"Direct", "WarmUp", "MemoryAdaptive"}, check : {"Reject", "Throttling"},
                threshold : Nat, maxQueue : Nat, period : Nat, cold : Nat \ {0, 1},
                floor : Nat, lowMark : Int, highMark : Int]
  BY Zenon, RulesAssumption DEF Types
<1>2. rule.cold \in Nat \ {0, 1}
  BY Zenon, <1>1
<1>3. rule.cold \in Nat /\ rule.cold >= 2
  BY <1>2
<1> QED
  BY Zenon, <1>1, <1>3

\* The token counts of the rule are integers, and a throttled rule has room above
\* its warning line.
LEMMA TokenType ==
    ASSUME Types
    PROVE  /\ WarningToken \in Int /\ MaxToken \in Int /\ MaxToken >= WarningToken
           /\ rule.calc = "WarmUp" /\ rule.check = "Throttling" => MaxToken - WarningToken >= 1
<1> DEFINE a == rule.period * rule.threshold
<1> DEFINE b == 2 * rule.period * rule.threshold
<1>1. a \in Nat /\ b \in Nat
  BY RuleType
<1>3. rule.calc = "WarmUp" /\ rule.check = "Throttling" => b >= 1 + rule.cold
  BY Zenon, SlopeAssumption DEF Types
<1> HIDE DEF a, b
<1>4. \A x, n \in Int : x >= 0 /\ n >= 1 => (x \div n) \in Int /\ (x \div n) >= 0 /\ (x >= n => (x \div n) >= 1)
  <2> SUFFICES ASSUME NEW x \in Int, NEW n \in Int, x >= 0, n >= 1
               PROVE  (x \div n) \in Int /\ (x \div n) >= 0 /\ (x >= n => (x \div n) >= 1)
    OBVIOUS
  <2> DEFINE q == x \div n
  <2> DEFINE m == x % n
  <2>1. q \in Int /\ m \in 0 .. (n - 1) /\ x = n * q + m
    OBVIOUS
  <2> HIDE DEF q, m
  <2>2. q >= 0
    <3> SUFFICES ASSUME q <= -1 PROVE FALSE
      BY <2>1
    <3>1. n * q <= -n
      BY <2>1
    <3> QED
      BY <3>1, <2>1
  <2>3. x >= n => q >= 1
    BY <2>1, <2>2
  <2> QED
    BY Zenon, <2>1, <2>2, <2>3 DEF q
<1>5. WarningToken = a \div (rule.cold - 1) /\ MaxToken = WarningToken + b \div (1 + rule.cold)
  BY Zenon DEF WarningToken, MaxToken, a, b
<1>2. rule.cold - 1 \in Int /\ rule.cold - 1 >= 1 /\ 1 + rule.cold \in Int /\ 1 + rule.cold >= 1
  BY RuleType
<1>6. (a \div (rule.cold - 1)) \in Int /\ (b \div (1 + rule.cold)) \in Int /\ (b \div (1 + rule.cold)) >= 0
  BY <1>1, <1>2, <1>4
<1>7. rule.calc = "WarmUp" /\ rule.check = "Throttling" => (b \div (1 + rule.cold)) >= 1
  BY <1>1, <1>2, <1>3, <1>4
<1> QED
  BY <1>5, <1>6, <1>7

\* What the warm-up calculator allows is a fraction.
LEMMA AllowedWithType ==
    ASSUME Types, NEW rest \in Int
    PROVE  /\ AllowedWith(rest)[1] \in Int /\ AllowedWith(rest)[2] \in Int
           /\ rule.calc = "WarmUp" /\ rule.check = "Throttling" => AllowedWith(rest)[2] >= 1
<1> DEFINE above == rest - WarningToken
<1> DEFINE span == MaxToken - WarningToken
<1>1. above \in Int /\ span \in Int /\ span >= 0
  BY TokenType
<1>2. rule.calc = "WarmUp" /\ rule.check = "Throttling" => span >= 1
  BY Zenon, TokenType
<1>3. rule.cold - 1 \in Nat /\ rule.threshold \in Nat
  BY RuleType
<1>4. AllowedWith(rest) = IF above < 0 THEN <<rule.threshold, 1>>
                          ELSE <<rule.threshold * span, above * (rule.cold - 1) + span>>
  BY Zenon DEF AllowedWith
<1> HIDE DEF above, span
<1>5. above >= 0 => above * (rule.cold - 1) \in Int /\ above * (rule.cold - 1) >= 0
  BY <1>1, <1>3
<1>6. rule.threshold * span \in Int
  BY <1>1, <1>3
<1>7. CASE above < 0
  BY <1>7, <1>4, <1>3
<1>8. CASE above >= 0
  <2>1. AllowedWith(rest) = <<rule.threshold * span, above * (rule.cold - 1) + span>>
    BY <1>8, <1>4, <1>1
  <2> QED
    BY <2>1, <1>1, <1>2, <1>5, <1>6, <1>8
<1> QED
  BY <1>7, <1>8, <1>1

\* What the memory adaptive calculator allows is a fraction.
LEMMA AllowedUnderType ==
    ASSUME Types, NEW mem \in Int
    PROVE  /\ AllowedUnder(mem)[1] \in Int /\ AllowedUnder(mem)[2] \in Int
           /\ AllowedUnder(mem)[2] >= 1
<1>1. CASE mem < 0 \/ mem <= rule.lowMark
  BY <1>1, RuleType DEF AllowedUnder
<1>2. CASE ~(mem < 0 \/ mem <= rule.lowMark) /\ mem >= rule.highMark
  BY <1>2, RuleType DEF AllowedUnder
<1>3. CASE ~(mem < 0 \/ mem <= rule.lowMark) /\ ~(mem >= rule.highMark)
  <2> DEFINE x == (rule.floor - rule.threshold) * (mem - rule.lowMark)
                    + rule.threshold * (rule.highMark - rule.lowMark)
  <2>1. AllowedUnder(mem) = <<x, rule.highMark - rule.lowMark>>
    BY Zenon, <1>3 DEF AllowedUnder
  <2>2. x \in Int
    BY RuleType
  <2> HIDE DEF x
  <2> QED
    BY <2>1, <2>2, <1>3, RuleType
<1> QED
  BY Zenon, <1>1, <1>2, <1>3

-----------------------------------------------------------------------------
(* Preservation.  Most steps move one request and set its locals.            *)

Core == Types /\ Carries /\ Positive

\* Where a request may go with these locals.
Fits(p, L) ==
    /\ p \in Places /\ L \in Locals
    /\ p \notin {"new", "blocked", "done"} => L.batch >= 1
    /\ p = "Throttling" => L.den >= 1 /\ rule.check = "Throttling"
    /\ p \in Syncing => rule.calc = "WarmUp"
    /\ p \in Queueing => L.len >= 1
    /\ p = "casLast" => L.last + L.len <= L.t

\* What the other variables must satisfy after a step.
Rest0 ==
    /\ now' \in Times /\ rule' = rule
    /\ storedTokens' \in Int /\ lastFilledTime' \in Int /\ lastPassedTime' \in Int
    /\ passed' \in [Times -> Int]

\* A step that moves one request to a place it fits keeps the core.
LEMMA MoveCore ==
    ASSUME Core, Rest0, NEW r \in Req, NEW p, NEW L, Fits(p, L),
           pc' = [pc EXCEPT ![r] = p], reg' = [reg EXCEPT ![r] = L],
           slot' \in [Req -> [at : Int, len : Int]],
           \A q \in Req : slot'[q] # NoSlot => slot'[q].len >= 1 /\ pc'[q] \in Granted
    PROVE  Core'
<1>1. pc' \in [Req -> Places] /\ reg' \in [Req -> Locals]
  BY Zenon DEF Core, Types, Fits
<1>2. Types'
  BY Zenon, <1>1 DEF Rest0, Types, Core
<1>3. \A q \in Req : pc'[q] = (IF q = r THEN p ELSE pc[q]) /\ reg'[q] = (IF q = r THEN L ELSE reg[q])
  BY Zenon DEF Core, Types
<1>4. Carries'
  BY <1>3 DEF Core, Carries, Fits, Rest0, InFlight
<1>5. Positive'
  BY <1>3 DEF Core, Positive, Fits
<1> QED
  BY Zenon, <1>2, <1>4, <1>5 DEF Core

\* A step that leaves all reservations alone keeps them spaced.
LEMMA MoveHeld ==
    ASSUME Inv, NEW r \in Req, NEW p \in Places, NEW L, p # "rollBack", pc[r] # "rollBack",
           pc' = [pc EXCEPT ![r] = p], reg' = [reg EXCEPT ![r] = L],
           UNCHANGED <<slot, overtaken, lastPassedTime>>
    PROVE  Latest' /\ SpacedUnlessOvertaken'
<1>1. \A q \in Req : pc'[q] = (IF q = r THEN p ELSE pc[q]) /\ reg'[q] = (IF q = r THEN L ELSE reg[q])
  BY Zenon DEF Inv, Types
<1>2. {q \in Req : pc'[q] = "rollBack"} = {q \in Req : pc[q] = "rollBack"}
  BY Zenon, <1>1
<1>3. \A q \in {u \in Req : pc[u] = "rollBack"} : reg'[q] = reg[q]
  BY Zenon, <1>1
<1>4. Held' = Held
  BY ZenonT(40), <1>2, <1>3 DEF Held
<1> QED
  BY Zenon, <1>4 DEF Inv, Latest, SpacedUnlessOvertaken

\* A new reservation, one interval behind all others, keeps them spaced.
LEMMA Reserve ==
    ASSUME Inv, NEW h, h.at \in Int, h.len \in Int, h.len >= 1,
           Held' \subseteq Held \cup {h}, UNCHANGED overtaken,
           lastPassedTime' = h.at, lastPassedTime + h.len <= h.at
    PROVE  Latest' /\ SpacedUnlessOvertaken'
<1>1. \A k \in Held : k.at \in Int /\ k.len \in Int
  BY DEF Inv, Types, Held, Locals
<1> SUFFICES ASSUME ~overtaken
             PROVE  /\ \A k \in Held' : k.at <= lastPassedTime'
                    /\ \A i, k \in Held' : i = k \/ i.at - k.at >= i.len \/ k.at - i.at >= k.len
  BY Zenon DEF Latest, SpacedUnlessOvertaken
<1>2. \A k \in Held : h.at - k.at >= h.len
  BY <1>1 DEF Inv, Latest, Types
<1>3. \A k \in Held : k.at <= h.at
  BY <1>1, <1>2
<1>4. \A i, k \in Held : i = k \/ i.at - k.at >= i.len \/ k.at - i.at >= k.len
  BY Zenon DEF Inv, SpacedUnlessOvertaken
<1>5. \A i, k \in Held \cup {h} : i = k \/ i.at - k.at >= i.len \/ k.at - i.at >= k.len
  BY Zenon, <1>2, <1>4
<1> QED
  BY <1>3, <1>5

\* A request moves and makes no reservation.
Plain(r) ==
    /\ pc[r] # "rollBack"
    /\ \E p, L : /\ Fits(p, L) /\ p # "rollBack" /\ (pc[r] \in Granted => p \in Granted)
                 /\ pc' = [pc EXCEPT ![r] = p] /\ reg' = [reg EXCEPT ![r] = L]
    /\ UNCHANGED <<slot, overtaken, lastPassedTime>>

\* A plain move keeps the invariant.
LEMMA PlainInv == ASSUME Inv, Rest0, NEW r \in Req, Plain(r) PROVE Inv'
<1>1. PICK p, L : /\ Fits(p, L) /\ p # "rollBack" /\ (pc[r] \in Granted => p \in Granted)
                  /\ pc' = [pc EXCEPT ![r] = p] /\ reg' = [reg EXCEPT ![r] = L]
  BY Zenon DEF Plain
<1>2. Core
  BY Zenon DEF Inv, Core
<1>3. slot' \in [Req -> [at : Int, len : Int]] /\ \A q \in Req : slot'[q] # NoSlot => slot'[q].len >= 1 /\ pc'[q] \in Granted
  BY Zenon, <1>1 DEF Plain, Inv, Types, Positive
<1>4. Core'
  BY Zenon, <1>1, <1>2, <1>3, MoveCore
<1>5. Latest' /\ SpacedUnlessOvertaken'
  <2>1. p \in Places
    BY Zenon, <1>1 DEF Fits
  <2> QED
    BY Zenon, <1>1, <2>1, MoveHeld DEF Plain
<1> QED
  BY Zenon, <1>4, <1>5 DEF Core, Inv

\* The locals of a request in flight, and those it returns with.
LEMMA LocalsType ==
    ASSUME Inv, NEW r \in Req
    PROVE  /\ reg[r] \in Locals /\ NoLocals \in Locals
           /\ reg[r].batch \in Nat
           /\ InFlight(r) => reg[r].batch >= 1
  BY DEF Inv, Types, Locals, NoLocals, Fresh, None, Carries

\* A request that is blocked or done fits, and so does one that passed.
LEMMA ReturnFits ==
    ASSUME Inv, NEW r \in Req, InFlight(r), pc[r] # "rollBack", NEW p \in {"blocked", "passed", "done"},
           p = "blocked" => pc[r] \notin Granted, Return(r, p), UNCHANGED <<slot, overtaken, lastPassedTime>>
    PROVE  Plain(r)
<1> DEFINE L == IF p = "passed" THEN Fresh(reg[r].batch, 0, None) ELSE NoLocals
<1>1. L \in Locals
  BY Zenon, LocalsType DEF Locals, NoLocals, Fresh, None
<1>2. p = "passed" => L.batch >= 1
  BY Zenon, LocalsType DEF Fresh
<1>3. pc' = [pc EXCEPT ![r] = p] /\ reg' = [reg EXCEPT ![r] = L]
  BY Zenon DEF Return, Goto
<1>4. p \notin Syncing /\ p \notin Queueing /\ p # "Throttling" /\ p # "casLast" /\ p # "rollBack"
  BY Zenon DEF Syncing, Queueing
<1>6. p \in Places
  BY Zenon DEF Places
<1> HIDE DEF L
<1>5. Fits(p, L)
  BY Zenon, <1>1, <1>2, <1>4, <1>6 DEF Fits
<1> QED
  BY Zenon, <1>3, <1>4, <1>5 DEF Plain, Granted

\* A request whose locals change in one field of the calculators fits where that
\* code goes on.
LEMMA SyncFits ==
    ASSUME Inv, NEW r \in Req, pc[r] \in Syncing, NEW L \in Locals, L.batch = reg[r].batch,
           NEW p \in Syncing, Goto(r, p), reg' = [reg EXCEPT ![r] = L],
           UNCHANGED <<slot, overtaken, lastPassedTime>>
    PROVE  Plain(r)
<1>1. rule.calc = "WarmUp"
  BY Zenon DEF Inv, Carries
<1>2. InFlight(r) /\ pc[r] # "rollBack" /\ pc[r] \notin Granted
  BY Zenon DEF InFlight, Syncing, Granted
<1>3. L.batch >= 1
  BY Zenon, <1>2, LocalsType
<1>4. p \notin Queueing /\ p # "Throttling" /\ p # "casLast" /\ p # "rollBack"
  BY Zenon DEF Syncing, Queueing
<1>6. p \in Places
  BY Zenon DEF Places
<1>5. Fits(p, L)
  BY Zenon, <1>1, <1>3, <1>4, <1>6 DEF Fits
<1> QED
  BY Zenon, <1>2, <1>4, <1>5 DEF Plain, Goto

\* A request goes from its calculator to its checker with a fraction.
LEMMA AllowFits ==
    ASSUME Inv, NEW r \in Req, pc[r] # "rollBack", pc[r] \notin Granted, NEW L \in Locals, L.batch >= 1,
           rule.check = "Throttling" => L.den >= 1,
           Goto(r, rule.check), reg' = [reg EXCEPT ![r] = L],
           UNCHANGED <<slot, overtaken, lastPassedTime>>
    PROVE  Plain(r)
<1>1. rule.check \in {"Reject", "Throttling"}
  BY Zenon, RulesAssumption DEF Inv, Types
<1>2. rule.check \notin Queueing /\ rule.check \notin Syncing
      /\ rule.check # "casLast" /\ rule.check # "rollBack"
  BY Zenon, <1>1 DEF Syncing, Queueing
<1>4. rule.check \in Places
  BY Zenon, <1>1 DEF Places
<1>3. Fits(rule.check, L)
  BY Zenon, <1>2, <1>4 DEF Fits
<1> QED
  BY Zenon, <1>2, <1>3 DEF Plain, Goto

\* The calculators make plain moves and keep the types of what they write.
LEMMA CheckPlain ==
    ASSUME Inv, NEW r \in Req, NEW b \in Batches, Check(r, b) PROVE Plain(r) /\ Rest0
<1>1. b \in Nat /\ b >= 1
  BY FlowAssumption
<1>2. Rest0 /\ UNCHANGED <<slot, overtaken, lastPassedTime>> /\ pc[r] # "rollBack" /\ pc[r] \notin Granted
  BY Zenon DEF Check, Rest0, Inv, Types, warm, History, Granted
<1>3. Types
  BY Zenon DEF Inv
<1>4. CASE rule.calc = "Direct"
  <2> DEFINE L == Fresh(b, 0, <<rule.threshold, 1>>)
  <2>1. L \in Locals /\ L.batch >= 1 /\ L.den >= 1
    BY <1>1, <1>3, RuleType DEF Locals, Fresh
  <2>2. reg' = [reg EXCEPT ![r] = L] /\ Goto(r, rule.check)
    BY Zenon, <1>4 DEF Check
  <2> HIDE DEF L
  <2> QED
    BY Zenon, <1>2, <2>1, <2>2, AllowFits
<1>5. CASE rule.calc = "MemoryAdaptive"
  <2>1. PICK m \in Mems : reg' = [reg EXCEPT ![r] = Fresh(b, 0, AllowedUnder(m))]
    BY Zenon, <1>5 DEF Check
  <2> DEFINE L == Fresh(b, 0, AllowedUnder(m))
  <2>2. AllowedUnder(m)[1] \in Int /\ AllowedUnder(m)[2] \in Int /\ AllowedUnder(m)[2] >= 1
    BY Zenon, <1>3, AllowedUnderType, FlowAssumption
  <2>3. L \in Locals /\ L.batch >= 1 /\ L.den >= 1
    BY <2>2, <1>1 DEF Locals, Fresh
  <2>4. reg' = [reg EXCEPT ![r] = L] /\ Goto(r, rule.check)
    BY Zenon, <1>5, <2>1 DEF Check
  <2> HIDE DEF L
  <2> QED
    BY Zenon, <1>2, <2>3, <2>4, AllowFits
<1>6. CASE rule.calc = "WarmUp"
  <2> DEFINE x == GetSum(now - BucketLen)
  <2> DEFINE L == Fresh(b, x, None)
  <2>1. x \in Int
    <3>1. now - BucketLen \in Int
      BY <1>3, FlowAssumption DEF Types, Times
    <3> QED
      BY Zenon, <1>3, <3>1, SumType
  <2>2. reg' = [reg EXCEPT ![r] = L] /\ Goto(r, "sync")
    BY Zenon, <1>6 DEF Check
  <2> HIDE DEF x
  <2>3. L \in Locals /\ L.batch >= 1
    BY <2>1, <1>1 DEF Locals, Fresh, None
  <2> HIDE DEF L
  <2>4. Fits("sync", L)
    BY Zenon, <1>6, <2>3 DEF Fits, Places, Syncing, Queueing
  <2> QED
    BY Zenon, <1>2, <2>2, <2>4 DEF Plain, Goto
<1> QED
  BY Zenon, <1>2, <1>4, <1>5, <1>6 DEF Check

\* The refilled tokens are integers.
LEMMA CoolDownType ==
    ASSUME Inv, NEW old \in Int, NEW t \in Int, NEW prev \in Int, NEW new \in CoolDownTokens(old, t, prev)
    PROVE  new \in Int
<1>1. Types /\ WarningToken \in Int /\ MaxToken \in Int /\ rule.threshold \in Nat /\ lastFilledTime \in Int
  BY Zenon, TokenType, RuleType DEF Inv, Types
<1>2. (t - lastFilledTime) * rule.threshold \in Int
  BY <1>1
<1>3. ((t - lastFilledTime) * rule.threshold) \div StatInterval \in Int
  <2> DEFINE x == (t - lastFilledTime) * rule.threshold
  <2> HIDE DEF x
  <2>1. x \div StatInterval \in Int
    BY <1>2, FlowAssumption DEF x
  <2> QED
    BY Zenon, <2>1 DEF x
<1>4. Refill(old, t) \in Int
  BY <1>3, FlowAssumption DEF Refill, ToInt
<1>5. \A x \in Int : AtMostMax(x) \in Int
  BY Zenon, <1>1 DEF AtMostMax
<1>6. new \in {AtMostMax(Refill(old, t)), MaxToken, -Huge, AtMostMax(old)}
  BY Zenon DEF CoolDownTokens
<1> QED
  BY <1>1, <1>4, <1>5, <1>6, FlowAssumption

\* syncToken and what follows it are plain moves.
LEMMA SyncPlain ==
    ASSUME Inv, NEW r \in Req,
           \/ SyncToken(r) \/ LoadFilled(r) \/ LoadStored(r) \/ CoolDown(r) \/ CasStored(r)
           \/ Subtract(r) \/ Zero(r) \/ StoreFilled(r) \/ Rest(r)
    PROVE  Plain(r) /\ Rest0
<1>1. Types /\ now \in Int /\ reg[r] \in Locals /\ reg \in [Req -> Locals]
  BY FlowAssumption DEF Inv, Types, Times
<1>2. reg = [reg EXCEPT ![r] = reg[r]]
  BY Zenon, <1>1
<1>3. CASE SyncToken(r)
  <2> DEFINE L == [reg[r] EXCEPT !.t = SecondOf(now)]
  <2>1. SecondOf(now) \in Int
    BY <1>1, FlowAssumption DEF SecondOf
  <2>2. L \in Locals /\ L.batch = reg[r].batch
    BY Zenon, <1>1, <2>1 DEF Locals
  <2>3. reg' = [reg EXCEPT ![r] = L] /\ Goto(r, "loadFilled") /\ pc[r] \in Syncing
    BY Zenon, <1>3 DEF SyncToken, SetReg, Syncing
  <2>4. UNCHANGED <<slot, overtaken, lastPassedTime>> /\ Rest0
    BY Zenon, <1>3 DEF SyncToken, History, Rest0, warm, Inv, Types
  <2> HIDE DEF L
  <2> QED
    BY Zenon, <2>2, <2>3, <2>4, SyncFits DEF Syncing
<1>4. CASE LoadFilled(r)
  <2>1. Goto(r, "rest") \/ Goto(r, "loadStored")
    BY Zenon, <1>4 DEF LoadFilled
  <2>2. reg' = [reg EXCEPT ![r] = reg[r]] /\ pc[r] \in Syncing
    BY Zenon, <1>2, <1>4 DEF LoadFilled, Syncing
  <2>3. UNCHANGED <<slot, overtaken, lastPassedTime>> /\ Rest0
    BY Zenon, <1>4 DEF LoadFilled, History, Rest0, warm, Inv, Types
  <2> QED
    BY Zenon, <1>1, <2>1, <2>2, <2>3, SyncFits DEF Syncing
<1>5. CASE LoadStored(r)
  <2> DEFINE L == [reg[r] EXCEPT !.old = storedTokens]
  <2>1. L \in Locals /\ L.batch = reg[r].batch
    BY Zenon, <1>1 DEF Locals, Types
  <2>2. reg' = [reg EXCEPT ![r] = L] /\ Goto(r, "coolDown") /\ pc[r] \in Syncing
    BY Zenon, <1>5 DEF LoadStored, SetReg, Syncing
  <2>3. UNCHANGED <<slot, overtaken, lastPassedTime>> /\ Rest0
    BY Zenon, <1>5 DEF LoadStored, History, Rest0, warm, Inv, Types
  <2> HIDE DEF L
  <2> QED
    BY Zenon, <2>1, <2>2, <2>3, SyncFits DEF Syncing
<1>6. CASE CoolDown(r)
  <2>1. PICK new \in CoolDownTokens(storedTokens, reg[r].t, reg[r].prev) : SetReg(r, "new", new)
    BY Zenon, <1>6 DEF CoolDown
  <2>2. new \in Int
    <3>1. storedTokens \in Int /\ reg[r].t \in Int /\ reg[r].prev \in Int
      BY Zenon, <1>1 DEF Types, Locals
    <3> QED
      BY Zenon, <3>1, CoolDownType
  <2> DEFINE L == [reg[r] EXCEPT !.new = new]
  <2>3. L \in Locals /\ L.batch = reg[r].batch
    BY Zenon, <1>1, <2>2 DEF Locals
  <2>4. reg' = [reg EXCEPT ![r] = L] /\ Goto(r, "casStored") /\ pc[r] \in Syncing
    BY Zenon, <1>6, <2>1 DEF CoolDown, SetReg, Syncing
  <2>5. UNCHANGED <<slot, overtaken, lastPassedTime>> /\ Rest0
    BY Zenon, <1>6 DEF CoolDown, Rest0, warm, Inv, Types
  <2> HIDE DEF L
  <2> QED
    BY Zenon, <2>3, <2>4, <2>5, SyncFits DEF Syncing
<1>7. CASE CasStored(r) \/ Subtract(r) \/ Zero(r) \/ StoreFilled(r)
  <2>1. reg[r].new \in Int /\ reg[r].prev \in Int /\ reg[r].t \in Int /\ storedTokens \in Int /\ lastFilledTime \in Int
    BY Zenon, <1>1 DEF Types, Locals
  <2>2. storedTokens' \in Int
    BY <1>7, <2>1, FlowAssumption DEF CasStored, Subtract, Zero, StoreFilled, Wrap
  <2>3. lastFilledTime' \in Int
    BY Zenon, <1>7, <2>1 DEF CasStored, Subtract, Zero, StoreFilled
  <2>4. Goto(r, "rest") \/ Goto(r, "subtract") \/ Goto(r, "zero") \/ Goto(r, "storeFilled")
    BY Zenon, <1>7 DEF CasStored, Subtract, Zero, StoreFilled
  <2>5. reg' = [reg EXCEPT ![r] = reg[r]] /\ pc[r] \in Syncing
    BY Zenon, <1>2, <1>7 DEF CasStored, Subtract, Zero, StoreFilled, Syncing
  <2>6. UNCHANGED <<now, rule, passed, slot, overtaken, lastPassedTime>>
    BY Zenon, <1>7 DEF CasStored, Subtract, Zero, StoreFilled, History
  <2>7. Rest0
    BY Zenon, <1>1, <2>2, <2>3, <2>6 DEF Rest0, Types
  <2> QED
    BY Zenon, <1>1, <2>4, <2>5, <2>6, <2>7, SyncFits DEF Syncing
<1>8. CASE Rest(r)
  <2> DEFINE rest == IF storedTokens < 0 THEN 0 ELSE storedTokens
  <2> DEFINE L == Fresh(reg[r].batch, 0, AllowedWith(rest))
  <2>1. rest \in Int
    BY <1>1 DEF Types
  <2>2. reg' = [reg EXCEPT ![r] = L] /\ Goto(r, rule.check) /\ pc[r] = "rest" /\ pc[r] \notin Granted
    BY Zenon, <1>8 DEF Rest, Allow, Granted
  <2>3. UNCHANGED <<slot, overtaken, lastPassedTime>> /\ Rest0
    BY Zenon, <1>8 DEF Rest, History, Rest0, warm, Inv, Types
  <2> HIDE DEF rest
  <2>4. AllowedWith(rest)[1] \in Int /\ AllowedWith(rest)[2] \in Int
        /\ (rule.check = "Throttling" => AllowedWith(rest)[2] >= 1)
    <3>1. rule.calc = "WarmUp"
      BY Zenon, <2>2 DEF Inv, Carries, Syncing
    <3> QED
      BY Zenon, <1>1, <2>1, <3>1, AllowedWithType
  <2>5. reg[r].batch \in Nat /\ reg[r].batch >= 1
    BY Zenon, <2>2, LocalsType DEF InFlight
  <2>6. L \in Locals /\ L.batch >= 1 /\ (rule.check = "Throttling" => L.den >= 1)
    BY <2>4, <2>5 DEF Locals, Fresh
  <2> HIDE DEF L
  <2> QED
    BY Zenon, <2>2, <2>3, <2>6, AllowFits
<1> QED
  BY Zenon, <1>3, <1>4, <1>5, <1>6, <1>7, <1>8

\* The checkers make plain moves until they reserve.
LEMMA CheckerPlain ==
    ASSUME Inv, NEW r \in Req,
           Reject(r) \/ Throttling(r) \/ LoadLast(r) \/ Estimate(r) \/ Wait(r) \/ OnEntryPassed(r)
    PROVE  Plain(r) /\ Rest0
<1>1. Types /\ now \in Int /\ lastPassedTime \in Int /\ reg[r] \in Locals /\ reg \in [Req -> Locals]
  BY FlowAssumption DEF Inv, Types, Times
<1>2. reg = [reg EXCEPT ![r] = reg[r]]
  BY Zenon, <1>1
<1>3. reg[r].batch \in Nat /\ reg[r].num \in Int /\ reg[r].den \in Int /\ reg[r].t \in Int
      /\ reg[r].last \in Int /\ reg[r].len \in Int
  BY Zenon, <1>1 DEF Locals
<1>4. UNCHANGED <<slot, overtaken, lastPassedTime, rule, now>>
  BY Zenon DEF Reject, Throttling, LoadLast, Estimate, Wait, OnEntryPassed, History
<1>5. InFlight(r) /\ pc[r] # "rollBack"
  BY Zenon DEF Reject, Throttling, LoadLast, Estimate, Wait, OnEntryPassed, InFlight
<1>6. Rest0
  <2>1. UNCHANGED warm
    BY Zenon DEF Reject, Throttling, LoadLast, Estimate, Wait, OnEntryPassed
  <2>2. passed' \in [Times -> Int]
    <3>1. passed \in [Times -> Int]
      BY Zenon, <1>1 DEF Types
    <3>2. CASE OnEntryPassed(r)
      BY <3>1, <3>2, <1>3 DEF OnEntryPassed
    <3>3. CASE ~OnEntryPassed(r)
      BY Zenon, <3>1, <3>3 DEF Reject, Throttling, LoadLast, Estimate, Wait
    <3> QED
      BY Zenon, <3>2, <3>3
  <2> QED
    BY Zenon, <2>1, <2>2, <1>1, <1>4 DEF Rest0, Types, warm
<1>7. reg[r].batch >= 1
  BY Zenon, <1>5, LocalsType
<1>8. CASE Return(r, "blocked") \/ Return(r, "passed") \/ Return(r, "done")
  <2>1. Return(r, "blocked") => pc[r] \notin Granted
    <3> SUFFICES ASSUME pc[r] \in Granted, Return(r, "blocked") PROVE FALSE
      OBVIOUS
    <3>1. Wait(r) \/ OnEntryPassed(r)
      BY Zenon DEF Granted, Reject, Throttling, LoadLast, Estimate
    <3>2. pc'[r] \in {"passed", "done"} /\ pc'[r] = "blocked"
      BY Zenon, <3>1, <1>1 DEF Wait, OnEntryPassed, Return, Goto, Types
    <3> QED
      BY Zenon, <3>2
  <2> QED
    BY Zenon, <1>4, <1>5, <1>6, <1>8, <2>1, ReturnFits
<1>9. CASE Throttling(r) /\ ~Return(r, "blocked")
  <2>1. reg[r].num > 0 /\ Goto(r, "loadLast") /\ pc[r] = "Throttling"
        /\ reg' = [reg EXCEPT ![r].t = now, ![r].len = IntervalOf(r)]
    BY Zenon, <1>9 DEF Throttling
  <2>2. reg[r].den >= 1
    BY Zenon, <2>1 DEF Inv, Carries
  <2> DEFINE a == reg[r].batch * reg[r].den * StatInterval
  <2>3. a \in Int /\ a >= 1
    <3>1. reg[r].batch * reg[r].den \in Int /\ reg[r].batch * reg[r].den >= 1
      BY <1>3, <1>7, <2>2
    <3>2. StatInterval \in Int /\ StatInterval >= 1
      BY FlowAssumption
    <3> DEFINE c == reg[r].batch * reg[r].den
    <3> HIDE DEF c
    <3>3. c * StatInterval \in Int /\ c * StatInterval >= 1
      BY <3>1, <3>2 DEF c
    <3> QED
      BY Zenon, <3>3 DEF c
  <2>4. IntervalOf(r) = (a + reg[r].num - 1) \div reg[r].num
    BY Zenon DEF IntervalOf
  <2> HIDE DEF a
  <2>5. IntervalOf(r) \in Int /\ IntervalOf(r) >= 1
    BY <1>3, <2>1, <2>3, <2>4, RoundUp
  <2> DEFINE L == [[reg[r] EXCEPT !.t = now] EXCEPT !.len = IntervalOf(r)]
  <2>6. L \in Locals /\ L.batch = reg[r].batch /\ L.len = IntervalOf(r)
    BY Zenon, <1>1, <2>5 DEF Locals
  <2>7. reg' = [reg EXCEPT ![r] = L]
    BY Zenon, <1>1, <2>1
  <2> HIDE DEF L
  <2>8. Fits("loadLast", L)
    BY Zenon, <1>7, <2>5, <2>6 DEF Fits, Places, Syncing, Queueing
  <2> QED
    BY Zenon, <1>4, <1>5, <1>6, <2>1, <2>7, <2>8 DEF Plain, Goto, Granted
<1>10. CASE LoadLast(r)
  <2> DEFINE L == [reg[r] EXCEPT !.last = lastPassedTime]
  <2> DEFINE p == IF lastPassedTime + reg[r].len <= reg[r].t THEN "casLast" ELSE "estimate"
  <2>1. L \in Locals /\ L.batch = reg[r].batch /\ L.len = reg[r].len /\ L.t = reg[r].t /\ L.last = lastPassedTime
    BY Zenon, <1>1 DEF Locals
  <2>2. reg' = [reg EXCEPT ![r] = L] /\ Goto(r, p) /\ pc[r] = "loadLast"
    BY Zenon, <1>10 DEF LoadLast, SetReg
  <2>3. reg[r].len >= 1
    BY Zenon, <2>2 DEF Inv, Positive, Queueing
  <2> HIDE DEF L
  <2>4. Fits(p, L)
    BY Zenon, <1>7, <2>1, <2>3 DEF Fits, Places, Syncing, Queueing
  <2>5. p # "rollBack"
    OBVIOUS
  <2> HIDE DEF p
  <2> QED
    BY Zenon, <1>4, <1>5, <1>6, <2>2, <2>4, <2>5 DEF Plain, Goto, Granted
<1>11. CASE Estimate(r) /\ ~Return(r, "blocked")
  <2>1. reg' = [reg EXCEPT ![r] = reg[r]] /\ Goto(r, "addLast") /\ pc[r] = "estimate"
    BY Zenon, <1>2, <1>11 DEF Estimate
  <2>2. reg[r].len >= 1
    BY Zenon, <2>1 DEF Inv, Positive, Queueing
  <2>3. Fits("addLast", reg[r])
    BY Zenon, <1>1, <1>7, <2>2 DEF Fits, Places, Syncing, Queueing
  <2> QED
    BY Zenon, <1>4, <1>5, <1>6, <2>1, <2>3 DEF Plain, Goto, Granted
<1>12. Reject(r) \/ Wait(r) \/ OnEntryPassed(r) => Return(r, "blocked") \/ Return(r, "passed") \/ Return(r, "done")
  BY Zenon DEF Reject, Wait, OnEntryPassed
<1> QED
  BY Zenon, <1>8, <1>9, <1>10, <1>11, <1>12

\* Passing by a swap reserves the present.
LEMMA CasLastInv == ASSUME Inv, NEW r \in Req, CasLast(r) PROVE Inv'
<1>1. Types /\ reg[r] \in Locals /\ lastPassedTime \in Int /\ slot \in [Req -> [at : Int, len : Int]]
  BY Zenon DEF Inv, Types
<1>2. reg[r].t \in Int /\ reg[r].len \in Int /\ reg[r].len >= 1 /\ reg[r].last + reg[r].len <= reg[r].t
      /\ reg[r].batch >= 1 /\ pc[r] = "casLast" /\ reg[r].batch \in Nat
  BY Zenon, <1>1, LocalsType DEF Locals, Inv, Positive, Queueing, CasLast, InFlight
<1>3. UNCHANGED <<now, rule, warm, passed, overtaken>>
  BY Zenon DEF CasLast
<1>4. CASE lastPassedTime = reg[r].last
  <2> DEFINE L == Fresh(reg[r].batch, 0, None)
  <2> DEFINE g == [at |-> reg[r].t, len |-> reg[r].len]
  <2>1. pc' = [pc EXCEPT ![r] = "passed"] /\ reg' = [reg EXCEPT ![r] = L]
        /\ slot' = [slot EXCEPT ![r] = g] /\ lastPassedTime' = reg[r].t
    BY Zenon, <1>4 DEF CasLast, Return, Goto, Grant
  <2>2. L \in Locals /\ L.batch = reg[r].batch
    BY <1>2 DEF Fresh, None, Locals
  <2>3. g \in [at : Int, len : Int] /\ g.len >= 1
    BY Zenon, <1>2
  <2> HIDE DEF L, g
  <2>4. slot' \in [Req -> [at : Int, len : Int]]
        /\ \A q \in Req : slot'[q] # NoSlot => slot'[q].len >= 1 /\ pc'[q] \in Granted
    BY Zenon, <1>1, <2>1, <2>3 DEF Inv, Positive, Types, Granted
  <2>5. Fits("passed", L)
    BY Zenon, <1>2, <2>2 DEF Fits, Places, Syncing, Queueing
  <2>6. Rest0
    BY Zenon, <1>1, <1>2, <1>3, <2>1 DEF Rest0, Types, warm
  <2>7. Core'
    <3>1. Core
      BY Zenon DEF Inv, Core
    <3> QED
      BY Zenon, <2>1, <2>4, <2>5, <2>6, <3>1, MoveCore
  <2> DEFINE h == [at |-> reg[r].t, len |-> reg[r].len, by |-> r]
  <2>8. Held' \subseteq Held \cup {h}
    <3>1. \A q \in Req : q # r => pc'[q] = pc[q] /\ reg'[q] = reg[q] /\ slot'[q] = slot[q]
      BY Zenon, <1>1, <2>1 DEF Types
    <3>2. pc'[r] # "rollBack" /\ slot'[r] = [at |-> reg[r].t, len |-> reg[r].len]
      BY Zenon, <1>1, <2>1 DEF Types, g
    <3> QED
      BY <3>1, <3>2 DEF Held
  <2>9. Latest' /\ SpacedUnlessOvertaken'
    <3>1. h.at = reg[r].t /\ h.len = reg[r].len
      OBVIOUS
    <3> HIDE DEF h
    <3> QED
      BY Zenon, <1>2, <1>3, <1>4, <2>1, <2>8, <3>1, Reserve
  <2> QED
    BY Zenon, <2>7, <2>9 DEF Core, Inv
<1>5. CASE lastPassedTime # reg[r].last
  <2>1. pc' = [pc EXCEPT ![r] = "estimate"] /\ reg' = [reg EXCEPT ![r] = reg[r]]
        /\ UNCHANGED <<slot, lastPassedTime>>
    BY Zenon, <1>1, <1>5 DEF CasLast, Goto, Types
  <2>2. Fits("estimate", reg[r])
    BY Zenon, <1>1, <1>2 DEF Fits, Places, Syncing, Queueing
  <2>3. Plain(r)
    BY Zenon, <1>2, <1>3, <2>1, <2>2 DEF Plain, Granted
  <2>4. Rest0
    BY Zenon, <1>1, <1>3, <2>1 DEF Rest0, Types, warm
  <2> QED
    BY Zenon, <2>3, <2>4, PlainInv
<1> QED
  BY Zenon, <1>4, <1>5

\* Queueing reserves the next place, whether the request waits for it or has to
\* take it back.
LEMMA AddLastInv == ASSUME Inv, NEW r \in Req, AddLast(r) PROVE Inv'
<1>1. Types /\ reg[r] \in Locals /\ lastPassedTime \in Int /\ slot \in [Req -> [at : Int, len : Int]]
      /\ reg \in [Req -> Locals]
  BY Zenon DEF Inv, Types
<1>2. reg[r].len \in Int /\ reg[r].len >= 1 /\ reg[r].batch >= 1 /\ pc[r] = "addLast"
  BY Zenon, <1>1, LocalsType DEF Locals, Inv, Positive, Queueing, AddLast, InFlight
<1>3. UNCHANGED <<now, rule, warm, passed, overtaken>> /\ lastPassedTime' = lastPassedTime + reg[r].len
  BY Zenon DEF AddLast
<1>4. lastPassedTime' \in Int
  BY <1>1, <1>2, <1>3
<1>5. Rest0 /\ Core
  BY Zenon, <1>1, <1>3, <1>4 DEF Rest0, Types, warm, Inv, Core
<1> DEFINE h == [at |-> lastPassedTime', len |-> reg[r].len, by |-> r]
<1>6. h.at = lastPassedTime' /\ h.len = reg[r].len
  OBVIOUS
<1>7. Held' \subseteq Held \cup {h} => Latest' /\ SpacedUnlessOvertaken'
  <2> HIDE DEF h
  <2> QED
    BY <1>1, <1>2, <1>3, <1>4, <1>6, Reserve
<1>8. CASE SetReg(r, "last", lastPassedTime') /\ Goto(r, "rollBack") /\ UNCHANGED slot
  <2> DEFINE L == [reg[r] EXCEPT !.last = lastPassedTime']
  <2>1. L \in Locals /\ L.batch = reg[r].batch /\ L.len = reg[r].len /\ L.last = lastPassedTime'
    BY Zenon, <1>1, <1>4 DEF Locals
  <2>2. reg' = [reg EXCEPT ![r] = L] /\ pc' = [pc EXCEPT ![r] = "rollBack"]
    BY Zenon, <1>8 DEF SetReg, Goto
  <2> HIDE DEF L
  <2>3. Fits("rollBack", L)
    BY Zenon, <1>2, <2>1 DEF Fits, Places, Syncing, Queueing
  <2>4. slot' \in [Req -> [at : Int, len : Int]]
        /\ \A q \in Req : slot'[q] # NoSlot => slot'[q].len >= 1 /\ pc'[q] \in Granted
    BY Zenon, <1>1, <1>2, <1>8, <2>2 DEF Inv, Positive, Types, Granted
  <2>5. Core'
    BY Zenon, <1>5, <2>2, <2>3, <2>4, MoveCore
  <2>6. Held' \subseteq Held \cup {h}
    <3>1. \A q \in Req : q # r => pc'[q] = pc[q] /\ reg'[q] = reg[q] /\ slot'[q] = slot[q]
      BY Zenon, <1>1, <1>8, <2>2 DEF Types
    <3>2. slot'[r] = slot[r] /\ reg'[r].last = lastPassedTime' /\ reg'[r].len = reg[r].len
      BY Zenon, <1>1, <1>8, <2>1, <2>2 DEF Types
    <3> QED
      BY Zenon, <3>1, <3>2 DEF Held
  <2> QED
    BY Zenon, <1>7, <2>5, <2>6 DEF Core, Inv
<1>9. CASE Grant(r, lastPassedTime') /\ Goto(r, "wait") /\ UNCHANGED reg
  <2> DEFINE g == [at |-> lastPassedTime', len |-> reg[r].len]
  <2>1. slot' = [slot EXCEPT ![r] = g] /\ pc' = [pc EXCEPT ![r] = "wait"] /\ reg' = [reg EXCEPT ![r] = reg[r]]
    BY Zenon, <1>1, <1>9 DEF Grant, Goto
  <2>2. g \in [at : Int, len : Int] /\ g.len >= 1
    BY Zenon, <1>2, <1>4
  <2> HIDE DEF g
  <2>3. slot' \in [Req -> [at : Int, len : Int]]
        /\ \A q \in Req : slot'[q] # NoSlot => slot'[q].len >= 1 /\ pc'[q] \in Granted
    BY Zenon, <1>1, <2>1, <2>2 DEF Inv, Positive, Types, Granted
  <2>4. Fits("wait", reg[r])
    BY Zenon, <1>1, <1>2 DEF Fits, Places, Syncing, Queueing
  <2>5. Core'
    BY Zenon, <1>5, <2>1, <2>3, <2>4, MoveCore
  <2>6. Held' \subseteq Held \cup {h}
    <3>1. \A q \in Req : q # r => pc'[q] = pc[q] /\ reg'[q] = reg[q] /\ slot'[q] = slot[q]
      BY Zenon, <1>1, <2>1 DEF Types
    <3>2. pc'[r] # "rollBack" /\ slot'[r] = [at |-> lastPassedTime', len |-> reg[r].len]
      BY Zenon, <1>1, <2>1 DEF Types, g
    <3> QED
      BY <3>1, <3>2 DEF Held
  <2> QED
    BY Zenon, <1>7, <2>5, <2>6 DEF Core, Inv
<1> QED
  BY Zenon, <1>8, <1>9 DEF AddLast

\* Taking the last reservation back leaves all others in front of lastPassedTime.
LEMMA RollBackInv == ASSUME Inv, NEW r \in Req, RollBack(r) PROVE Inv'
<1>1. Types /\ reg[r] \in Locals /\ lastPassedTime \in Int /\ slot \in [Req -> [at : Int, len : Int]]
      /\ reg \in [Req -> Locals]
  BY Zenon DEF Inv, Types
<1>2. reg[r].len \in Int /\ reg[r].len >= 1 /\ pc[r] = "rollBack" /\ slot[r] = NoSlot
  BY Zenon, <1>1 DEF Locals, Inv, Positive, Queueing, RollBack, Granted
<1>3. UNCHANGED <<now, rule, warm, passed, slot>> /\ lastPassedTime' = lastPassedTime - reg[r].len
      /\ overtaken' = (overtaken \/ lastPassedTime # reg[r].last)
      /\ pc' = [pc EXCEPT ![r] = "blocked"] /\ reg' = [reg EXCEPT ![r] = NoLocals]
  BY Zenon DEF RollBack, Return, Goto
<1>4. Core'
  <2>1. Rest0 /\ Core
    BY <1>1, <1>2, <1>3 DEF Rest0, Types, warm, Inv, Core
  <2>2. Fits("blocked", NoLocals)
    BY Zenon, LocalsType DEF Fits, Places, Syncing, Queueing
  <2>3. slot' \in [Req -> [at : Int, len : Int]]
        /\ \A q \in Req : slot'[q] # NoSlot => slot'[q].len >= 1 /\ pc'[q] \in Granted
    BY Zenon, <1>1, <1>2, <1>3 DEF Inv, Positive, Types, Granted
  <2> QED
    BY Zenon, <1>3, <2>1, <2>2, <2>3, MoveCore
<1>5. \A q \in Req : q # r => pc'[q] = pc[q] /\ reg'[q] = reg[q] /\ slot'[q] = slot[q]
  BY Zenon, <1>1, <1>3 DEF Types
<1>6. pc'[r] = "blocked" /\ slot'[r] = NoSlot
  BY Zenon, <1>1, <1>2, <1>3 DEF Types
<1>7. \A k \in Held' : k \in Held /\ k.by # r
  BY <1>5, <1>6 DEF Held
<1>8. \A k \in Held : k.at \in Int /\ k.len \in Int /\ k.len >= 1
  BY <1>1 DEF Inv, Positive, Types, Held, Locals, Queueing
<1> SUFFICES ASSUME ~overtaken'
             PROVE  /\ \A k \in Held' : k.at <= lastPassedTime'
                    /\ \A i, k \in Held' : i = k \/ i.at - k.at >= i.len \/ k.at - i.at >= k.len
  BY Zenon, <1>4 DEF Inv, Core, Latest, SpacedUnlessOvertaken
<1>9. ~overtaken /\ lastPassedTime = reg[r].last
  BY Zenon, <1>3
<1> DEFINE h == [at |-> reg[r].last, len |-> reg[r].len, by |-> r]
<1>10. h \in Held /\ h.at = lastPassedTime /\ h.len = reg[r].len /\ h.by = r
  BY Zenon, <1>2, <1>9 DEF Held
<1> HIDE DEF h
<1>11. \A k \in Held' : k.at <= lastPassedTime'
  <2> SUFFICES ASSUME NEW k \in Held' PROVE k.at <= lastPassedTime'
    OBVIOUS
  <2>1. k \in Held /\ k # h
    BY Zenon, <1>7, <1>10
  <2>2. k.at <= lastPassedTime
    BY Zenon, <1>9, <2>1 DEF Inv, Latest
  <2>3. k.at - h.at >= k.len \/ h.at - k.at >= h.len
    BY Zenon, <1>9, <1>10, <2>1 DEF Inv, SpacedUnlessOvertaken
  <2> QED
    BY <1>1, <1>2, <1>3, <1>8, <1>10, <2>1, <2>2, <2>3
<1>12. \A i, k \in Held' : i = k \/ i.at - k.at >= i.len \/ k.at - i.at >= k.len
  BY Zenon, <1>7, <1>9 DEF Inv, SpacedUnlessOvertaken
<1> QED
  BY Zenon, <1>11, <1>12

\* Time passes.
LEMMA TickInv == ASSUME Inv, Tick PROVE Inv'
<1>1. now' \in Times
  BY FlowAssumption DEF Tick, Inv, Types, Times
<1>2. UNCHANGED <<rule, warm, lastPassedTime, passed, pc, reg, slot, overtaken>>
  BY Zenon DEF Tick, History
<1>3. Held' = Held
  BY Zenon, <1>2 DEF Held
<1> QED
  BY Zenon, <1>1, <1>2, <1>3 DEF Inv, Types, Carries, Positive, Latest, SpacedUnlessOvertaken, InFlight, warm

\* The invariant holds initially.
LEMMA InitInv == Init => Inv
<1> SUFFICES ASSUME Init PROVE Inv
  OBVIOUS
<1>1. NoLocals \in Locals /\ NoSlot \in [at : Int, len : Int]
  BY DEF NoLocals, Fresh, None, Locals, NoSlot
<1>2. Types
  BY <1>1, FlowAssumption DEF Init, Types, Times, Places
<1>3. \A r \in Req : pc[r] = "new" /\ slot[r] = NoSlot
  BY Zenon DEF Init
<1>4. Held = {}
  BY Zenon, <1>3 DEF Held
<1> QED
  BY Zenon, <1>2, <1>3, <1>4
     DEF Inv, Carries, Positive, Latest, SpacedUnlessOvertaken, InFlight, Syncing, Queueing

\* Every step keeps the invariant.
LEMMA NextInv == Inv /\ [Next]_vars => Inv'
<1> SUFFICES ASSUME Inv, [Next]_vars PROVE Inv'
  OBVIOUS
<1>1. CASE Tick
  BY Zenon, <1>1, TickInv
<1>2. ASSUME NEW r \in Req, NEW b \in Batches, Check(r, b) PROVE Inv'
  BY Zenon, <1>2, CheckPlain, PlainInv
<1>3. ASSUME NEW r \in Req, Step(r) PROVE Inv'
  <2>1. CASE CasLast(r)
    BY Zenon, <2>1, CasLastInv
  <2>2. CASE AddLast(r)
    BY Zenon, <2>2, AddLastInv
  <2>3. CASE RollBack(r)
    BY Zenon, <2>3, RollBackInv
  <2>4. CASE Reject(r) \/ Throttling(r) \/ LoadLast(r) \/ Estimate(r) \/ Wait(r) \/ OnEntryPassed(r)
    BY Zenon, <2>4, CheckerPlain, PlainInv
  <2>5. CASE \/ SyncToken(r) \/ LoadFilled(r) \/ LoadStored(r) \/ CoolDown(r) \/ CasStored(r)
             \/ Subtract(r) \/ Zero(r) \/ StoreFilled(r) \/ Rest(r)
    BY Zenon, <2>5, SyncPlain, PlainInv
  <2> QED
    BY Zenon, <1>3, <2>1, <2>2, <2>3, <2>4, <2>5 DEF Step
<1>4. CASE UNCHANGED vars
  <2>1. UNCHANGED <<now, rule, warm, lastPassedTime, passed, pc, reg, slot, overtaken>>
    BY Zenon, <1>4 DEF vars
  <2>2. Held' = Held
    BY Zenon, <2>1 DEF Held
  <2> QED
    BY Zenon, <2>1, <2>2 DEF Inv, Types, Carries, Positive, Latest, SpacedUnlessOvertaken, InFlight, warm
<1> QED
  BY Zenon, <1>1, <1>2, <1>3, <1>4 DEF Next

\* Requests granted by the throttling checker are at least one interval apart until
\* a reservation is taken back after a later one was made (DoCheck's last AddInt64).
THEOREM Spacing == Spec => []SpacedUnlessOvertaken
<1>1. Inv => SpacedUnlessOvertaken
  BY Zenon DEF Inv
<1> QED
  BY InitInv, NextInv, <1>1, PTL DEF Spec
=============================================================================
