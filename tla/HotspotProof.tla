----------------------------- MODULE HotspotProof -----------------------------
(***************************************************************************)
(* What core/hotspot keeps, for any number of requests, values, goroutines  *)
(* and rules: Base holds in every state, which takes the pigeonhole         *)
(* principle for the cells; the concurrency counters are exact; and the     *)
(* four properties of Hotspot follow.                                       *)
(***************************************************************************)
EXTENDS HotspotRaceProof

\* A step that does not name another prover is first-order reasoning.
USE Zenon

----------------------------------------------------------------------------
(* Types and pointers                                                        *)

\* 0 is the nil pointer.
LEMMA ZeroIsNoCell == 0 \notin Cells
BY SMT DEF Cells

\* A step keeps them in order, and starts at most one goroutine, when it may.
BusyGrows == Busy' \subseteq Busy \/ (Turn /\ \E r \in Req : Busy' \subseteq Busy \cup {r})
Kept == TypeOK' /\ Placed' /\ NoAlias' /\ BusyGrows

\* The pointers stay in order in every step.
LEMMA BaseNext ==
    ASSUME Base, [Next]_vars
    PROVE  Kept
\* A step that points to nothing new but the fresh cell, from value k, and from a
\* time or from a count, keeps the pointers apart.
<1>AliasStep.
      ASSUME Base, NEW k \in Args, NEW new \in BOOLEAN,
             \A a \in Args, c \in Cells :
                 TimeRef(a, c)' => TimeRef(a, c) \/ (new /\ a = k /\ c = Fresh),
             \A a \in Args, c \in Cells :
                 CountRef(a, c)' => CountRef(a, c) \/ (~new /\ a = k /\ c = Fresh)
      PROVE  NoAlias'
  <2> USE <1>AliasStep
  <2>1. \A a \in Args : ~TimeRef(a, Fresh) /\ ~CountRef(a, Fresh)
    BY RefsAreHeld DEF Base, Shape
  <2> SUFFICES ASSUME NEW a \in Args, NEW b \in Args, NEW c \in Cells
               PROVE  /\ TimeRef(a, c)' /\ TimeRef(b, c)' => a = b
                      /\ CountRef(a, c)' /\ CountRef(b, c)' => a = b
                      /\ ~(TimeRef(a, c)' /\ CountRef(b, c)')
    BY DEF NoAlias
  <2>2. /\ TimeRef(a, c) /\ TimeRef(b, c) => a = b
        /\ CountRef(a, c) /\ CountRef(b, c) => a = b
        /\ ~(TimeRef(a, c) /\ CountRef(b, c))
    BY DEF Base, Shape, NoAlias
  <2>3. \A v \in {a, b} :
          /\ TimeRef(v, c)' => TimeRef(v, c) \/ (new /\ v = k /\ c = Fresh)
          /\ CountRef(v, c)' => CountRef(v, c) \/ (~new /\ v = k /\ c = Fresh)
    OBVIOUS
  <2>4. CASE c = Fresh
    <3>1. ~TimeRef(a, c) /\ ~TimeRef(b, c) /\ ~CountRef(a, c) /\ ~CountRef(b, c)
      BY <2>1, <2>4
    <3> QED BY <2>3, <3>1
  <2>5. CASE c # Fresh
    BY <2>2, <2>3, <2>5
  <2> QED
    BY <2>4, <2>5
\* The pointers after a step of request r to n.
<1>RefStep.
      ASSUME Base, NEW r \in Req, NEW n \in Request, req' = [req EXCEPT ![r] = n],
             NEW k \in Args, NEW new \in BOOLEAN,
             CacheStep(times, times', k, new),
             CacheStep(tokens, tokens', k, ~new), CacheStep(conc, conc', k, ~new),
             n.timePtr = 0 \/ TimeRef(n.arg, n.timePtr)
                 \/ (new /\ n.arg = k /\ n.timePtr = Fresh),
             n.ptr = 0 \/ CountRef(n.arg, n.ptr)
      PROVE  NoAlias'
  <2> USE <1>RefStep
  <2>1. \A q \in Req : req'[q] = IF q = r THEN n ELSE req[q]
    BY DEF Base, Shape, TypeOK
  <2>2. ASSUME NEW c \in Cells
        PROVE  c # 0
    BY ZeroIsNoCell
  <2>3. ASSUME NEW a \in Args, NEW c \in Cells, TimeRef(a, c)'
        PROVE  TimeRef(a, c) \/ (new /\ a = k /\ c = Fresh)
    <3>1. CASE \E q \in Req : req'[q].arg = a /\ req'[q].timePtr = c
      <4>1. PICK q \in Req : req'[q].arg = a /\ req'[q].timePtr = c
        BY <3>1
      <4>2. CASE q = r
        BY <2>1, <2>2, <4>1, <4>2
      <4>3. CASE q # r
        BY <2>1, <4>1, <4>3 DEF TimeRef
      <4> QED BY <4>2, <4>3
    <3>2. CASE Has(times', a) /\ CellOf(times', a) = c
      BY <3>2 DEF CacheStep, TimeRef
    <3> QED BY <2>3, <3>1, <3>2 DEF TimeRef
  <2>4. ASSUME NEW a \in Args, NEW c \in Cells, CountRef(a, c)'
        PROVE  CountRef(a, c) \/ (~new /\ a = k /\ c = Fresh)
    <3>1. CASE \E q \in Req : req'[q].arg = a /\ req'[q].ptr = c
      <4>1. PICK q \in Req : req'[q].arg = a /\ req'[q].ptr = c
        BY <3>1
      <4>2. CASE q = r
        BY <2>1, <2>2, <4>1, <4>2
      <4>3. CASE q # r
        BY <2>1, <4>1, <4>3 DEF CountRef
      <4> QED BY <4>2, <4>3
    <3>2. CASE Has(tokens', a) /\ CellOf(tokens', a) = c
      BY <3>2 DEF CacheStep, CountRef
    <3>3. CASE Has(conc', a) /\ CellOf(conc', a) = c
      BY <3>3 DEF CacheStep, CountRef
    <3> QED BY <2>4, <3>1, <3>2, <3>3 DEF CountRef
  <2> QED
    BY <2>3, <2>4, <1>AliasStep
\* A request that starts a goroutine does so when it may.
<1>BusyStep.
      ASSUME TypeOK, NEW r \in Req, NEW n, req' = [req EXCEPT ![r] = n],
             n.pc \in Resting \/ req[r].pc \notin Resting \/ Turn
      PROVE  BusyGrows
  <2> USE <1>BusyStep
  <2>1. (\A q \in Req \ {r} : req'[q] = req[q]) /\ req'[r] = n
    BY DEF TypeOK
  <2>2. CASE n.pc \in Resting \/ req[r].pc \notin Resting
    BY <2>1, <2>2 DEF Busy, BusyGrows
  <2>3. CASE Turn
    <3>1. Busy' \subseteq Busy \cup {r}
      BY <2>1 DEF Busy
    <3> QED BY <2>3, <3>1 DEF BusyGrows
  <2> QED
    BY <2>2, <2>3
\* What a step of request r to n has to show to keep the pointers in order.
<1>BaseStep.
      ASSUME Base, NEW r \in Req, NEW n \in Request, req' = [req EXCEPT ![r] = n],
             rule' = rule, clock' \in Nat, Fits(n),
             n.pc \in Resting \/ req[r].pc \notin Resting \/ Turn,
             NEW k \in Args, NEW new \in BOOLEAN,
             CacheStep(times, times', k, new),
             CacheStep(tokens, tokens', k, ~new), CacheStep(conc, conc', k, ~new),
             n.timePtr = 0 \/ TimeRef(n.arg, n.timePtr)
                 \/ (new /\ n.arg = k /\ n.timePtr = Fresh),
             n.ptr = 0 \/ CountRef(n.arg, n.ptr),
             heap' \in [Cells -> Int],
             refill' \in [Args -> [at : Nat, before : Nat, passed : Nat]],
             slots' \in [Args -> SUBSET [at : Int, cost : Int, by : Req]],
             Unused'
      PROVE  Kept
  <2> USE <1>BaseStep
  <2>1. req' \in [Req -> Request]
    BY DEF Base, Shape, TypeOK
  <2>2. \A q \in Req : req'[q] = IF q = r THEN n ELSE req[q]
    BY DEF Base, Shape, TypeOK
  <2>3. TypeOK'
    BY <2>1 DEF Base, Shape, TypeOK, CacheStep
  <2>4. \A q \in Req : Fits(req[q])'
    BY ZenonT(40), <2>2 DEF Base, Shape, Placed, Fits, Limit
  <2>5. BusyGrows
    BY <1>BusyStep DEF Base, Shape
  <2>6. NoAlias'
    BY <1>RefStep
  <2> QED
    BY <2>3, <2>4, <2>5, <2>6 DEF Kept, Placed
\* A step that leaves the caches alone.
<1>QuietStep.
      ASSUME Base, NEW r \in Req, NEW n \in Request, req' = [req EXCEPT ![r] = n],
             UNCHANGED <<rule, clock, times, tokens, conc>>, Fits(n),
             n.pc \in Resting \/ req[r].pc \notin Resting \/ Turn,
             n.timePtr = 0 \/ (n.arg = req[r].arg /\ n.timePtr = req[r].timePtr),
             n.ptr = 0 \/ (n.arg = req[r].arg /\ n.ptr = req[r].ptr),
             heap' \in [Cells -> Int],
             refill' \in [Args -> [at : Nat, before : Nat, passed : Nat]],
             slots' \in [Args -> SUBSET [at : Int, cost : Int, by : Req]],
             rule.behavior # "Reject" => refill' = refill,
             rule.behavior # "Throttling" => slots' = slots
      PROVE  Kept
  <2> USE <1>QuietStep
  <2>1. Cache(times) /\ Cache(tokens) /\ Cache(conc) /\ clock' \in Nat
    BY DEF Base, Shape, TypeOK
  <2>2. n.arg \in Args
    BY SMT DEF Request
  <2>3. /\ CacheStep(times, times', n.arg, TRUE)
        /\ CacheStep(tokens, tokens', n.arg, ~TRUE) /\ CacheStep(conc, conc', n.arg, ~TRUE)
    <3>1. times' = times /\ tokens' = tokens /\ conc' = conc
      OBVIOUS
    <3>2. ASSUME NEW b \in BOOLEAN, NEW c, Cache(c)
          PROVE  CacheStep(c, c, n.arg, b)
      BY <2>2, <3>2, CacheSteps
    <3> QED BY <2>1, <3>1, <3>2
  <2>4. n.timePtr = 0 \/ TimeRef(n.arg, n.timePtr)
    BY DEF TimeRef
  <2>5. n.ptr = 0 \/ CountRef(n.arg, n.ptr)
    BY DEF CountRef
  <2>6. Unused'
    BY DEF Base, Shape, Placed, Unused
  <2> QED
    BY <2>1, <2>2, <2>3, <2>4, <2>5, <2>6, <1>BaseStep
\* Slot.Check starts a goroutine when it may.
<1>BaseCheck.
      ASSUME Base, NEW r \in Req, Check(r)
      PROVE  Kept
  <2> USE <1>BaseCheck
  <2>1. PICK n \in Request :
          /\ req' = [req EXCEPT ![r] = n]
          /\ n.timePtr = 0 /\ n.ptr = 0
          /\ \/ n.pc = "count" /\ rule.behavior = "Concurrency"
             \/ n.pc = "blocked"
             \/ n.pc = "reject" /\ rule.behavior = "Reject" /\ Limit(n.arg) > 0
             \/ n.pc = "throttle" /\ rule.behavior = "Throttling" /\ Limit(n.arg) > 0
    BY CheckShape
  <2>2. Fits(n)
    BY SMT, <2>1 DEF Fits, HoldsCount, HoldsTime, ConcPcs, RejectPcs, ThrottlePcs
  <2>3. UNCHANGED <<rule, clock, times, tokens, conc, heap, refill, slots>> /\ Turn
    BY DEF Check, caches, ghosts
  <2> QED
    BY <2>1, <2>2, <2>3, <1>QuietStep DEF Base, Shape, TypeOK
\* The clock.
<1>BaseTick.
      ASSUME Base, Tick
      PROVE  Kept
  <2> USE <1>BaseTick
  <2>1. clock' \in Nat /\ UNCHANGED <<rule, times, tokens, conc, heap, req, refill, slots>>
    BY SMT DEF Base, Shape, TypeOK, Tick, caches, ghosts
  <2>2. TypeOK'
    BY <2>1 DEF Base, Shape, TypeOK
  <2>3. Placed' /\ BusyGrows
    BY <2>1 DEF Base, Shape, Placed, Fits, Limit, Unused, BusyGrows, Busy
  <2>4. NoAlias'
    <3>1. ASSUME NEW a \in Args, NEW c \in Cells
          PROVE  (TimeRef(a, c)' <=> TimeRef(a, c)) /\ (CountRef(a, c)' <=> CountRef(a, c))
      BY <2>1 DEF TimeRef, CountRef
    <3> QED BY <3>1 DEF Base, Shape, NoAlias
  <2> QED
    BY <2>2, <2>3, <2>4 DEF Kept
\* New variables are stored in the fresh cell.
<1>StoredType.
      ASSUME Base, NEW c, NEW a, NEW v \in Int
      PROVE  Stored(c, a, v) \in [Cells -> Int]
  <2> USE <1>StoredType
  <2>1. heap \in [Cells -> Int]
    BY DEF Base, Shape, TypeOK
  <2> QED
    BY <2>1 DEF Stored
\* A request looks the counter up, or puts it in.
<1>BaseCountFirst.
      ASSUME Base, NEW r \in Req, CountFirst(r)
      PROVE  Kept
  <2> USE <1>BaseCountFirst
  <2> DEFINE a == req[r].arg
             n == IF Has(conc, a) THEN [req[r] EXCEPT !.pc = "load", !.ptr = CellOf(conc, a)]
                                  ELSE [req[r] EXCEPT !.pc = "admitted"]
  <2>1. /\ req[r].pc = "count" /\ req' = [req EXCEPT ![r] = n]
        /\ conc' = AddIfAbsent(conc, a, Fresh) /\ heap' = Stored(conc, a, 0)
        /\ UNCHANGED <<rule, clock, times, tokens, refill, slots>>
    BY DEF CountFirst, At, Set, Goto
  <2>2. a \in Args /\ req[r] \in Request /\ Fits(req[r])
    BY ReqFact
  <2>3. Cache(times) /\ Cache(tokens) /\ Cache(conc)
    BY DEF Base, Shape, TypeOK
  <2>4. rule.behavior = "Concurrency" /\ req[r].ptr = 0 /\ req[r].timePtr = 0
    BY SMT, <2>1, <2>2 DEF Fits, ConcPcs, HoldsCount, HoldsTime
  <2>5. Has(conc, a) => CellOf(conc, a) \in Cells /\ CellOf(conc, a) # 0
    BY <2>2, <2>3, ZeroIsNoCell, CellType
  <2> HIDE DEF a
  <2>6. /\ n \in Request /\ n.arg = a /\ n.timePtr = 0
        /\ \/ n.pc = "load" /\ Has(conc, a) /\ n.ptr = CellOf(conc, a) /\ n.ptr # 0
           \/ n.pc = "admitted" /\ n.ptr = 0
    <3>1. CASE Has(conc, a)
      BY <3>1, <2>2, <2>4, <2>5 DEF Request, a, Pcs, ConcPcs
    <3>2. CASE ~Has(conc, a)
      BY SMT, <3>2, <2>2, <2>4 DEF Request, a, Pcs, ConcPcs
    <3> QED BY <3>1, <3>2
  <2> HIDE DEF n
  <2>7. Fits(n) /\ req[r].pc \notin Resting
    BY SMT, <2>1, <2>4, <2>6 DEF Fits, HoldsCount, HoldsTime, ConcPcs, RejectPcs, ThrottlePcs,
       Resting
  <2>8. /\ CacheStep(times, times', a, FALSE)
        /\ CacheStep(tokens, tokens', a, ~FALSE) /\ CacheStep(conc, conc', a, ~FALSE)
    BY <2>1, <2>2, <2>3, CacheSteps
  <2>9. n.ptr = 0 \/ CountRef(n.arg, n.ptr)
    BY <2>6 DEF CountRef
  <2>10. Unused'
    BY <2>1, <2>4 DEF Base, Shape, Placed, Unused
  <2>11. heap' \in [Cells -> Int]
    <3>1. 0 \in Int
      BY SMT
    <3> QED BY <2>1, <3>1, <1>StoredType
  <2> QED
    BY <2>1, <2>2, <2>6, <2>7, <2>8, <2>9, <2>10, <2>11, <1>BaseStep DEF Base, Shape, TypeOK
\* A request compares the counter with the limit.
<1>BaseCheckConcurrency.
      ASSUME Base, NEW r \in Req, CheckConcurrency(r)
      PROVE  Kept
  <2> USE <1>BaseCheckConcurrency
  <2> DEFINE a == req[r].arg
             m == [req[r] EXCEPT !.pc = "admitted", !.ptr = 0]
  <2>1. /\ req[r].pc = "load"
        /\ req' = [req EXCEPT ![r] = m] \/ req' = [req EXCEPT ![r] = Rest("blocked", a)]
        /\ UNCHANGED <<rule, clock, times, tokens, conc, heap, refill, slots>>
    BY DEF CheckConcurrency, At, Set, End, caches, ghosts
  <2>2. a \in Args /\ req[r] \in Request /\ Fits(req[r])
    BY ReqFact
  <2>3. rule.behavior = "Concurrency" /\ req[r].timePtr = 0 /\ req[r].pc \notin Resting
    BY SMT, <2>1, <2>2 DEF Fits, ConcPcs, HoldsTime, Resting
  <2>4. m \in Request /\ m.pc = "admitted" /\ m.ptr = 0 /\ m.timePtr = 0
    BY <2>2, <2>3 DEF Request, Pcs, ConcPcs
  <2> HIDE DEF m
  <2>5. Fits(m)
    BY SMT, <2>3, <2>4 DEF Fits, HoldsCount, HoldsTime, ConcPcs, RejectPcs, ThrottlePcs
  <2>6. /\ Rest("blocked", a) \in Request /\ Fits(Rest("blocked", a))
        /\ Rest("blocked", a).timePtr = 0 /\ Rest("blocked", a).ptr = 0
    <3>1. "blocked" \in Pcs /\ "blocked" \notin HoldsCount /\ "blocked" \notin HoldsTime
          /\ "blocked" \notin ConcPcs /\ "blocked" \notin RejectPcs /\ "blocked" \notin ThrottlePcs
      BY SMT DEF Pcs, HoldsCount, HoldsTime, ConcPcs, RejectPcs, ThrottlePcs
    <3> QED BY <2>2, <3>1, EndFits
  <2> QED
    BY <2>1, <2>3, <2>4, <2>5, <2>6, <1>QuietStep DEF Base, Shape, TypeOK
\* OnEntryPassed and OnCompleted look the counter up.
<1>BaseCallback.
      ASSUME Base, NEW r \in Req, OnEntryPassed(r) \/ OnCompleted(r)
      PROVE  Kept
  <2> USE <1>BaseCallback
  <2> DEFINE a == req[r].arg
  <2>1. PICK adding \in {"inc", "dec"}, skipped \in {"uncounted", "done"} :
          /\ req[r].pc \in {"admitted", "inside", "uncounted"}
          /\ req[r].pc \notin Resting \/ Turn
          /\ Callback(r, adding, skipped)
    <3>1. CASE OnEntryPassed(r)
      <4>1. req[r].pc = "admitted" /\ req[r].pc \notin Resting
        BY SMT, <3>1 DEF OnEntryPassed, At, Resting
      <4> QED BY <3>1, <4>1 DEF OnEntryPassed
    <3>2. CASE OnCompleted(r)
      BY <3>2 DEF OnCompleted, At
    <3> QED BY <3>1, <3>2
  <2> DEFINE m == [req[r] EXCEPT !.pc = adding, !.ptr = CellOf(conc, a)]
  <2>2. /\ conc' = Get(conc, a)
        /\ \/ Has(conc, a) /\ req' = [req EXCEPT ![r] = m]
           \/ req' = [req EXCEPT ![r] = Rest(skipped, a)]
        /\ UNCHANGED <<rule, clock, times, tokens, heap, refill, slots>>
    BY <2>1 DEF Callback, Set, End, ghosts
  <2>3. a \in Args /\ req[r] \in Request /\ Fits(req[r])
    BY ReqFact
  <2>4. Cache(times) /\ Cache(tokens) /\ Cache(conc) /\ clock' \in Nat
    BY <2>2 DEF Base, Shape, TypeOK
  <2>5. rule.behavior = "Concurrency" /\ req[r].timePtr = 0
    BY SMT, <2>1, <2>3 DEF Fits, ConcPcs, HoldsTime
  <2>6. /\ CacheStep(times, times', a, FALSE)
        /\ CacheStep(tokens, tokens', a, ~FALSE) /\ CacheStep(conc, conc', a, ~FALSE)
    BY <2>2, <2>3, <2>4, CacheSteps
  <2>7. Unused'
    BY <2>2, <2>5 DEF Base, Shape, Placed, Unused
  <2>8. CASE Has(conc, a) /\ req' = [req EXCEPT ![r] = m]
    <3>1. CellOf(conc, a) \in Cells /\ CellOf(conc, a) # 0
      BY <2>3, <2>4, <2>8, ZeroIsNoCell, CellType
    <3> HIDE DEF a
    <3>2. m \in Request /\ m.pc = adding /\ m.arg = a /\ m.ptr = CellOf(conc, a) /\ m.timePtr = 0
      BY <3>1, <2>3, <2>5 DEF Request, Pcs, ConcPcs, a
    <3> HIDE DEF m
    <3>3. Fits(m)
      BY SMT, <3>1, <3>2, <2>5 DEF Fits, HoldsCount, HoldsTime, ConcPcs, RejectPcs, ThrottlePcs
    <3>4. CountRef(m.arg, m.ptr)
      BY <2>8, <3>2 DEF CountRef
    <3> QED BY <2>1, <2>2, <2>3, <2>4, <2>6, <2>7, <2>8, <3>2, <3>3, <3>4, <1>BaseStep DEF Base,
         Shape, TypeOK
  <2>9. CASE req' = [req EXCEPT ![r] = Rest(skipped, a)]
    <3>1. skipped \in Pcs /\ skipped \notin HoldsCount /\ skipped \notin HoldsTime
          /\ skipped \notin RejectPcs /\ skipped \notin ThrottlePcs /\ skipped \in Resting
      BY SMT DEF Pcs, HoldsCount, HoldsTime, ConcPcs, RejectPcs, ThrottlePcs, Resting
    <3>2. /\ Rest(skipped, a) \in Request /\ Fits(Rest(skipped, a))
          /\ Rest(skipped, a).pc \in Resting
          /\ Rest(skipped, a).timePtr = 0 /\ Rest(skipped, a).ptr = 0
      BY ZenonT(40), <2>3, <2>5, <3>1, EndFits
    <3> QED BY <2>2, <2>3, <2>4, <2>6, <2>7, <2>9, <3>2, <1>BaseStep DEF Base, Shape, TypeOK
  <2> QED
    BY <2>2, <2>8, <2>9
<1>BaseAddInt64.
      ASSUME Base, NEW r \in Req, Increment(r) \/ Decrement(r)
      PROVE  Kept
  <2> USE <1>BaseAddInt64
  <2> DEFINE a == req[r].arg
  <2>1. PICK delta \in {1, -1}, pc \in {"inside", "done"} :
          req[r].pc \in {"inc", "dec"} /\ AddInt64(r, delta, pc)
    BY DEF Increment, Decrement, At
  <2>2. /\ heap' = [heap EXCEPT ![req[r].ptr] = heap[req[r].ptr] + delta]
        /\ req' = [req EXCEPT ![r] = Rest(pc, a)]
        /\ UNCHANGED <<rule, clock, times, tokens, conc, refill, slots>>
    BY <2>1 DEF AddInt64, End, Set, caches, ghosts
  <2>3. a \in Args /\ Fits(req[r])
    BY ReqFact
  <2>4. rule.behavior = "Concurrency" /\ req[r].pc \in HoldsCount
    BY SMT, <2>1, <2>3 DEF Fits, ConcPcs, HoldsCount
  <2>5. heap \in [Cells -> Int] /\ req[r].ptr \in Cells
    BY <2>4, PointerFact DEF Base, Shape, TypeOK
  <2>6. heap' \in [Cells -> Int]
    BY SMT, <2>2, <2>5
  <2>7. pc \in Pcs /\ pc \notin HoldsCount /\ pc \notin HoldsTime /\ pc \in Resting
        /\ pc \notin RejectPcs /\ pc \notin ThrottlePcs
    BY SMT DEF Pcs, HoldsCount, HoldsTime, ConcPcs, RejectPcs, ThrottlePcs, Resting
  <2>8. /\ Rest(pc, a) \in Request /\ Fits(Rest(pc, a)) /\ Rest(pc, a).pc \in Resting
        /\ Rest(pc, a).timePtr = 0 /\ Rest(pc, a).ptr = 0
    BY <2>3, <2>4, <2>7, EndFits
  <2> QED
    BY <2>2, <2>6, <2>8, <1>QuietStep DEF Base, Shape, TypeOK
\* The reject loop looks the time of the last refill up, or puts it in.
<1>BaseRejectLoop.
      ASSUME Base, NEW r \in Req, RejectLoop(r)
      PROVE  Kept
  <2> USE <1>BaseRejectLoop
  <2> DEFINE a == req[r].arg
             n == [req[r] EXCEPT !.now = clock,
                                 !.pc = IF Has(times, a) THEN "age" ELSE "fill",
                                 !.timePtr = IF Has(times, a) THEN CellOf(times, a) ELSE 0]
  <2>1. /\ req[r].pc = "reject" /\ req' = [req EXCEPT ![r] = n]
        /\ times' = AddIfAbsent(times, a, Fresh) /\ heap' = Stored(times, a, clock)
        /\ UNCHANGED <<rule, clock, tokens, conc, refill, slots>>
    BY DEF RejectLoop, At, Set
  <2>2. a \in Args /\ req[r] \in Request /\ Fits(req[r])
    BY ReqFact
  <2>3. Cache(times) /\ Cache(tokens) /\ Cache(conc) /\ clock \in Nat
    BY DEF Base, Shape, TypeOK
  <2>4. rule.behavior = "Reject" /\ req[r].ptr = 0 /\ req[r].timePtr = 0 /\ Limit(a) > 0
        /\ req[r].pc \notin Resting
    BY SMT, <2>1, <2>2 DEF Fits, RejectPcs, HoldsCount, HoldsTime, Resting
  <2>5. Has(times, a) => CellOf(times, a) \in Cells /\ CellOf(times, a) # 0
    BY <2>2, <2>3, ZeroIsNoCell, CellType
  <2> HIDE DEF a
  <2>6. /\ n \in Request /\ n.arg = a /\ n.ptr = 0
        /\ \/ n.pc = "age" /\ Has(times, a) /\ n.timePtr = CellOf(times, a) /\ n.timePtr # 0
           \/ n.pc = "fill" /\ n.timePtr = 0
    <3>1. CASE Has(times, a)
      BY <3>1, <2>2, <2>3, <2>4, <2>5 DEF Request, a, Pcs, RejectPcs
    <3>2. CASE ~Has(times, a)
      BY <3>2, <2>2, <2>3, <2>4 DEF Request, a, Pcs, RejectPcs
    <3> QED BY <3>1, <3>2
  <2> HIDE DEF n
  <2>7. Fits(n)
    BY SMT, <2>4, <2>6 DEF Fits, HoldsCount, HoldsTime, ConcPcs, RejectPcs, ThrottlePcs
  <2>8. /\ CacheStep(times, times', a, TRUE)
        /\ CacheStep(tokens, tokens', a, ~TRUE) /\ CacheStep(conc, conc', a, ~TRUE)
    BY <2>1, <2>2, <2>3, CacheSteps
  <2>9. n.timePtr = 0 \/ TimeRef(n.arg, n.timePtr)
    BY <2>6 DEF TimeRef
  <2>10. Unused'
    BY <2>1, <2>4 DEF Base, Shape, Placed, Unused
  <2>11. heap' \in [Cells -> Int]
    <3>1. clock \in Int
      BY SMT, <2>3
    <3> QED BY <2>1, <3>1, <1>StoredType
  <2> QED
    BY <2>1, <2>2, <2>3, <2>4, <2>6, <2>7, <2>8, <2>9, <2>10, <2>11, <1>BaseStep DEF Base, Shape,
       TypeOK
\* The bookkeeping of refills keeps its type.
<1>RefillType.
      ASSUME Base, NEW r \in Req, Refilled(r) \/ Spent(req[r].arg, req[r].batch) \/ refill' = refill
      PROVE  refill' \in [Args -> [at : Nat, before : Nat, passed : Nat]]
  <2> USE <1>RefillType
  <2>1. req[r].arg \in Args /\ req[r].batch \in Nat /\ req[r].now \in Nat
    BY ReqFact
  <2>2. refill \in [Args -> [at : Nat, before : Nat, passed : Nat]]
    BY DEF Base, Shape, TypeOK
  <2>3. CASE Refilled(r)
    BY SMT, <2>1, <2>2, <2>3 DEF Refilled
  <2>4. CASE Spent(req[r].arg, req[r].batch)
    BY SMT, <2>1, <2>2, <2>4 DEF Spent
  <2> QED
    BY <2>2, <2>3, <2>4
\* The first request of a value fills its tokens.
<1>BaseFirstFill.
      ASSUME Base, NEW r \in Req, FirstFill(r)
      PROVE  Kept
  <2> USE <1>BaseFirstFill
  <2> DEFINE a == req[r].arg
             n == Rest("passed", req[r].arg)
  <2>1. /\ req[r].pc = "fill" /\ req' = [req EXCEPT ![r] = n]
        /\ tokens' = AddIfAbsent(tokens, a, Fresh)
        /\ heap' = Stored(tokens, a, MaxCount(a) - req[r].batch)
        /\ Refilled(r) \/ Spent(a, req[r].batch)
        /\ UNCHANGED <<rule, clock, times, conc, slots>>
    BY DEF FirstFill, At, End, Set
  <2>2. a \in Args /\ Fits(req[r]) /\ req[r].batch \in Nat
    BY ReqFact
  <2>3. Cache(times) /\ Cache(tokens) /\ Cache(conc) /\ clock \in Nat
    BY DEF Base, Shape, TypeOK
  <2>4. rule.behavior = "Reject"
    BY SMT, <2>1, <2>2 DEF Fits, RejectPcs
  <2>5. n \in Request /\ Fits(n) /\ n.pc \in Resting /\ n.timePtr = 0 /\ n.ptr = 0
    BY StopFact
  <2> HIDE DEF n
  <2>6. /\ CacheStep(times, times', a, FALSE)
        /\ CacheStep(tokens, tokens', a, ~FALSE) /\ CacheStep(conc, conc', a, ~FALSE)
    BY <2>1, <2>2, <2>3, CacheSteps
  <2>7. Unused'
    BY <2>1, <2>4 DEF Base, Shape, Placed, Unused
  <2>8. heap' \in [Cells -> Int]
    <3>1. MaxCount(a) - req[r].batch \in Int
      BY SMT, <2>2, RuleFact
    <3> QED BY <2>1, <3>1, <1>StoredType
  <2>9. refill' \in [Args -> [at : Nat, before : Nat, passed : Nat]]
    BY <2>1, <1>RefillType
  <2> QED
    BY <2>1, <2>2, <2>3, <2>5, <2>6, <2>7, <2>8, <2>9, <1>BaseStep DEF Base, Shape, TypeOK
\* A request finds how old the last refill is.
<1>BaseAge.
      ASSUME Base, NEW r \in Req, Age(r)
      PROVE  Kept
  <2> USE <1>BaseAge
  <2> DEFINE p == req[r].now - heap[req[r].timePtr]
             m == [req[r] EXCEPT !.pc = "refill", !.next = p]
             n == [req[r] EXCEPT !.pc = "take", !.timePtr = 0]
  <2>1. /\ req[r].pc = "age"
        /\ req' = [req EXCEPT ![r] = m] \/ req' = [req EXCEPT ![r] = n]
        /\ UNCHANGED <<rule, clock, times, tokens, conc, heap, refill, slots>>
    BY DEF Age, At, Set, caches
  <2>2. req[r] \in Request /\ Fits(req[r])
    BY ReqFact
  <2>3. req[r].pc \in HoldsTime /\ req[r].pc \notin Resting /\ req[r].pc \in RejectPcs
        /\ req[r].ptr = 0
    BY SMT, <2>1, <2>2 DEF HoldsTime, Resting, RejectPcs, Fits, HoldsCount
  <2>4. p \in Int
    <3>1. heap \in [Cells -> Int] /\ req[r].timePtr \in Cells /\ req[r].now \in Nat
      BY <2>3, PointerFact, ReqFact DEF Base, Shape, TypeOK
    <3> QED BY SMT, <3>1
  <2> HIDE DEF p
  <2>5. m \in Request /\ m.pc = "refill" /\ m.arg = req[r].arg /\ m.ptr = 0
        /\ m.timePtr = req[r].timePtr
    BY <2>2, <2>3, <2>4 DEF Request, Pcs, RejectPcs
  <2>6. n \in Request /\ n.pc = "take" /\ n.arg = req[r].arg /\ n.ptr = 0 /\ n.timePtr = 0
    BY <2>2, <2>3 DEF Request, Pcs, RejectPcs
  <2> HIDE DEF m, n
  <2>7. Fits(m)
    BY SMT, <2>2, <2>3, <2>5 DEF Fits, HoldsCount, HoldsTime, ConcPcs, RejectPcs, ThrottlePcs
  <2>8. Fits(n)
    BY SMT, <2>2, <2>3, <2>6 DEF Fits, HoldsCount, HoldsTime, ConcPcs, RejectPcs, ThrottlePcs
  <2> QED
    BY <2>1, <2>3, <2>5, <2>6, <2>7, <2>8, <1>QuietStep DEF Base, Shape, TypeOK
\* A refill looks the tokens up, or puts them in.
<1>BaseRefillTokens.
      ASSUME Base, NEW r \in Req, RefillTokens(r)
      PROVE  Kept
  <2> USE <1>BaseRefillTokens
  <2> DEFINE a == req[r].arg
             n == IF Has(tokens, a) THEN [req[r] EXCEPT !.pc = "rest", !.ptr = CellOf(tokens, a)]
                                    ELSE [req[r] EXCEPT !.pc = "stamp"]
  <2>1. /\ req[r].pc = "refill" /\ req' = [req EXCEPT ![r] = n]
        /\ tokens' = AddIfAbsent(tokens, a, Fresh)
        /\ heap' = Stored(tokens, a, MaxCount(a) - req[r].batch)
        /\ Refilled(r) \/ refill' = refill
        /\ UNCHANGED <<rule, clock, times, conc, slots>>
    BY DEF RefillTokens, At, Goto, Set
  <2>2. a \in Args /\ req[r] \in Request /\ Fits(req[r]) /\ req[r].batch \in Nat
    BY ReqFact
  <2>3. Cache(times) /\ Cache(tokens) /\ Cache(conc) /\ clock \in Nat
    BY DEF Base, Shape, TypeOK
  <2>4. rule.behavior = "Reject" /\ Limit(a) > 0 /\ req[r].ptr = 0 /\ req[r].timePtr # 0
        /\ req[r].pc \notin Resting
    BY SMT, <2>1, <2>2 DEF Fits, RejectPcs, HoldsTime, HoldsCount, Resting
  <2>5. Has(tokens, a) => CellOf(tokens, a) \in Cells /\ CellOf(tokens, a) # 0
    BY <2>2, <2>3, ZeroIsNoCell, CellType
  <2> HIDE DEF a
  <2>6. /\ n \in Request /\ n.arg = a /\ n.timePtr = req[r].timePtr
        /\ \/ n.pc = "rest" /\ Has(tokens, a) /\ n.ptr = CellOf(tokens, a) /\ n.ptr # 0
           \/ n.pc = "stamp" /\ n.ptr = 0
    <3>1. CASE Has(tokens, a)
      BY <3>1, <2>2, <2>4, <2>5 DEF Request, a, Pcs, RejectPcs
    <3>2. CASE ~Has(tokens, a)
      BY SMT, <3>2, <2>2, <2>4 DEF Request, a, Pcs, RejectPcs
    <3> QED BY <3>1, <3>2
  <2> HIDE DEF n
  <2>7. Fits(n)
    BY SMT, <2>4, <2>6 DEF Fits, HoldsCount, HoldsTime, ConcPcs, RejectPcs, ThrottlePcs
  <2>8. /\ CacheStep(times, times', a, FALSE)
        /\ CacheStep(tokens, tokens', a, ~FALSE) /\ CacheStep(conc, conc', a, ~FALSE)
    BY <2>1, <2>2, <2>3, CacheSteps
  <2>9. (n.ptr = 0 \/ CountRef(n.arg, n.ptr)) /\ TimeRef(n.arg, n.timePtr)
    BY <2>6 DEF CountRef, TimeRef, a
  <2>10. Unused'
    BY <2>1, <2>4 DEF Base, Shape, Placed, Unused
  <2>11. heap' \in [Cells -> Int]
    <3>1. MaxCount(a) - req[r].batch \in Int
      BY SMT, <2>2, RuleFact
    <3> QED BY <2>1, <3>1, <1>StoredType
  <2>12. refill' \in [Args -> [at : Nat, before : Nat, passed : Nat]]
    BY <2>1, <1>RefillType
  <2> QED
    BY <2>1, <2>2, <2>3, <2>4, <2>6, <2>7, <2>8, <2>9, <2>10, <2>11, <2>12, <1>BaseStep DEF Base,
       Shape, TypeOK
\* A refill reads what is left.
<1>BaseRestQps.
      ASSUME Base, NEW r \in Req, RestQps(r)
      PROVE  Kept
  <2> USE <1>BaseRestQps
  <2> DEFINE q == heap[req[r].ptr]
             v == NewQps(r, q)
             m == [req[r] EXCEPT !.pc = "swap", !.seen = q, !.next = v]
             n == Rest("blocked", req[r].arg)
  <2>1. /\ req[r].pc = "rest"
        /\ req' = [req EXCEPT ![r] = m] \/ req' = [req EXCEPT ![r] = n]
        /\ UNCHANGED <<rule, clock, times, tokens, conc, heap, refill, slots>>
    BY DEF RestQps, At, Set, End, caches, ghosts
  <2>2. req[r] \in Request /\ Fits(req[r])
    BY ReqFact
  <2>3. req[r].pc \in HoldsCount /\ req[r].pc \notin Resting
    BY SMT, <2>1 DEF HoldsCount, Resting
  <2>4. q \in Int
    <3>1. heap \in [Cells -> Int] /\ req[r].ptr \in Cells
      BY <2>3, PointerFact DEF Base, Shape, TypeOK
    <3> QED BY SMT, <3>1
  <2>5. v \in Int
    BY <2>4, NewQpsType
  <2> HIDE DEF q, v
  <2>6. m \in Request /\ m.pc = "swap" /\ m.arg = req[r].arg /\ m.ptr = req[r].ptr
        /\ m.timePtr = req[r].timePtr
    BY <2>2, <2>4, <2>5 DEF Request, Pcs, RejectPcs
  <2>7. n \in Request /\ Fits(n) /\ n.timePtr = 0 /\ n.ptr = 0
    BY StopFact
  <2> HIDE DEF m, n
  <2>8. Fits(m)
    BY SMT, <2>1, <2>2, <2>6 DEF Fits, HoldsCount, HoldsTime, ConcPcs, RejectPcs, ThrottlePcs
  <2> QED
    BY <2>1, <2>3, <2>6, <2>7, <2>8, <1>QuietStep DEF Base, Shape, TypeOK
\* A refill is swapped in.
<1>BaseSwapRefill.
      ASSUME Base, NEW r \in Req, SwapRefill(r)
      PROVE  Kept
  <2> USE <1>BaseSwapRefill
  <2> DEFINE m == [req[r] EXCEPT !.pc = "stamp", !.ptr = 0]
             n == [Rest("reject", req[r].arg) EXCEPT !.batch = req[r].batch]
  <2>1. /\ req[r].pc = "swap"
        /\ req' = [req EXCEPT ![r] = m] \/ req' = [req EXCEPT ![r] = n]
        /\ heap' = [heap EXCEPT ![req[r].ptr] = req[r].next] \/ heap' = heap
        /\ Refilled(r) \/ refill' = refill
        /\ UNCHANGED <<rule, clock, times, tokens, conc, slots>>
    BY DEF SwapRefill, At, Set, Again, caches
  <2>2. req[r] \in Request /\ Fits(req[r]) /\ req[r].next \in Int
    BY ReqFact
  <2>3. req[r].pc \notin Resting /\ req[r].pc \in RejectPcs /\ rule.behavior = "Reject"
    BY SMT, <2>1, <2>2 DEF Resting, RejectPcs, Fits
  <2>4. heap' \in [Cells -> Int]
    <3>1. heap \in [Cells -> Int]
      BY DEF Base, Shape, TypeOK
    <3> QED BY <2>1, <2>2, <3>1
  <2>5. refill' \in [Args -> [at : Nat, before : Nat, passed : Nat]]
    BY <2>1, <1>RefillType
  <2>6. m \in Request /\ m.pc = "stamp" /\ m.arg = req[r].arg /\ m.ptr = 0
        /\ m.timePtr = req[r].timePtr
    <3> DEFINE k == req[r]
    <3>1. k \in Request /\ "stamp" \in Pcs
      BY SMT, <2>2 DEF Pcs, RejectPcs
    <3> HIDE DEF k
    <3>2. m = [k EXCEPT !.pc = "stamp", !.ptr = 0]
      BY DEF k
    <3>3. /\ [k EXCEPT !.pc = "stamp", !.ptr = 0].pc = "stamp"
          /\ [k EXCEPT !.pc = "stamp", !.ptr = 0].arg = k.arg
          /\ [k EXCEPT !.pc = "stamp", !.ptr = 0].ptr = 0
          /\ [k EXCEPT !.pc = "stamp", !.ptr = 0].timePtr = k.timePtr
      BY SMT, <3>1 DEF Request
    <3>4. [k EXCEPT !.pc = "stamp"] \in Request
      BY SMT, <3>1 DEF Request
    <3>5. \A x \in Request : [x EXCEPT !.ptr = 0] \in Request
      BY SMT DEF Request
    <3>6. [k EXCEPT !.pc = "stamp", !.ptr = 0] = [[k EXCEPT !.pc = "stamp"] EXCEPT !.ptr = 0]
      OBVIOUS
    <3>7. [k EXCEPT !.pc = "stamp", !.ptr = 0] \in Request
      BY <3>4, <3>5, <3>6
    <3> QED BY <3>2, <3>3, <3>7 DEF k
  <2>7. n \in Request /\ Fits(n) /\ n.timePtr = 0 /\ n.ptr = 0
    <3>1. "reject" # "throttle"
      BY SMT
    <3> QED BY <2>3, <3>1, AgainFact
  <2> HIDE DEF m, n
  <2>8. Fits(m)
    BY SMT, <2>1, <2>2, <2>6 DEF Fits, HoldsCount, HoldsTime, ConcPcs, RejectPcs, ThrottlePcs
  <2> QED
    BY <2>1, <2>3, <2>4, <2>5, <2>6, <2>7, <2>8, <1>QuietStep DEF Base, Shape, TypeOK
\* The time of a refill is stored.
<1>BaseStamp.
      ASSUME Base, NEW r \in Req, Stamp(r)
      PROVE  Kept
  <2> USE <1>BaseStamp
  <2> DEFINE n == Rest("passed", req[r].arg)
  <2>1. /\ req' = [req EXCEPT ![r] = n]
        /\ heap' = [heap EXCEPT ![req[r].timePtr] = req[r].now]
        /\ UNCHANGED <<rule, clock, times, tokens, conc, refill, slots>>
    BY DEF Stamp, Set, End, caches, ghosts
  <2>2. req[r].now \in Int /\ heap \in [Cells -> Int]
    BY SMT, ReqFact DEF Base, Shape, TypeOK
  <2>3. heap' \in [Cells -> Int]
    BY <2>1, <2>2
  <2>4. n \in Request /\ Fits(n) /\ n.pc \in Resting /\ n.timePtr = 0 /\ n.ptr = 0
    BY StopFact
  <2> HIDE DEF n
  <2> QED
    BY <2>1, <2>3, <2>4, <1>QuietStep DEF Base, Shape, TypeOK
\* A request looks the tokens up.
<1>BaseGetTokens.
      ASSUME Base, NEW r \in Req, GetTokens(r)
      PROVE  Kept
  <2> USE <1>BaseGetTokens
  <2> DEFINE a == req[r].arg
             m == [req[r] EXCEPT !.pc = "left", !.ptr = CellOf(tokens, a)]
             n == [Rest("reject", req[r].arg) EXCEPT !.batch = req[r].batch]
  <2>1. /\ req[r].pc = "take"
        /\ \/ Has(tokens, a) /\ req' = [req EXCEPT ![r] = m]
           \/ req' = [req EXCEPT ![r] = n]
        /\ tokens' = Get(tokens, a)
        /\ UNCHANGED <<rule, clock, times, conc, heap, refill, slots>>
    BY DEF GetTokens, At, Set, Again, ghosts
  <2>2. a \in Args /\ req[r] \in Request /\ Fits(req[r])
    BY ReqFact
  <2>3. Cache(times) /\ Cache(tokens) /\ Cache(conc) /\ clock \in Nat
    BY DEF Base, Shape, TypeOK
  <2>4. req[r].pc \notin Resting /\ req[r].pc \in RejectPcs /\ rule.behavior = "Reject"
        /\ Limit(a) > 0 /\ req[r].timePtr = 0
    BY SMT, <2>1, <2>2 DEF Resting, RejectPcs, Fits, HoldsTime
  <2>5. /\ CacheStep(times, times', a, FALSE)
        /\ CacheStep(tokens, tokens', a, ~FALSE) /\ CacheStep(conc, conc', a, ~FALSE)
    BY <2>1, <2>2, <2>3, CacheSteps
  <2>6. Unused'
    BY <2>1, <2>4 DEF Base, Shape, Placed, Unused
  <2>7. CASE Has(tokens, a) /\ req' = [req EXCEPT ![r] = m]
    <3>1. CellOf(tokens, a) \in Cells /\ CellOf(tokens, a) # 0
      BY <2>2, <2>3, <2>7, ZeroIsNoCell, CellType
    <3> HIDE DEF a
    <3>2. m \in Request /\ m.pc = "left" /\ m.arg = a /\ m.ptr = CellOf(tokens, a)
          /\ m.timePtr = 0
      BY <2>2, <2>4, <3>1 DEF Request, Pcs, RejectPcs, a
    <3> HIDE DEF m
    <3>3. Fits(m)
      BY SMT, <2>4, <3>1, <3>2 DEF Fits, HoldsCount, HoldsTime, ConcPcs, RejectPcs, ThrottlePcs
    <3>4. CountRef(m.arg, m.ptr)
      BY <2>7, <3>2 DEF CountRef
    <3> QED BY <2>1, <2>2, <2>3, <2>4, <2>5, <2>6, <2>7, <3>2, <3>3, <3>4, <1>BaseStep DEF Base,
         Shape, TypeOK
  <2>8. CASE req' = [req EXCEPT ![r] = n]
    <3>1. "reject" # "throttle"
      BY SMT
    <3>2. n \in Request /\ Fits(n) /\ n.timePtr = 0 /\ n.ptr = 0
      BY <2>4, <3>1, AgainFact
    <3> HIDE DEF n
    <3> QED BY <2>1, <2>2, <2>3, <2>4, <2>5, <2>6, <2>8, <3>2, <1>BaseStep DEF Base, Shape, TypeOK
  <2> QED
    BY <2>1, <2>7, <2>8
\* A request reads what is left.
<1>BaseLoadTokens.
      ASSUME Base, NEW r \in Req, LoadTokens(r)
      PROVE  Kept
  <2> USE <1>BaseLoadTokens
  <2> DEFINE q == heap[req[r].ptr]
             m == [req[r] EXCEPT !.pc = "spend", !.seen = q]
             n == Rest("blocked", req[r].arg)
  <2>1. /\ req[r].pc = "left"
        /\ req' = [req EXCEPT ![r] = m] \/ req' = [req EXCEPT ![r] = n]
        /\ UNCHANGED <<rule, clock, times, tokens, conc, heap, refill, slots>>
    BY DEF LoadTokens, At, Set, End, caches, ghosts
  <2>2. req[r] \in Request /\ Fits(req[r])
    BY ReqFact
  <2>3. req[r].pc \in HoldsCount /\ req[r].pc \notin Resting
    BY SMT, <2>1 DEF HoldsCount, Resting
  <2>4. q \in Int
    <3>1. heap \in [Cells -> Int] /\ req[r].ptr \in Cells
      BY <2>3, PointerFact DEF Base, Shape, TypeOK
    <3> QED BY SMT, <3>1
  <2> HIDE DEF q
  <2>6. m \in Request /\ m.pc = "spend" /\ m.arg = req[r].arg /\ m.ptr = req[r].ptr
        /\ m.timePtr = req[r].timePtr
    BY <2>2, <2>4 DEF Request, Pcs, RejectPcs
  <2>7. n \in Request /\ Fits(n) /\ n.timePtr = 0 /\ n.ptr = 0
    BY StopFact
  <2> HIDE DEF m, n
  <2>8. Fits(m)
    BY SMT, <2>1, <2>2, <2>6 DEF Fits, HoldsCount, HoldsTime, ConcPcs, RejectPcs, ThrottlePcs
  <2> QED
    BY <2>1, <2>3, <2>6, <2>7, <2>8, <1>QuietStep DEF Base, Shape, TypeOK
\* A request swaps its tokens off.
<1>BaseSpend.
      ASSUME Base, NEW r \in Req, Spend(r)
      PROVE  Kept
  <2> USE <1>BaseSpend
  <2> DEFINE m == Rest("passed", req[r].arg)
             n == [Rest("reject", req[r].arg) EXCEPT !.batch = req[r].batch]
  <2>1. /\ req[r].pc = "spend"
        /\ req' = [req EXCEPT ![r] = m] \/ req' = [req EXCEPT ![r] = n]
        /\ heap' = [heap EXCEPT ![req[r].ptr] = heap[req[r].ptr] - req[r].batch] \/ heap' = heap
        /\ Spent(req[r].arg, req[r].batch) \/ refill' = refill
        /\ UNCHANGED <<rule, clock, times, tokens, conc, slots>>
    BY DEF Spend, At, Set, End, Again, caches
  <2>2. req[r].batch \in Nat /\ Fits(req[r])
    BY ReqFact
  <2>3. req[r].pc \notin Resting /\ req[r].pc \in RejectPcs /\ rule.behavior = "Reject"
        /\ req[r].pc \in HoldsCount
    BY SMT, <2>1, <2>2 DEF Resting, RejectPcs, Fits, HoldsCount
  <2>4. heap' \in [Cells -> Int]
    <3>1. heap \in [Cells -> Int] /\ req[r].ptr \in Cells
      BY <2>3, PointerFact DEF Base, Shape, TypeOK
    <3>2. heap[req[r].ptr] - req[r].batch \in Int
      BY SMT, <2>2, <3>1
    <3> QED BY <2>1, <3>1, <3>2
  <2>5. refill' \in [Args -> [at : Nat, before : Nat, passed : Nat]]
    BY <2>1, <1>RefillType
  <2>6. m \in Request /\ Fits(m) /\ m.timePtr = 0 /\ m.ptr = 0
    BY StopFact
  <2>7. n \in Request /\ Fits(n) /\ n.timePtr = 0 /\ n.ptr = 0
    <3>1. "reject" # "throttle"
      BY SMT
    <3> QED BY <2>3, <3>1, AgainFact
  <2> HIDE DEF m, n
  <2> QED
    BY <2>1, <2>3, <2>4, <2>5, <2>6, <2>7, <1>QuietStep DEF Base, Shape, TypeOK
\* The slots keep their type when one is taken.
<1>SlotsType.
      ASSUME Base, NEW r \in Req, req[r].pc \in ThrottlePcs, NEW t \in Int, TakesSlot(r, t)
      PROVE  slots' \in [Args -> SUBSET [at : Int, cost : Int, by : Req]]
  <2> USE <1>SlotsType
  <2> DEFINE s == [at |-> t, cost |-> IntervalCost(r), by |-> r]
             a == req[r].arg
  <2>1. s \in [at : Int, cost : Int, by : Req]
    BY SMT, CostFact
  <2>2. slots' = [slots EXCEPT ![a] = slots[a] \cup {s}] /\ a \in Args
    BY ReqFact DEF TakesSlot
  <2>3. slots \in [Args -> SUBSET [at : Int, cost : Int, by : Req]]
    BY DEF Base, Shape, TypeOK
  <2> HIDE DEF s, a
  <2>4. slots[a] \cup {s} \in SUBSET [at : Int, cost : Int, by : Req]
    BY <2>1, <2>2, <2>3
  <2> QED
    BY <2>2, <2>3, <2>4
\* A throttled request looks the last time up, or puts it in.
<1>BaseThrottleLoop.
      ASSUME Base, NEW r \in Req, ThrottleLoop(r)
      PROVE  Kept
  <2> USE <1>BaseThrottleLoop
  <2> DEFINE a == req[r].arg
             f == ~Has(times, a)
             x == IF Has(times, a) THEN CellOf(times, a) ELSE Fresh
             n == [req[r] EXCEPT !.pc = "last", !.now = clock, !.first = f, !.timePtr = x]
  <2>1. /\ req[r].pc = "throttle" /\ req' = [req EXCEPT ![r] = n]
        /\ times' = AddIfAbsent(times, a, Fresh) /\ heap' = Stored(times, a, clock)
        /\ UNCHANGED <<rule, clock, tokens, conc, refill, slots>>
    BY DEF ThrottleLoop, At, Set
  <2>2. a \in Args /\ req[r] \in Request /\ Fits(req[r])
    BY ReqFact
  <2>3. Cache(times) /\ Cache(tokens) /\ Cache(conc) /\ clock \in Nat
    BY DEF Base, Shape, TypeOK
  <2>4. rule.behavior = "Throttling" /\ req[r].ptr = 0 /\ req[r].timePtr = 0 /\ Limit(a) > 0
        /\ req[r].pc \notin Resting
    BY SMT, <2>1, <2>2 DEF Fits, ThrottlePcs, HoldsCount, HoldsTime, Resting
  <2>5. x \in Cells /\ x # 0 /\ f \in BOOLEAN
    BY <2>2, <2>3, ZeroIsNoCell, CellType DEF Base, Shape
  <2>6. (Has(times, a) /\ x = CellOf(times, a)) \/ x = Fresh
    OBVIOUS
  <2> HIDE DEF f, x
  <2>7. n \in Request /\ n.arg = a /\ n.ptr = 0 /\ n.pc = "last" /\ n.timePtr = x
    <3> DEFINE k == req[r]
               k1 == [k EXCEPT !.pc = "last", !.now = clock]
    <3>1. "last" \in Pcs
      BY SMT DEF Pcs, ThrottlePcs
    <3>2. k \in Request /\ k.ptr = 0
      BY <2>2, <2>4
    <3>3. n = [k1 EXCEPT !.first = f, !.timePtr = x]
      OBVIOUS
    <3> HIDE DEF k
    <3>4. k1 \in Request /\ k1.arg = k.arg /\ k1.ptr = 0 /\ k1.pc = "last"
      BY <3>1, <3>2, <2>3 DEF Request
    <3> HIDE DEF k1
    <3>5. /\ [k1 EXCEPT !.first = f, !.timePtr = x] \in Request
          /\ [k1 EXCEPT !.first = f, !.timePtr = x].arg = k1.arg
          /\ [k1 EXCEPT !.first = f, !.timePtr = x].ptr = k1.ptr
          /\ [k1 EXCEPT !.first = f, !.timePtr = x].pc = k1.pc
          /\ [k1 EXCEPT !.first = f, !.timePtr = x].timePtr = x
      BY <3>4, <2>5 DEF Request
    <3> QED BY <3>3, <3>4, <3>5 DEF k
  <2> HIDE DEF n, a
  <2>8. Fits(n)
    BY SMT, <2>4, <2>5, <2>7 DEF Fits, HoldsCount, HoldsTime, ConcPcs, RejectPcs, ThrottlePcs
  <2>9. /\ CacheStep(times, times', a, TRUE)
        /\ CacheStep(tokens, tokens', a, ~TRUE) /\ CacheStep(conc, conc', a, ~TRUE)
    BY <2>1, <2>2, <2>3, CacheSteps
  <2>10. TimeRef(n.arg, n.timePtr) \/ (TRUE /\ n.arg = a /\ n.timePtr = Fresh)
    BY <2>6, <2>7 DEF TimeRef
  <2>11. Unused'
    BY <2>1, <2>4 DEF Base, Shape, Placed, Unused
  <2>12. heap' \in [Cells -> Int]
    <3>1. clock \in Int
      BY SMT, <2>3
    <3> QED BY <2>1, <3>1, <1>StoredType
  <2> QED
    BY <2>1, <2>2, <2>3, <2>4, <2>7, <2>8, <2>9, <2>10, <2>11, <2>12, <1>BaseStep DEF Base, Shape,
       TypeOK
\* A throttled request reads the last time.
<1>BaseLoadLast.
      ASSUME Base, NEW r \in Req, LoadLast(r)
      PROVE  Kept
  <2> USE <1>BaseLoadLast
  <2> DEFINE q == heap[req[r].timePtr]
             v == ExpectedTime(r, q, Current(r))
             m == [req[r] EXCEPT !.pc = "claim", !.seen = q, !.next = v]
             n == Rest("blocked", req[r].arg)
  <2>1. /\ req[r].pc = "last"
        /\ req' = [req EXCEPT ![r] = m] \/ req' = [req EXCEPT ![r] = n]
        /\ UNCHANGED <<rule, clock, times, tokens, conc, heap, refill, slots>>
    BY DEF LoadLast, At, Set, End, caches, ghosts
  <2>2. req[r] \in Request /\ Fits(req[r])
    BY ReqFact
  <2>3. req[r].pc \in ThrottlePcs \cap HoldsTime /\ req[r].pc \notin Resting
    BY SMT, <2>1 DEF HoldsTime, Resting, ThrottlePcs
  <2>4. q \in Int /\ v \in Int
    BY <2>3, TimeFact
  <2> HIDE DEF q, v
  <2>5. m \in Request /\ m.pc = "claim" /\ m.arg = req[r].arg /\ m.ptr = req[r].ptr
        /\ m.timePtr = req[r].timePtr
    BY <2>2, <2>4 DEF Request, Pcs, ThrottlePcs
  <2>6. n \in Request /\ Fits(n) /\ n.timePtr = 0 /\ n.ptr = 0
    BY StopFact
  <2> HIDE DEF m, n
  <2>7. Fits(m)
    BY SMT, <2>1, <2>2, <2>5 DEF Fits, HoldsCount, HoldsTime, ConcPcs, RejectPcs, ThrottlePcs
  <2> QED
    BY <2>1, <2>3, <2>5, <2>6, <2>7, <1>QuietStep DEF Base, Shape, TypeOK
\* A throttled request swaps the current time in.
<1>BaseClaim.
      ASSUME Base, NEW r \in Req, Claim(r)
      PROVE  Kept
  <2> USE <1>BaseClaim
  <2> DEFINE v == IF req[r].first THEN req[r].seen ELSE req[r].now
             pc == IF req[r].first THEN "await" ELSE "store"
             m == [req[r] EXCEPT !.pc = pc]
             n == Rest("passed", req[r].arg)
             o == [Rest("throttle", req[r].arg) EXCEPT !.batch = req[r].batch]
  <2>1. /\ req[r].pc = "claim"
        /\ \/ req' = [req EXCEPT ![r] = m]
           \/ req' = [req EXCEPT ![r] = n]
           \/ req' = [req EXCEPT ![r] = o]
        /\ heap' = [heap EXCEPT ![req[r].timePtr] = v] \/ heap' = heap
        /\ slots' = slots \/ TakesSlot(r, req[r].now)
        /\ UNCHANGED <<rule, clock, times, tokens, conc, refill>>
    BY DEF Claim, At, Goto, Set, End, Again, caches
  <2>2. /\ req[r] \in Request /\ Fits(req[r]) /\ req[r].now \in Int /\ v \in Int
        /\ pc \in {"await", "store"}
    BY SMT, ReqFact
  <2>3. req[r].pc \notin Resting /\ req[r].pc \in ThrottlePcs /\ rule.behavior = "Throttling"
        /\ req[r].ptr = 0
    BY SMT, <2>1, <2>2 DEF Resting, ThrottlePcs, Fits, HoldsCount
  <2>4. heap' \in [Cells -> Int]
    <3>1. heap \in [Cells -> Int]
      BY DEF Base, Shape, TypeOK
    <3> QED BY <2>1, <2>2, <3>1
  <2>5. slots' \in [Args -> SUBSET [at : Int, cost : Int, by : Req]]
    BY <2>1, <2>2, <2>3, <1>SlotsType DEF Base, Shape, TypeOK
  <2> HIDE DEF v, pc
  <2>6. m \in Request /\ m.pc = pc /\ m.arg = req[r].arg /\ m.ptr = req[r].ptr
        /\ m.timePtr = req[r].timePtr
    BY SMT, <2>2 DEF Request, Pcs, ThrottlePcs
  <2>7. n \in Request /\ Fits(n) /\ n.timePtr = 0 /\ n.ptr = 0
    BY StopFact
  <2>8. o \in Request /\ Fits(o) /\ o.timePtr = 0 /\ o.ptr = 0
    <3>1. "throttle" # "reject"
      BY SMT
    <3> QED BY <2>3, <3>1, AgainFact
  <2> HIDE DEF m, n, o
  <2>9. Fits(m)
    BY SMT, <2>1, <2>2, <2>6 DEF Fits, HoldsCount, HoldsTime, ConcPcs, RejectPcs, ThrottlePcs
  <2> QED
    BY <2>1, <2>3, <2>4, <2>5, <2>6, <2>7, <2>8, <2>9, <1>QuietStep DEF Base, Shape, TypeOK
\* The first request reads its variable once more.
<1>BaseAwaitTime.
      ASSUME Base, NEW r \in Req, AwaitTime(r)
      PROVE  Kept
  <2> USE <1>BaseAwaitTime
  <2> DEFINE m == [req[r] EXCEPT !.pc = "store"]
             n == Rest("passed", req[r].arg)
  <2>1. /\ req[r].pc = "await"
        /\ req' = [req EXCEPT ![r] = m] \/ req' = [req EXCEPT ![r] = n]
        /\ slots' = slots \/ TakesSlot(r, req[r].now)
        /\ UNCHANGED <<rule, clock, times, tokens, conc, heap, refill>>
    BY DEF AwaitTime, At, Goto, Set, End, caches
  <2>2. req[r] \in Request /\ Fits(req[r]) /\ req[r].now \in Int
    BY SMT, ReqFact
  <2>3. req[r].pc \notin Resting /\ req[r].pc \in ThrottlePcs /\ rule.behavior = "Throttling"
    BY SMT, <2>1, <2>2 DEF Resting, ThrottlePcs, Fits
  <2>4. slots' \in [Args -> SUBSET [at : Int, cost : Int, by : Req]]
    BY <2>1, <2>2, <2>3, <1>SlotsType DEF Base, Shape, TypeOK
  <2>5. m \in Request /\ m.pc = "store" /\ m.arg = req[r].arg /\ m.ptr = req[r].ptr
        /\ m.timePtr = req[r].timePtr
    BY SMT, <2>2 DEF Request, Pcs, ThrottlePcs
  <2>6. n \in Request /\ Fits(n) /\ n.timePtr = 0 /\ n.ptr = 0
    BY StopFact
  <2> HIDE DEF m, n
  <2>7. Fits(m)
    BY SMT, <2>1, <2>2, <2>5 DEF Fits, HoldsCount, HoldsTime, ConcPcs, RejectPcs, ThrottlePcs
  <2> QED
    BY <2>1, <2>3, <2>4, <2>5, <2>6, <2>7, <1>QuietStep DEF Base, Shape, TypeOK
\* A request stores its slot and passes.
<1>BaseStoreExpected.
      ASSUME Base, NEW r \in Req, StoreExpected(r)
      PROVE  Kept
  <2> USE <1>BaseStoreExpected
  <2> DEFINE n == Rest("passed", req[r].arg)
  <2>1. /\ req[r].pc = "store" /\ req' = [req EXCEPT ![r] = n]
        /\ heap' = [heap EXCEPT ![req[r].timePtr] = req[r].next]
        /\ TakesSlot(r, req[r].next)
        /\ UNCHANGED <<rule, clock, times, tokens, conc, refill>>
    BY DEF StoreExpected, At, Set, End, caches
  <2>2. req[r].next \in Int /\ heap \in [Cells -> Int] /\ Fits(req[r])
    BY ReqFact DEF Base, Shape, TypeOK
  <2>3. req[r].pc \notin Resting /\ req[r].pc \in ThrottlePcs /\ rule.behavior = "Throttling"
    BY SMT, <2>1, <2>2 DEF Resting, ThrottlePcs, Fits
  <2>4. heap' \in [Cells -> Int]
    BY <2>1, <2>2
  <2>5. slots' \in [Args -> SUBSET [at : Int, cost : Int, by : Req]]
    BY <2>1, <2>2, <2>3, <1>SlotsType
  <2>6. n \in Request /\ Fits(n) /\ n.timePtr = 0 /\ n.ptr = 0
    BY StopFact
  <2> HIDE DEF n
  <2> QED
    BY <2>1, <2>3, <2>4, <2>5, <2>6, <1>QuietStep DEF Base, Shape, TypeOK
<1>1. CASE UNCHANGED vars
  <2>1. UNCHANGED <<rule, clock, times, tokens, conc, heap, req, refill, slots>>
    BY <1>1 DEF vars
  <2>2. TypeOK' /\ Placed' /\ BusyGrows
    BY <2>1 DEF Base, Shape, TypeOK, Placed, Fits, Limit, Unused, BusyGrows, Busy
  <2>3. NoAlias'
    <3>1. ASSUME NEW a \in Args, NEW c \in Cells
          PROVE  (TimeRef(a, c)' <=> TimeRef(a, c)) /\ (CountRef(a, c)' <=> CountRef(a, c))
      BY <2>1 DEF TimeRef, CountRef
    <3> QED BY <3>1 DEF Base, Shape, NoAlias
  <2> QED BY <2>2, <2>3 DEF Kept
<1>2. ASSUME NEW r \in Req,
             \/ Check(r)
             \/ CountFirst(r) \/ CheckConcurrency(r) \/ OnEntryPassed(r) \/ Increment(r)
             \/ OnCompleted(r) \/ Decrement(r)
      PROVE  Kept
  BY <1>2, <1>BaseCheck, <1>BaseCountFirst, <1>BaseCheckConcurrency, <1>BaseCallback,
     <1>BaseAddInt64
<1>3. ASSUME NEW r \in Req,
             \/ RejectLoop(r) \/ FirstFill(r) \/ Age(r) \/ RefillTokens(r) \/ RestQps(r)
             \/ SwapRefill(r) \/ Stamp(r) \/ GetTokens(r) \/ LoadTokens(r) \/ Spend(r)
      PROVE  Kept
  BY <1>3, <1>BaseRejectLoop, <1>BaseFirstFill, <1>BaseAge, <1>BaseRefillTokens, <1>BaseRestQps,
     <1>BaseSwapRefill, <1>BaseStamp, <1>BaseGetTokens, <1>BaseLoadTokens, <1>BaseSpend
<1>4. ASSUME NEW r \in Req,
             ThrottleLoop(r) \/ LoadLast(r) \/ Claim(r) \/ AwaitTime(r) \/ StoreExpected(r)
      PROVE  Kept
  BY <1>4, <1>BaseThrottleLoop, <1>BaseLoadLast, <1>BaseClaim, <1>BaseAwaitTime,
     <1>BaseStoreExpected
<1> QED
  BY <1>1, <1>2, <1>3, <1>4, <1>BaseTick DEF Next

\* The caches are empty and no goroutine runs in the beginning.
LEMMA BaseInit == Init => Shape /\ Busy = {}
<1> SUFFICES ASSUME Init PROVE Shape /\ Busy = {}
  BY SMT
<1>1. /\ times = <<>> /\ tokens = <<>> /\ conc = <<>> /\ heap = [c \in Cells |-> 0]
      /\ req = [r \in Req |-> Idle] /\ rule \in Rules /\ clock \in Nat
      /\ refill = [a \in Args |-> [at |-> 0, before |-> 0, passed |-> 0]]
      /\ slots = [a \in Args |-> {}]
  BY HotspotAssumption DEF Init
<1>2. Cache(<<>>) /\ \A a \in Args : ~Has(<<>>, a)
  BY SMT DEF Cache, Has
<1>3. /\ Idle \in Request /\ Idle.pc = "idle" /\ Idle.timePtr = 0 /\ Idle.ptr = 0
  <2> DEFINE any == CHOOSE b \in Args : TRUE
  <2>1. any \in Args
    BY HotspotAssumption
  <2>2. Idle = [pc |-> "idle", arg |-> any, batch |-> 0, now |-> 0, timePtr |-> 0,
                ptr |-> 0, seen |-> 0, next |-> 0, first |-> FALSE]
    BY DEF Idle
  <2> HIDE DEF any
  <2>3. "idle" \in Pcs
    BY SMT DEF Pcs
  <2> QED BY SMT, <2>1, <2>2, <2>3 DEF Request
<1>4. \A r \in Req : req[r] = Idle
  BY <1>1
<1>5. /\ \A a \in Args : refill[a] = [at |-> 0, before |-> 0, passed |-> 0]
      /\ \A a \in Args : slots[a] = {}
      /\ refill \in [Args -> [at : Nat, before : Nat, passed : Nat]]
      /\ slots \in [Args -> SUBSET [at : Int, cost : Int, by : Req]]
  BY SMT, <1>1
<1>6. TypeOK
  <2>1. heap \in [Cells -> Int]
    BY SMT, <1>1
  <2>2. req \in [Req -> Request]
    BY <1>1, <1>3
  <2> QED BY <1>1, <1>2, <1>5, <2>1, <2>2 DEF TypeOK
<1>7. Placed
  <2>1. Fits(Idle)
    BY SMT, <1>3 DEF Fits, HoldsCount, HoldsTime, ConcPcs, RejectPcs, ThrottlePcs
  <2>2. \A a \in Args : refill[a].at = 0 /\ refill[a].before = 0 /\ refill[a].passed = 0
    BY SMT, <1>5
  <2> QED BY <1>1, <1>4, <1>5, <2>1, <2>2 DEF Placed, Unused
<1>8. Busy = {}
  <2>1. Idle.pc \in Resting
    BY <1>3 DEF Resting
  <2> QED BY <1>4, <2>1 DEF Busy
<1>9. NoAlias
  <2>1. ASSUME NEW a \in Args, NEW c \in Cells
        PROVE  ~TimeRef(a, c) /\ ~CountRef(a, c)
    <3>1. c # 0
      BY ZeroIsNoCell
    <3> QED BY <3>1, <1>1, <1>2, <1>3, <1>4 DEF TimeRef, CountRef
  <2> QED BY <2>1 DEF NoAlias
<1> QED
  BY <1>6, <1>7, <1>8, <1>9 DEF Shape

----------------------------------------------------------------------------
(* Concurrency                                                               *)

\* How sets of requests are counted.
Counting ==
    /\ Cardinality({}) = 0 /\ \A r \in Req : Cardinality({r}) = 1
    /\ \A S \in SUBSET Req : Cardinality(S) \in Nat
    /\ \A S, T \in SUBSET Req :
         /\ S \subseteq T => Cardinality(S) <= Cardinality(T)
         /\ Cardinality(S \cup T) <= Cardinality(S) + Cardinality(T)
    /\ \A S \in SUBSET Req : \A r \in Req :
         /\ r \notin S => Cardinality(S \cup {r}) = Cardinality(S) + 1
         /\ r \in S => Cardinality(S \ {r}) = Cardinality(S) - 1

\* Request r joins the requests of its value in T.
LEMMA AmongMore ==
    ASSUME NEW r \in Req, OnlyReq(r), NEW a \in Args, req[r].arg = a, req'[r].arg = a,
           NEW T, req'[r].pc \in T, req[r].pc \notin T
    PROVE  Among(req', a, T) = Among(req, a, T) \cup {r} /\ r \notin Among(req, a, T)
<1>1. \A q \in Req : (req'[q].arg = a /\ req'[q].pc \in T)
                        <=> (req[q].arg = a /\ req[q].pc \in T) \/ q = r
  BY DEF OnlyReq
<1> QED
  BY <1>1 DEF Among

\* Request r leaves the requests of its value in T.
LEMMA AmongLess ==
    ASSUME NEW r \in Req, OnlyReq(r), NEW a \in Args, req[r].arg = a, req'[r].arg = a,
           NEW T, req'[r].pc \notin T, req[r].pc \in T
    PROVE  Among(req', a, T) = Among(req, a, T) \ {r} /\ r \in Among(req, a, T)
<1>1. \A q \in Req : (req'[q].arg = a /\ req'[q].pc \in T)
                        <=> (req[q].arg = a /\ req[q].pc \in T) /\ q # r
  BY DEF OnlyReq
<1> QED
  BY <1>1 DEF Among

\* The requests of a value are counted.
LEMMA AmongCounted ==
    ASSUME Counting, NEW m, NEW a, NEW T
    PROVE  Among(m, a, T) \in SUBSET Req /\ Cardinality(Among(m, a, T)) \in Nat
<1>1. Among(m, a, T) \in SUBSET Req
  BY DEF Among
<1> QED
  BY <1>1 DEF Counting

Counted == {"inside", "dec"}
Admitted == {"admitted", "inc", "inside", "uncounted", "dec"}

\* While no counter in use was evicted, a request in flight has the counter.
ConcHeld(a) ==
    \A r \in Req : req[r].arg = a =>
        /\ req[r].pc \in InFlight => Has(conc, a) /\ req[r].pc # "uncounted"
        /\ req[r].pc \in {"load", "inc", "dec"} => req[r].ptr = CellOf(conc, a)
ConcExact(a) == Has(conc, a) => heap[CellOf(conc, a)] = Cardinality(Among(req, a, Counted))
ConcOver(a) ==
    Cardinality(Among(req, a, Admitted)) <= (IF Limit(a) > 1 THEN Limit(a) ELSE 1) - 1 + Parallel
ConcOk(a) == ConcHeld(a) /\ ConcExact(a) /\ ConcOver(a)
ConcInv == rule.behavior = "Concurrency" => \A a \in Args \ lost : ConcOk(a)

\* Every step keeps the invariant of the concurrency counters.
LEMMA ConcNext ==
    ASSUME Counting, Base, ConcInv, [Next]_vars
    PROVE  ConcInv'
\* Values that a step does not concern: their entry stays, or is evicted with
\* nobody in flight.
<1>ConcOther.
      ASSUME NEW r \in Req, OnlyReq(r), rule' = rule, NEW a \in Args, ConcOk(a),
             \/ a # req[r].arg /\ req'[r].arg = req[r].arg
             \/ req'[r].pc \notin InFlight /\ req[r].pc \notin InFlight,
             Has(conc', a) => Has(conc, a) /\ CellOf(conc', a) = CellOf(conc, a),
             Has(conc, a) /\ ~Has(conc', a) => Among(req, a, InFlight) = {},
             Has(conc, a) => heap'[CellOf(conc, a)] = heap[CellOf(conc, a)]
      PROVE  ConcOk(a)'
  <2> USE <1>ConcOther
  <2>1. /\ Counted \subseteq InFlight /\ Admitted \subseteq InFlight
        /\ {"load", "inc", "dec"} \subseteq InFlight
    BY SMT DEF InFlight, Counted, Admitted
  <2>2. \A q \in Req : req'[q].arg = a /\ req'[q].pc \in InFlight => req[q] = req'[q]
    BY DEF OnlyReq
  <2>3. ASSUME NEW T, T \subseteq InFlight
        PROVE  Among(req', a, T) = Among(req, a, T)
    BY <2>3, AmongSame
  <2>4. ConcHeld(a)'
    <3> SUFFICES ASSUME NEW q \in Req, req'[q].arg = a, req'[q].pc \in InFlight
                 PROVE  /\ Has(conc', a) /\ req'[q].pc # "uncounted"
                        /\ req'[q].pc \in {"load", "inc", "dec"} => req'[q].ptr = CellOf(conc', a)
      BY <2>1 DEF ConcHeld
    <3>1. req[q] = req'[q] /\ q \in Among(req, a, InFlight)
      BY <2>2 DEF Among
    <3>2. Has(conc, a) /\ req[q].pc # "uncounted"
          /\ (req[q].pc \in {"load", "inc", "dec"} => req[q].ptr = CellOf(conc, a))
      BY <3>1 DEF ConcOk, ConcHeld
    <3>3. Has(conc', a)
      BY <3>1, <3>2
    <3> QED BY <3>1, <3>2, <3>3
  <2>5. ConcExact(a)'
    <3>1. Among(req', a, Counted) = Among(req, a, Counted)
      BY <2>1, <2>3
    <3> QED BY <3>1 DEF ConcOk, ConcExact
  <2>6. ConcOver(a)'
    <3>1. Among(req', a, Admitted) = Among(req, a, Admitted)
      BY <2>1, <2>3
    <3> QED BY <3>1 DEF ConcOk, ConcOver, Limit
  <2> QED
    BY <2>4, <2>5, <2>6 DEF ConcOk
\* Steps that have nothing to do with the counters.
<1>ConcTick.
      ASSUME ConcInv, UNCHANGED <<rule, conc, heap, req, lost>>
      PROVE  ConcInv'
  BY <1>ConcTick DEF ConcInv, ConcOk, ConcHeld, ConcExact, ConcOver, Limit
\* Slot.Check starts a goroutine when it may.
<1>ConcCheck.
      ASSUME Base, ConcInv, NEW r \in Req, Check(r)
      PROVE  ConcInv'
  <2> USE <1>ConcCheck
  <2>1. OnlyReq(r) /\ req'[r].pc \in {"count", "blocked", "reject", "throttle"}
    <3>1. PICK n : /\ req' = [req EXCEPT ![r] = n]
                   /\ n.pc \in {"count", "blocked", "reject", "throttle"}
      BY CheckShape
    <3> QED BY <3>1, ReqStep
  <2>2. req[r].pc = "idle" /\ UNCHANGED <<rule, conc, heap, lost>>
    BY DEF Check, At, caches, ghosts
  <2>3. req'[r].pc \notin InFlight /\ req[r].pc \notin InFlight
    BY SMT, <2>1, <2>2 DEF InFlight
  <2> SUFFICES ASSUME rule.behavior = "Concurrency", NEW a \in Args \ lost, ConcOk(a)
               PROVE  ConcOk(a)'
    BY <2>2 DEF ConcInv
  <2> QED
    BY <2>1, <2>2, <2>3, <1>ConcOther
\* What is known of the counter that a request in flight goes on with.
<1>ConcFact.
      ASSUME Base, ConcInv, NEW r \in Req, req[r].pc \in ConcPcs, req[r].arg \notin lost
      PROVE  /\ rule.behavior = "Concurrency" /\ ConcOk(req[r].arg) /\ req[r].arg \in Args
             /\ req[r].pc \in InFlight => Has(conc, req[r].arg) /\ req[r].pc # "uncounted"
             /\ req[r].pc \in {"load", "inc", "dec"} => req[r].ptr = CellOf(conc, req[r].arg)
  <2> USE <1>ConcFact
  <2>1. rule.behavior = "Concurrency" /\ req[r].arg \in Args
    BY ReqFact DEF Fits
  <2> QED
    BY <2>1 DEF ConcInv, ConcOk, ConcHeld
\* A request looks the counter up, or puts it in.
<1>ConcCountFirst.
      ASSUME Base, ConcInv, NEW r \in Req, CountFirst(r)
      PROVE  ConcInv'
  <2> USE <1>ConcCountFirst
  <2> DEFINE k == req[r].arg
  <2>1. /\ req[r].pc = "count" /\ conc' = AddIfAbsent(conc, k, Fresh)
        /\ heap' = Stored(conc, k, 0) /\ Loses(conc, conc') /\ rule' = rule
        /\ IF Has(conc, k)
           THEN req' = [req EXCEPT ![r] = [req[r] EXCEPT !.pc = "load", !.ptr = CellOf(conc, k)]]
           ELSE req' = [req EXCEPT ![r] = [req[r] EXCEPT !.pc = "admitted"]]
    BY DEF CountFirst, At, Set, Goto
  <2>2. req[r] \in Request /\ k \in Args /\ Fits(req[r])
    BY ReqFact
  <2>3. /\ OnlyReq(r) /\ req'[r].arg = k
        /\ Has(conc, k) => req'[r].pc = "load" /\ req'[r].ptr = CellOf(conc, k)
        /\ ~Has(conc, k) => req'[r].pc = "admitted"
    <3>1. CASE Has(conc, k)
      <4>1. OnlyReq(r) /\ req'[r] = [req[r] EXCEPT !.pc = "load", !.ptr = CellOf(conc, k)]
        BY <2>1, <3>1, ReqStep
      <4> QED BY SMT, <3>1, <4>1, <2>2 DEF Request
    <3>2. CASE ~Has(conc, k)
      <4>1. OnlyReq(r) /\ req'[r] = [req[r] EXCEPT !.pc = "admitted"]
        BY <2>1, <3>2, ReqStep
      <4> QED BY SMT, <3>2, <4>1, <2>2 DEF Request
    <3> QED BY <3>1, <3>2
  <2>4. req[r].pc \notin InFlight /\ req[r].pc \in ConcPcs /\ rule.behavior = "Concurrency"
    BY SMT, <2>1, <2>2 DEF InFlight, ConcPcs, Fits
  <2>5. Cache(conc) /\ rule \in Rules /\ Fresh \in Cells /\ heap \in [Cells -> Int]
    BY DEF Base, Shape, TypeOK
  <2>6. CacheStep(conc, conc', k, TRUE) /\ Cache(conc')
    <3>1. CacheStep(conc, conc', k, TRUE)
      BY <2>1, <2>2, <2>5, CacheSteps
    <3> QED BY <3>1 DEF CacheStep
  <2>7. ASSUME NEW a \in Args, Has(conc, a)
        PROVE  heap'[CellOf(conc, a)] = heap[CellOf(conc, a)]
    <3>1. CellOf(conc, a) # Fresh /\ CellOf(conc, a) \in Cells
      BY <2>5, <2>7, CellApart, CellType
    <3> QED BY <2>1, <2>5, <3>1 DEF Stored
  <2> SUFFICES ASSUME NEW a \in Args, a \notin lost'
               PROVE  ConcOk(a)'
    BY DEF ConcInv
  <2>8. a \notin lost /\ (Has(conc, a) /\ ~Has(conc', a) => Among(req, a, InFlight) = {})
    BY <2>1, <2>5, <2>6, LostFact
  <2>9. ConcOk(a)
    BY <2>4, <2>8 DEF ConcInv
  <2> HIDE DEF k
  <2>10. CASE a # k
    <3>1. Has(conc', a) => Has(conc, a) /\ CellOf(conc', a) = CellOf(conc, a)
      BY <2>6, <2>10 DEF CacheStep
    <3> QED BY <2>1, <2>3, <2>7, <2>8, <2>9, <2>10, <3>1, <1>ConcOther DEF k
  <2>11. CASE a = k /\ Has(conc, a)
    <3>1. Has(conc', a) /\ CellOf(conc', a) = CellOf(conc, a)
      <4>1. SameMap(conc, conc')
        BY <2>1, <2>5, <2>11, AddPresent
      <4> QED BY <2>11, <4>1 DEF SameMap
    <3>2. req'[r].arg = a /\ req[r].arg = a /\ req'[r].pc = "load" /\ req'[r].ptr = CellOf(conc, a)
      BY <2>3, <2>11 DEF k
    <3>3. "load" \notin Counted /\ "load" \notin Admitted /\ "load" # "uncounted"
          /\ req[r].pc \notin Counted /\ req[r].pc \notin Admitted
      BY SMT, <2>1 DEF Counted, Admitted
    <3>4. /\ Among(req', a, Counted) = Among(req, a, Counted)
          /\ Among(req', a, Admitted) = Among(req, a, Admitted)
      BY <2>3, <3>2, <3>3, AmongSame
    <3>5. ConcHeld(a)'
      BY <2>3, <2>9, <3>1, <3>2, <3>3 DEF ConcHeld, ConcOk, OnlyReq
    <3>6. ConcExact(a)'
      BY <2>7, <2>9, <2>11, <3>1, <3>4 DEF ConcExact, ConcOk
    <3>7. ConcOver(a)'
      BY <2>1, <2>9, <3>4 DEF ConcOver, ConcOk, Limit
    <3> QED BY <3>5, <3>6, <3>7 DEF ConcOk
  <2>12. CASE a = k /\ ~Has(conc, a)
    <3>1. Has(conc', a) /\ CellOf(conc', a) = Fresh
      BY <2>1, <2>5, <2>12, AddAbsent
    <3>2. heap'[Fresh] = 0
      BY <2>1, <2>5, <2>12 DEF Stored
    <3>3. req'[r].arg = a /\ req[r].arg = a /\ req'[r].pc = "admitted"
      BY <2>3, <2>12 DEF k
    <3>4. \A q \in Req : req[q].arg = a => req[q].pc \notin InFlight
      BY <2>9, <2>12 DEF ConcOk, ConcHeld
    <3>5. \A q \in Req : req'[q].arg = a /\ req'[q].pc \in InFlight => q = r
      BY <2>3, <3>4 DEF OnlyReq
    <3>6. "admitted" # "uncounted" /\ "admitted" \notin {"load", "inc", "dec"}
          /\ {"load", "inc", "dec"} \subseteq InFlight
          /\ Counted \subseteq InFlight /\ Admitted \subseteq InFlight /\ "admitted" \notin Counted
      BY SMT DEF InFlight, Counted, Admitted
    <3>7. ConcHeld(a)'
      BY <3>1, <3>3, <3>5, <3>6 DEF ConcHeld
    <3>8. Among(req', a, Counted) = {}
      BY <3>3, <3>5, <3>6 DEF Among
    <3>9. ConcExact(a)'
      <4>1. Cardinality(Among(req', a, Counted)) = 0
        BY <3>8 DEF Counting
      <4> QED BY <3>1, <3>2, <4>1 DEF ConcExact
    <3>10. ConcOver(a)'
      <4>1. Among(req', a, Admitted) \in SUBSET {r}
        BY <3>5, <3>6 DEF Among
      <4>2. Cardinality({r}) = 1 /\ {r} \in SUBSET Req /\ Among(req', a, Admitted) \in SUBSET Req
        BY AmongCounted DEF Counting
      <4>3. Cardinality(Among(req', a, Admitted)) <= 1
        BY <4>1, <4>2 DEF Counting
      <4>4. Cardinality(Among(req', a, Admitted)) \in Nat /\ Parallel \in Nat \ {0}
        BY AmongCounted, HotspotAssumption
      <4>5. Limit(a) \in Int /\ Limit(a)' = Limit(a)
        BY <2>1, RuleFact DEF Limit
      <4>6. Cardinality(Among(req', a, Admitted))
                <= (IF Limit(a) > 1 THEN Limit(a) ELSE 1) - 1 + Parallel
        BY SMT, <4>3, <4>4, <4>5
      <4> QED BY <4>5, <4>6 DEF ConcOver
    <3> QED BY <3>7, <3>9, <3>10 DEF ConcOk
  <2> QED
    BY <2>10, <2>11, <2>12
\* A request compares the counter with the limit.
<1>ConcCheckConcurrency.
      ASSUME Base, ConcInv, NEW r \in Req, CheckConcurrency(r)
      PROVE  ConcInv'
  <2> USE <1>ConcCheckConcurrency
  <2> DEFINE k == req[r].arg
             m == [req[r] EXCEPT !.pc = "admitted", !.ptr = 0]
  <2>1. /\ req[r].pc = "load" /\ UNCHANGED <<rule, conc, heap, lost>>
        /\ \/ heap[req[r].ptr] + 1 <= Limit(k) /\ req' = [req EXCEPT ![r] = m]
           \/ req' = [req EXCEPT ![r] = Rest("blocked", k)]
    BY DEF CheckConcurrency, At, Set, End, caches, ghosts
  <2>2. req[r] \in Request /\ k \in Args /\ Fits(req[r])
    BY ReqFact
  <2>3. /\ OnlyReq(r) /\ req'[r].arg = k
        /\ \/ heap[req[r].ptr] + 1 <= Limit(k) /\ req'[r].pc = "admitted"
           \/ req'[r].pc = "blocked"
    <3>1. CASE heap[req[r].ptr] + 1 <= Limit(k) /\ req' = [req EXCEPT ![r] = m]
      <4>1. OnlyReq(r) /\ req'[r] = m
        BY <3>1, ReqStep
      <4>2. m.pc = "admitted" /\ m.arg = k
        BY SMT, <2>2 DEF Request
      <4> QED BY <3>1, <4>1, <4>2
    <3>2. CASE req' = [req EXCEPT ![r] = Rest("blocked", k)]
      BY <3>2, ReqStep, StopFact
    <3> QED BY <2>1, <3>1, <3>2
  <2>4. req[r].pc \in InFlight /\ req[r].pc \in ConcPcs
    BY SMT, <2>1 DEF InFlight, ConcPcs
  <2> SUFFICES ASSUME NEW a \in Args, a \notin lost, rule.behavior = "Concurrency"
               PROVE  ConcOk(a)'
    BY <2>1 DEF ConcInv
  <2>5. ConcOk(a)
    BY DEF ConcInv
  <2> HIDE DEF k, m
  <2>6. CASE a # k
    BY <2>1, <2>3, <2>5, <2>6, <1>ConcOther DEF k
  <2>7. CASE a = k
    <3>1. req[r].arg = a /\ req'[r].arg = a /\ Has(conc, a) /\ req[r].ptr = CellOf(conc, a)
      BY <2>1, <2>3, <2>4, <2>7, <1>ConcFact DEF k
    <3>2. "admitted" \notin Counted /\ "admitted" # "uncounted" /\ "admitted" \in Admitted
          /\ "admitted" \notin {"load", "inc", "dec"}
          /\ "blocked" \notin Counted /\ "blocked" \notin InFlight /\ "blocked" \notin Admitted
          /\ "blocked" \notin {"load", "inc", "dec"}
          /\ req[r].pc \notin Counted /\ req[r].pc \notin Admitted
      BY SMT, <2>1 DEF Counted, Admitted, InFlight
    <3>3. Among(req', a, Counted) = Among(req, a, Counted)
      BY <2>3, <3>2, AmongSame
    <3>4. ConcHeld(a)'
      BY <2>1, <2>3, <2>5, <3>1, <3>2 DEF ConcHeld, ConcOk, OnlyReq
    <3>5. ConcExact(a)'
      BY <2>1, <2>5, <3>3 DEF ConcExact, ConcOk
    <3>6. ConcOver(a)'
      <4>1. CASE req'[r].pc = "blocked"
        <5>1. Among(req', a, Admitted) = Among(req, a, Admitted)
          BY <2>3, <3>2, <4>1, AmongSame
        <5> QED BY <2>1, <2>5, <5>1 DEF ConcOver, ConcOk, Limit
      <4>2. CASE heap[req[r].ptr] + 1 <= Limit(k) /\ req'[r].pc = "admitted"
        <5> DEFINE C == Among(req, a, Counted)
                   A == Among(req', a, Admitted)
        <5>1. ASSUME NEW q \in A
              PROVE  q \in C \cup Busy
          <6>1. q \in Req /\ req'[q].arg = a /\ req'[q].pc \in Admitted
            BY DEF Among
          <6>2. CASE q = r
            <7>1. r \in Busy
              BY SMT, <2>1 DEF Busy, Resting
            <7> QED BY <6>2, <7>1
          <6>3. CASE q # r
            <7>1. req[q].arg = a /\ req[q].pc \in Admitted
              BY <6>1, <6>3, <2>3 DEF OnlyReq
            <7>2. req[q].pc \in InFlight
              BY SMT, <7>1 DEF Admitted, InFlight
            <7>3. req[q].pc # "uncounted"
              BY <6>1, <7>1, <7>2, <2>5 DEF ConcOk, ConcHeld
            <7>4. req[q].pc \in Counted \/ req[q].pc \notin Resting
              BY SMT, <7>1, <7>3 DEF Admitted, Counted, Resting
            <7> QED BY <6>1, <7>1, <7>4 DEF Among, Busy
          <6> QED BY <6>2, <6>3
        <5>2. /\ C \in SUBSET Req /\ A \in SUBSET Req
              /\ Cardinality(C) \in Nat /\ Cardinality(A) \in Nat
          BY AmongCounted
        <5>3. Busy \in SUBSET Req /\ Cardinality(Busy) \in Nat /\ Cardinality(Busy) <= Parallel
          BY Busy \in SUBSET Req DEF Counting, Busy, Base, BusyBounded
        <5>4. heap[CellOf(conc, a)] = Cardinality(C)
          BY <2>5, <3>1 DEF ConcOk, ConcExact
        <5>5. Cardinality(C) + 1 <= Limit(a)
          BY <2>7, <3>1, <4>2, <5>4
        <5>6. A \in SUBSET (C \cup Busy)
          BY <5>1
        <5> HIDE DEF C, A
        <5>7. /\ C \cup Busy \in SUBSET Req /\ Cardinality(C \cup Busy) \in Nat
              /\ Cardinality(C \cup Busy) <= Cardinality(C) + Cardinality(Busy)
          BY <5>2, <5>3, C \cup Busy \in SUBSET Req DEF Counting
        <5>8. Cardinality(A) <= Cardinality(C \cup Busy)
          BY <5>2, <5>6, <5>7 DEF Counting
        <5>9. Limit(a) \in Int /\ Limit(a)' = Limit(a) /\ Parallel \in Nat
          BY <2>1, RuleFact, HotspotAssumption DEF Limit
        <5>10. Cardinality(A) <= (IF Limit(a) > 1 THEN Limit(a) ELSE 1) - 1 + Parallel
          BY SMT, <5>2, <5>3, <5>5, <5>7, <5>8, <5>9
        <5> QED BY <5>9, <5>10 DEF ConcOver, A
      <4> QED BY <2>3, <4>1, <4>2
    <3> QED BY <3>4, <3>5, <3>6 DEF ConcOk
  <2> QED
    BY <2>6, <2>7
\* OnEntryPassed and OnCompleted look the counter up.
<1>ConcCallback.
      ASSUME Base, ConcInv, NEW r \in Req, OnEntryPassed(r) \/ OnCompleted(r)
      PROVE  ConcInv'
  <2> USE <1>ConcCallback
  <2> DEFINE k == req[r].arg
  <2>1. PICK adding \in {"inc", "dec"}, skipped \in {"uncounted", "done"} :
          /\ \/ req[r].pc = "admitted" /\ adding = "inc"
             \/ req[r].pc \in {"inside", "uncounted"} /\ adding = "dec"
          /\ Callback(r, adding, skipped)
    BY DEF OnEntryPassed, OnCompleted, At
  <2> DEFINE m == [req[r] EXCEPT !.pc = adding, !.ptr = CellOf(conc, k)]
  <2>2. /\ conc' = Get(conc, k) /\ UNCHANGED <<rule, heap, lost>>
        /\ Has(conc, k) => req' = [req EXCEPT ![r] = m]
        /\ ~Has(conc, k) => req' = [req EXCEPT ![r] = Rest(skipped, k)]
    BY <2>1 DEF Callback, Set, End, ghosts
  <2>3. req[r] \in Request /\ k \in Args /\ Cache(conc)
    BY ReqFact DEF Base, Shape, TypeOK
  <2>4. OnlyReq(r) /\ req'[r].arg = k
        /\ (Has(conc, k) => req'[r].pc = adding /\ req'[r].ptr = CellOf(conc, k))
    <3>1. CASE Has(conc, k)
      <4>1. OnlyReq(r) /\ req'[r] = m
        BY <2>2, <3>1, ReqStep
      <4>2. m.arg = k /\ m.pc = adding /\ m.ptr = CellOf(conc, k)
        BY SMT, <2>3 DEF Request
      <4> QED BY <4>1, <4>2
    <3>2. CASE ~Has(conc, k)
      <4>1. skipped \in Pcs
        BY SMT DEF Pcs, ConcPcs
      <4>2. OnlyReq(r) /\ req'[r] = Rest(skipped, k)
        BY <2>2, <3>2, ReqStep
      <4>3. Rest(skipped, k).arg = k
        BY <2>3, <4>1, RestFact
      <4> QED BY <3>2, <4>2, <4>3
    <3> QED BY <3>1, <3>2
  <2>5. SameMap(conc, conc')
    BY <2>2, <2>3, GetFact
  <2>6. req[r].pc \in InFlight /\ req[r].pc \in ConcPcs
    BY SMT, <2>1 DEF InFlight, ConcPcs
  <2> SUFFICES ASSUME NEW a \in Args, a \notin lost, rule.behavior = "Concurrency"
               PROVE  ConcOk(a)'
    BY <2>2 DEF ConcInv
  <2>7. ConcOk(a)
    BY DEF ConcInv
  <2>8. Has(conc', a) = Has(conc, a) /\ (Has(conc, a) => CellOf(conc', a) = CellOf(conc, a))
    BY <2>5 DEF SameMap
  <2> HIDE DEF k, m
  <2>9. CASE a # k
    BY <2>2, <2>4, <2>7, <2>8, <2>9, <1>ConcOther DEF k
  <2>10. CASE a = k
    <3>1. /\ req[r].arg = a /\ req'[r].arg = a /\ Has(conc, a) /\ req[r].pc # "uncounted"
          /\ req'[r].pc = adding /\ req'[r].ptr = CellOf(conc, a)
      BY <2>4, <2>6, <2>10, <1>ConcFact DEF k
    <3>2. /\ \/ adding \in Counted /\ req[r].pc \in Counted
             \/ adding \notin Counted /\ req[r].pc \notin Counted
          /\ adding \in Admitted /\ req[r].pc \in Admitted /\ adding # "uncounted"
      BY SMT, <2>1, <3>1 DEF Counted, Admitted
    <3>3. /\ Among(req', a, Counted) = Among(req, a, Counted)
          /\ Among(req', a, Admitted) = Among(req, a, Admitted)
      BY <2>4, <3>1, <3>2, AmongSame
    <3>4. ConcHeld(a)'
      BY <2>4, <2>7, <2>8, <3>1, <3>2 DEF ConcHeld, ConcOk, OnlyReq
    <3>5. ConcExact(a)'
      BY <2>2, <2>7, <2>8, <3>3 DEF ConcExact, ConcOk
    <3>6. ConcOver(a)'
      BY <2>2, <2>7, <3>3 DEF ConcOver, ConcOk, Limit
    <3> QED BY <3>4, <3>5, <3>6 DEF ConcOk
  <2> QED
    BY <2>9, <2>10
<1>ConcAddInt64.
      ASSUME Base, ConcInv, NEW r \in Req, Increment(r) \/ Decrement(r)
      PROVE  ConcInv'
  <2> USE <1>ConcAddInt64
  <2> DEFINE k == req[r].arg
             p == req[r].ptr
  <2>1. PICK delta \in {1, -1}, pc \in {"inside", "done"} :
          /\ \/ req[r].pc = "inc" /\ delta = 1 /\ pc = "inside"
             \/ req[r].pc = "dec" /\ delta = -1 /\ pc = "done"
          /\ AddInt64(r, delta, pc)
    BY DEF Increment, Decrement, At
  <2>2. /\ heap' = [heap EXCEPT ![p] = heap[p] + delta] /\ UNCHANGED <<rule, conc, lost>>
        /\ req' = [req EXCEPT ![r] = Rest(pc, k)]
    BY <2>1 DEF AddInt64, End, Set, caches, ghosts
  <2>3. k \in Args /\ Cache(conc) /\ heap \in [Cells -> Int]
    BY ReqFact DEF Base, Shape, TypeOK
  <2>4. OnlyReq(r) /\ req'[r].arg = k /\ req'[r].pc = pc
    <3>1. pc \in Pcs
      BY SMT DEF Pcs, ConcPcs
    <3>2. OnlyReq(r) /\ req'[r] = Rest(pc, k)
      BY <2>2, ReqStep
    <3>3. Rest(pc, k).arg = k /\ Rest(pc, k).pc = pc
      BY <2>3, <3>1, RestFact
    <3> QED BY <3>2, <3>3
  <2>5. req[r].pc \in InFlight /\ req[r].pc \in ConcPcs /\ req[r].pc \in {"load", "inc", "dec"}
    BY SMT, <2>1 DEF InFlight, ConcPcs
  <2> SUFFICES ASSUME NEW a \in Args, a \notin lost, rule.behavior = "Concurrency"
               PROVE  ConcOk(a)'
    BY <2>2 DEF ConcInv
  <2>6. ConcOk(a)
    BY DEF ConcInv
  <2>7. CASE a # k
    <3>1. ASSUME Has(conc, a)
          PROVE  heap'[CellOf(conc, a)] = heap[CellOf(conc, a)]
      <4>1. CellOf(conc, a) # p /\ CellOf(conc, a) \in Cells
        BY <2>3, <2>7, <3>1, CellApart, CellType
      <4> QED BY <2>2, <2>3, <4>1
    <3> QED BY <2>2, <2>4, <2>6, <2>7, <3>1, <1>ConcOther
  <2>8. CASE a = k
    <3>1. /\ req[r].arg = a /\ req'[r].arg = a /\ Has(conc, a) /\ p = CellOf(conc, a)
      BY <2>4, <2>5, <2>8, <1>ConcFact
    <3>2. p \in Cells
      BY <2>3, <3>1, CellType
    <3>3. heap'[p] = heap[p] + delta
      BY <2>2, <2>3, <3>2
    <3>4. heap[p] = Cardinality(Among(req, a, Counted))
      BY <2>6, <3>1 DEF ConcOk, ConcExact
    <3> HIDE DEF p, k
    <3>5. ConcHeld(a)'
      <4>1. pc \notin {"load", "inc", "dec"} /\ pc # "uncounted"
        BY SMT, <2>1
      <4> QED BY <2>2, <2>4, <2>6, <3>1, <4>1 DEF ConcHeld, ConcOk, OnlyReq
    <3>6. /\ Among(req, a, Counted) \in SUBSET Req /\ Among(req, a, Admitted) \in SUBSET Req
          /\ Cardinality(Among(req, a, Counted)) \in Nat
      BY AmongCounted
    <3>7. CASE req[r].pc = "inc" /\ delta = 1 /\ pc = "inside"
      <4>1. pc \in Counted /\ req[r].pc \notin Counted /\ pc \in Admitted /\ req[r].pc \in Admitted
        BY SMT, <3>7 DEF Counted, Admitted
      <4>2. Among(req', a, Counted) = Among(req, a, Counted) \cup {r}
                /\ r \notin Among(req, a, Counted)
        BY <2>4, <3>1, <4>1, AmongMore
      <4>3. Cardinality(Among(req', a, Counted)) = Cardinality(Among(req, a, Counted)) + 1
        BY <3>6, <4>2 DEF Counting
      <4>4. ConcExact(a)'
        BY <2>2, <3>1, <3>3, <3>4, <3>7, <4>3 DEF ConcExact
      <4>5. Among(req', a, Admitted) = Among(req, a, Admitted)
        BY <2>4, <3>1, <4>1, AmongSame
      <4>6. ConcOver(a)'
        BY <2>2, <2>6, <4>5 DEF ConcOver, ConcOk, Limit
      <4> QED BY <3>5, <4>4, <4>6 DEF ConcOk
    <3>8. CASE req[r].pc = "dec" /\ delta = -1 /\ pc = "done"
      <4>1. pc \notin Counted /\ req[r].pc \in Counted /\ pc \notin Admitted
                /\ req[r].pc \in Admitted
        BY SMT, <3>8 DEF Counted, Admitted
      <4>2. Among(req', a, Counted) = Among(req, a, Counted) \ {r} /\ r \in Among(req, a, Counted)
        BY <2>4, <3>1, <4>1, AmongLess
      <4>3. Cardinality(Among(req', a, Counted)) = Cardinality(Among(req, a, Counted)) - 1
        BY <3>6, <4>2 DEF Counting
      <4>4. heap'[p] = Cardinality(Among(req', a, Counted))
        BY SMT, <3>3, <3>4, <3>6, <3>8, <4>3
      <4>5. ConcExact(a)'
        BY <2>2, <3>1, <4>4 DEF ConcExact
      <4>6. Among(req', a, Admitted) \in SUBSET Among(req, a, Admitted)
        <5>1. Among(req', a, Admitted) = Among(req, a, Admitted) \ {r}
          BY <2>4, <3>1, <4>1, AmongLess
        <5> QED BY <5>1
      <4>7. Cardinality(Among(req', a, Admitted)) <= Cardinality(Among(req, a, Admitted))
        BY <3>6, <4>6, AmongCounted DEF Counting
      <4>8. /\ Cardinality(Among(req', a, Admitted)) \in Nat
            /\ Cardinality(Among(req, a, Admitted)) \in Nat
            /\ Limit(a) \in Int /\ Limit(a)' = Limit(a) /\ Parallel \in Nat
        BY <2>2, AmongCounted, RuleFact, HotspotAssumption DEF Limit
      <4>9. Cardinality(Among(req', a, Admitted))
                <= (IF Limit(a) > 1 THEN Limit(a) ELSE 1) - 1 + Parallel
        <5>1. Cardinality(Among(req, a, Admitted))
                  <= (IF Limit(a) > 1 THEN Limit(a) ELSE 1) - 1 + Parallel
          BY <2>6 DEF ConcOk, ConcOver
        <5> QED BY SMT, <4>7, <4>8, <5>1
      <4>10. ConcOver(a)'
        BY <4>8, <4>9 DEF ConcOver
      <4> QED BY <3>5, <4>5, <4>10 DEF ConcOk
    <3> QED BY <2>1, <3>7, <3>8
  <2> QED
    BY <2>7, <2>8
<1>1. CASE UNCHANGED <<rule, times, tokens, conc, heap, req, ghosts>>
  BY <1>1, <1>ConcTick DEF ghosts
<1>2. ASSUME NEW r \in Req, ConcStep(r)
      PROVE  ConcInv'
  BY <1>2, <1>ConcCountFirst, <1>ConcCheckConcurrency, <1>ConcCallback, <1>ConcAddInt64 DEF ConcStep
<1>3. ASSUME NEW r \in Req, RejectStep(r) \/ ThrottleStep(r)
      PROVE  ConcInv'
  <2>1. rule.behavior \in {"Reject", "Throttling"} /\ rule' = rule
    BY <1>3, StepFits
  <2>2. rule'.behavior # "Concurrency"
    BY SMT, <2>1
  <2> QED BY <2>2 DEF ConcInv
<1> QED
  BY <1>1, <1>2, <1>3, NextCases, <1>ConcCheck

\* Nothing is counted in the beginning.
LEMMA ConcInit ==
    ASSUME Counting, Init
    PROVE  ConcInv
<1> SUFFICES ASSUME NEW a \in Args PROVE ConcOk(a)
  BY DEF ConcInv
<1>1. conc = <<>> /\ \A r \in Req : req[r].pc = "idle"
  <2>1. Idle.pc = "idle"
    BY SMT DEF Idle
  <2> QED BY <2>1 DEF Init
<1>2. ~Has(conc, a)
  BY SMT, <1>1 DEF Has
<1>3. "idle" \notin InFlight /\ "idle" \notin {"load", "inc", "dec"} /\ "idle" \notin Admitted
  BY SMT DEF InFlight, Admitted
<1>4. ConcHeld(a) /\ ConcExact(a)
  BY <1>1, <1>2, <1>3 DEF ConcHeld, ConcExact
<1>5. ConcOver(a)
  <2>1. Among(req, a, Admitted) = {}
    BY <1>1, <1>3 DEF Among
  <2>2. Cardinality(Among(req, a, Admitted)) = 0 /\ Parallel \in Nat
    BY <2>1, HotspotAssumption DEF Counting
  <2>3. Limit(a) \in Int
    <3>1. rule \in Rule
      BY BaseInit, HotspotAssumption DEF Shape, TypeOK
    <3> QED BY SMT, <3>1 DEF Rule, Limit
  <2>4. Cardinality(Among(req, a, Admitted))
            <= (IF Limit(a) > 1 THEN Limit(a) ELSE 1) - 1 + Parallel
    BY SMT, <2>2, <2>3
  <2> QED BY <2>4 DEF ConcOver
<1> QED
  BY <1>4, <1>5 DEF ConcOk

----------------------------------------------------------------------------
(* What the invariants say                                                   *)

\* The counter of a value counts its requests inside.
LEMMA CountExact ==
    ASSUME Base, ConcInv
    PROVE  ConcurrencyIsExact
<1>1. CASE rule.behavior = "Concurrency"
  <2> SUFFICES ASSUME NEW a \in Args \ lost, Has(conc, a)
               PROVE  heap[CellOf(conc, a)] = Cardinality(AtAny(a, {"inside", "dec"}))
    BY DEF ConcurrencyIsExact
  <2>1. AtAny(a, {"inside", "dec"}) = Among(req, a, Counted)
    BY DEF AtAny, Among, Counted
  <2> QED BY <1>1, <2>1 DEF ConcInv, ConcOk, ConcExact
<1>2. CASE rule.behavior # "Concurrency"
  <2>1. conc = <<>>
    BY <1>2 DEF Base, Shape, Placed, Unused
  <2>2. \A a \in Args : ~Has(conc, a)
    BY SMT, <2>1 DEF Has
  <2> QED BY <2>2 DEF ConcurrencyIsExact
<1> QED BY <1>1, <1>2

\* A value exceeds its limit by the goroutines that run.
LEMMA CountBounded ==
    ASSUME Base, ConcInv
    PROVE  ConcurrencyOvershoot
<1>1. \A a \in Args : AtAny(a, {"admitted", "inc", "inside", "uncounted", "dec"})
                        = Among(req, a, Admitted)
  BY DEF AtAny, Among, Admitted
<1> QED BY <1>1 DEF ConcurrencyOvershoot, ConcInv, ConcOk, ConcOver

\* What passes between refills is bounded by what was left of one.
LEMMA PassedBounded ==
    ASSUME Base, RejectInv
    PROVE  BurstBounded
<1> SUFFICES ASSUME NEW a \in Args \ lost
             PROVE  /\ a \notin free => refill[a].passed <= IF Limit(a) > 0 THEN MaxCount(a) ELSE 0
                    /\ a \notin overlapped /\ refill[a].before > 0 =>
                           refill[a].at - refill[a].before > rule.duration
  BY DEF BurstBounded
<1>1. /\ Limit(a) \in Int /\ MaxCount(a) \in Int
      /\ refill \in [Args -> [at : Nat, before : Nat, passed : Nat]]
      /\ heap \in [Cells -> Int] /\ Cache(tokens)
  BY RuleFact DEF Base, Shape, TypeOK
<1>2. Limit(a) > 0 => MaxCount(a) >= 0
  BY SMT, <1>1, RuleFact DEF MaxCount
<1>3. CASE rule.behavior # "Reject"
  <2>1. refill[a].before = 0 /\ refill[a].passed = 0
    BY <1>3 DEF Base, Shape, Placed, Unused
  <2> QED BY SMT, <1>1, <1>2, <2>1
<1>4. CASE rule.behavior = "Reject" /\ ~Has(tokens, a)
  <2>1. refill[a].before = 0 /\ refill[a].passed = 0
    BY <1>4 DEF RejectInv, RejectOk, Unfilled
  <2> QED BY SMT, <1>1, <1>2, <2>1
<1>5. CASE rule.behavior = "Reject" /\ Has(tokens, a)
  <2>1. /\ Limit(a) > 0 /\ Left(a) >= 0
        /\ a \notin free => Left(a) + refill[a].passed <= MaxCount(a)
        /\ a \notin overlapped /\ refill[a].before > 0 =>
              refill[a].at - refill[a].before > rule.duration
    BY <1>5 DEF RejectInv, RejectOk, RejectHeld, LeftOk, RefillsApart
  <2>2. Left(a) \in Int /\ refill[a].passed \in Nat
    <3>1. CellOf(tokens, a) \in Cells
      BY <1>1, <1>5, CellType
    <3> QED BY SMT, <1>1, <3>1 DEF Left
  <2>3. a \notin free => refill[a].passed <= IF Limit(a) > 0 THEN MaxCount(a) ELSE 0
    BY SMT, <1>1, <2>1, <2>2
  <2> QED BY <2>1, <2>3
<1> QED BY <1>3, <1>4, <1>5

\* The slots of a value are spaced.
LEMMA SlotsSpaced ==
    ASSUME Base, ThrottleInv
    PROVE  ThrottledApart
<1> SUFFICES ASSUME NEW a \in Args \ (lost \cup overtaken), NEW s \in slots[a], NEW t \in slots[a]
             PROVE  /\ s.at < t.at => t.at - s.at >= t.cost
                    /\ s # t /\ s.at = t.at => s.cost = 0 \/ t.cost = 0
  BY DEF ThrottledApart
<1>1. rule.behavior = "Throttling"
  BY DEF Base, Shape, Placed, Unused
<1>2. SlotsApart(a)
  BY <1>1 DEF ThrottleInv, ThrottleOk
<1>3. Spaced(s, t) /\ s.cost >= 0 /\ t.cost >= 0
  BY <1>2 DEF SlotsApart
<1>4. s.at \in Int /\ s.cost \in Int /\ t.at \in Int /\ t.cost \in Int
  BY SlotType
<1> QED BY SMT, <1>3, <1>4 DEF Spaced

----------------------------------------------------------------------------
(* Cells and goroutines                                                      *)

INSTANCE FiniteSetTheorems

\* The image of a finite set is not larger.
LEMMA ImageBound ==
    ASSUME NEW S, IsFiniteSet(S), NEW T, NEW f \in [S -> T], \A t \in T : \E s \in S : f[s] = t
    PROVE  IsFiniteSet(T) /\ Cardinality(T) <= Cardinality(S) /\ Cardinality(T) \in Nat
<1>1. f \in Surjection(S, T)
  BY DEF Surjection
<1> QED
  BY <1>1, FS_Surjection, FS_CardinalityType

\* A union has at most as many members as its parts together.
LEMMA UnionBound ==
    ASSUME NEW S, NEW T, IsFiniteSet(S), IsFiniteSet(T)
    PROVE  /\ IsFiniteSet(S \cup T) /\ Cardinality(S \cup T) \in Nat
           /\ Cardinality(S \cup T) <= Cardinality(S) + Cardinality(T)
<1>1. IsFiniteSet(S \cap T) /\ IsFiniteSet(S \cup T)
  BY S \cap T \in SUBSET S, FS_Subset, FS_Union
<1>2. Cardinality(S \cap T) \in Nat /\ Cardinality(S \cup T) \in Nat
      /\ Cardinality(S) \in Nat /\ Cardinality(T) \in Nat
  BY <1>1, FS_CardinalityType
<1>3. Cardinality(S \cup T) = Cardinality(S) + Cardinality(T) - Cardinality(S \cap T)
  BY FS_Union
<1> QED
  BY SMT, <1>1, <1>2, <1>3

\* A cache points to at most as many cells as there are values.
LEMMA CacheCellsBound ==
    ASSUME NEW c, Cache(c)
    PROVE  /\ IsFiniteSet(CacheCells(c)) /\ Cardinality(CacheCells(c)) <= Cardinality(Args)
           /\ Cardinality(CacheCells(c)) \in Nat
<1> DEFINE S == {b \in Args : Has(c, b)}
           f == [a \in S |-> CellOf(c, a)]
<1>1. IsFiniteSet(S) /\ Cardinality(S) <= Cardinality(Args) /\ Cardinality(S) \in Nat
  BY S \in SUBSET Args, FS_Subset, FS_CardinalityType, HotspotAssumption
<1>2. f \in [S -> CacheCells(c)] /\ \A t \in CacheCells(c) : \E s \in S : f[s] = t
  BY DEF CacheCells
<1>3. IsFiniteSet(CacheCells(c)) /\ Cardinality(CacheCells(c)) <= Cardinality(S)
      /\ Cardinality(CacheCells(c)) \in Nat
  BY <1>1, <1>2, ImageBound
<1>4. Cardinality(Args) \in Nat
  BY FS_CardinalityType, HotspotAssumption
<1>5. Cardinality(CacheCells(c)) <= Cardinality(Args)
  BY SMT, <1>1, <1>3, <1>4
<1> QED
  BY <1>3, <1>5

\* There are finitely many requests.
LEMMA CountingFact == Counting
<1>1. ASSUME NEW S \in SUBSET Req
      PROVE  IsFiniteSet(S) /\ Cardinality(S) \in Nat
  BY FS_Subset, FS_CardinalityType, HotspotAssumption
<1>2. ASSUME NEW S \in SUBSET Req, NEW T \in SUBSET Req
      PROVE  /\ S \subseteq T => Cardinality(S) <= Cardinality(T)
             /\ Cardinality(S \cup T) <= Cardinality(S) + Cardinality(T)
  BY <1>1, FS_Subset, UnionBound
<1>3. ASSUME NEW S \in SUBSET Req, NEW r \in Req
      PROVE  /\ r \notin S => Cardinality(S \cup {r}) = Cardinality(S) + 1
             /\ r \in S => Cardinality(S \ {r}) = Cardinality(S) - 1
  BY <1>1, FS_AddElement, FS_RemoveElement
<1> QED
  BY <1>1, <1>2, <1>3, FS_EmptySet, FS_Singleton DEF Counting

\* What every step keeps.
Sound == Shape /\ BusyBounded

\* There are enough cells for the caches and for the goroutines that run, so a
\* new variable takes one that nothing points to.
LEMMA FreshFact ==
    ASSUME Sound
    PROVE  Fresh \in Cells /\ Fresh \notin Held
<1> DEFINE T == CacheCells(times)
           C == CacheCells(tokens) \cup CacheCells(conc)
           P == {req[r].timePtr : r \in Busy}
           Q == {req[r].ptr : r \in Busy}
           n == Cardinality(Args)
<1>0. TypeOK /\ Placed /\ BusyBounded
  BY DEF Sound, Shape
<1>1. n \in Nat /\ Parallel \in Nat /\ IsFiniteSet(Req)
  BY FS_CardinalityType, HotspotAssumption
<1>2. IsFiniteSet(T) /\ Cardinality(T) <= n /\ Cardinality(T) \in Nat
  BY <1>0, CacheCellsBound DEF TypeOK
<1>3. IsFiniteSet(C) /\ Cardinality(C) <= n /\ Cardinality(C) \in Nat
  <2>1. ASSUME NEW c, c = <<>>
        PROVE  CacheCells(c) = {}
    BY SMT, <2>1 DEF CacheCells, Has
  <2>2. CASE rule.behavior = "Concurrency"
    <3>1. C = CacheCells(conc)
      BY <2>1, <2>2, <1>0 DEF Placed, Unused
    <3> QED BY <3>1, <1>0, CacheCellsBound DEF TypeOK
  <2>3. CASE rule.behavior # "Concurrency"
    <3>1. C = CacheCells(tokens)
      BY <2>1, <2>3, <1>0 DEF Placed, Unused
    <3> QED BY <3>1, <1>0, CacheCellsBound DEF TypeOK
  <2> QED BY <2>2, <2>3
<1>4. IsFiniteSet(Busy) /\ Cardinality(Busy) \in Nat /\ Cardinality(Busy) <= Parallel
  BY <1>0, <1>1, Busy \in SUBSET Req, FS_Subset, FS_CardinalityType DEF Busy, BusyBounded
<1>5. IsFiniteSet(P) /\ Cardinality(P) <= Cardinality(Busy) /\ Cardinality(P) \in Nat
  <2> DEFINE f == [r \in Busy |-> req[r].timePtr]
  <2>1. f \in [Busy -> P] /\ \A t \in P : \E r \in Busy : f[r] = t
    OBVIOUS
  <2> HIDE DEF f, P
  <2> QED BY <2>1, <1>4, ImageBound
<1>6. IsFiniteSet(Q) /\ Cardinality(Q) <= Cardinality(Busy) /\ Cardinality(Q) \in Nat
  <2> DEFINE f == [r \in Busy |-> req[r].ptr]
  <2>1. f \in [Busy -> Q] /\ \A t \in Q : \E r \in Busy : f[r] = t
    OBVIOUS
  <2> HIDE DEF f, Q
  <2> QED BY <2>1, <1>4, ImageBound
<1>7. ASSUME NEW c \in Held, c \in Cells
      PROVE  c \in (T \cup C) \cup (P \cup Q)
  <2>1. ASSUME NEW r \in Req, c = req[r].timePtr \/ c = req[r].ptr
        PROVE  c \in P \cup Q
    <3>1. c # 0
      BY SMT, <1>7, <1>1 DEF Cells
    <3>2. req[r].pc \in HoldsTime \cup HoldsCount
      BY <2>1, <3>1, <1>0 DEF Placed, Fits
    <3>3. r \in Busy
      BY SMT, <3>2 DEF HoldsTime, HoldsCount, Busy, Resting
    <3> QED BY <2>1, <3>3
  <2>2. ASSUME NEW e \in Range(times) \cup Range(tokens) \cup Range(conc), c = e.cell
        PROVE  c \in T \cup C
    BY <2>2, <1>0, CacheCellsHeld DEF TypeOK
  <2>3. \/ \E e \in Range(times) \cup Range(tokens) \cup Range(conc) : c = e.cell
        \/ \E r \in Req : c = req[r].timePtr \/ c = req[r].ptr
    BY SMT, <1>7 DEF Held
  <2> QED BY <2>1, <2>2, <2>3
<1> HIDE DEF T, C, P, Q, n
<1>8. /\ IsFiniteSet(T \cup C) /\ Cardinality(T \cup C) \in Nat
      /\ Cardinality(T \cup C) <= Cardinality(T) + Cardinality(C)
  BY SMT, <1>2, <1>3, UnionBound
<1>9. /\ IsFiniteSet(P \cup Q) /\ Cardinality(P \cup Q) \in Nat
      /\ Cardinality(P \cup Q) <= Cardinality(P) + Cardinality(Q)
  BY SMT, <1>5, <1>6, UnionBound
<1>10. /\ IsFiniteSet((T \cup C) \cup (P \cup Q))
       /\ Cardinality((T \cup C) \cup (P \cup Q)) \in Nat
       /\ Cardinality((T \cup C) \cup (P \cup Q)) <= Cardinality(T \cup C) + Cardinality(P \cup Q)
  BY <1>8, <1>9, UnionBound
<1>11. Cardinality((T \cup C) \cup (P \cup Q)) <= 2 * n + 2 * Parallel
  BY SMT, <1>1, <1>2, <1>3, <1>4, <1>5, <1>6, <1>8, <1>9, <1>10
<1>12. Cardinality(Cells) = 2 * n + 2 * Parallel + 1
  BY SMT, <1>1, FS_Interval DEF Cells, n
<1>13. ~(Cells \subseteq (T \cup C) \cup (P \cup Q))
  BY SMT, <1>1, <1>10, <1>11, <1>12, FS_Subset
<1>14. \E c \in Cells : c \notin Held
  BY <1>7, <1>13
<1> QED
  BY <1>14 DEF Fresh

\* A new variable takes a cell that nothing points to.
LEMMA SoundBase ==
    ASSUME Sound
    PROVE  Base
BY FreshFact DEF Base, Sound

\* At most Parallel goroutines run at once: one starts only when it may.
LEMMA SoundNext ==
    ASSUME Sound, [Next]_vars
    PROVE  Sound'
<1>1. Kept
  BY SoundBase, BaseNext
<1>2. IsFiniteSet(Busy) /\ Cardinality(Busy) \in Nat /\ Parallel \in Nat
  BY Busy \in SUBSET Req, FS_Subset, FS_CardinalityType, HotspotAssumption DEF Busy
<1>3. CASE Busy' \subseteq Busy
  <2>1. Cardinality(Busy') <= Cardinality(Busy) /\ Cardinality(Busy') \in Nat
    BY <1>3, <1>2, FS_Subset, FS_CardinalityType
  <2>2. BusyBounded'
    BY SMT, <1>2, <2>1 DEF Sound, BusyBounded
  <2> QED BY <1>1, <2>2 DEF Sound, Shape, Kept
<1>4. ASSUME NEW r \in Req, Turn, Busy' \subseteq Busy \cup {r}
      PROVE  Sound'
  <2>1. IsFiniteSet(Busy \cup {r}) /\ Cardinality(Busy \cup {r}) <= Cardinality(Busy) + 1
    <3>1. IsFiniteSet(Busy \cup {r}) /\ Cardinality(Busy \cup {r}) =
            IF r \in Busy THEN Cardinality(Busy) ELSE Cardinality(Busy) + 1
      BY <1>2, FS_AddElement
    <3> QED BY SMT, <3>1, <1>2
  <2>2. Cardinality(Busy') <= Cardinality(Busy \cup {r}) /\ Cardinality(Busy') \in Nat
        /\ Cardinality(Busy \cup {r}) \in Nat
    BY <1>4, <2>1, FS_Subset, FS_CardinalityType
  <2>3. Cardinality(Busy) + 1 <= Parallel
    BY SMT, <1>2, <1>4 DEF Turn
  <2>4. BusyBounded'
    BY SMT, <1>2, <2>1, <2>2, <2>3 DEF BusyBounded
  <2> QED BY <1>1, <2>4 DEF Sound, Shape, Kept
<1> QED
  BY <1>1, <1>3, <1>4 DEF Kept, BusyGrows

\* The caches, the pointers and the cells are in order in every state.
LEMMA BaseAlways == Spec => []Base
<1>1. ASSUME Init
      PROVE  Sound
  <2>1. Cardinality(Busy) = 0 /\ Parallel \in Nat
    BY <1>1, BaseInit, FS_EmptySet, HotspotAssumption
  <2>2. BusyBounded
    BY SMT, <2>1 DEF BusyBounded
  <2> QED BY <1>1, <2>2, BaseInit DEF Sound
<1> QED
  BY <1>1, SoundBase, SoundNext, PTL DEF Spec

----------------------------------------------------------------------------
(* Theorems                                                                  *)

\* ConcurrencyStatSlot: while no counter in use was evicted, the counter of a
\* value is the number of its requests between OnEntryPassed and OnCompleted,
\* whatever the number of requests, values, goroutines and the rule.
THEOREM CountsAreExact == Spec => []ConcurrencyIsExact
<1>1. Init => ConcInv
  BY CountingFact, ConcInit
<1>2. ConcInv /\ Base /\ [Next]_vars => ConcInv'
  BY CountingFact, ConcNext
<1> QED
  BY <1>1, <1>2, CountExact, BaseAlways, PTL DEF Spec

\* performCheckingForConcurrencyMetric: a value exceeds its limit by at most the
\* goroutines that run at once less one, and one request is let in unchecked.
THEOREM OvershootIsBounded == Spec => []ConcurrencyOvershoot
<1>1. Init => ConcInv
  BY CountingFact, ConcInit
<1>2. ConcInv /\ Base /\ [Next]_vars => ConcInv'
  BY CountingFact, ConcNext
<1> QED
  BY <1>1, <1>2, CountBounded, BaseAlways, PTL DEF Spec

\* PerformChecking of the reject controller: from one refill of a value to the
\* next the requests that pass have at most threshold and burst together, and
\* refills that do not overlap are more than a duration apart.
THEOREM BurstsAreBounded == Spec => []BurstBounded
BY PassedBounded, BaseAlways, RejectInit, RejectNext, PTL DEF Spec

\* PerformChecking of the throttling controller: of two requests of a value, the
\* later passes at least its interval after the earlier, unless one overtook
\* another between its swap and its store or an entry was evicted.
THEOREM SlotsAreApart == Spec => []ThrottledApart
BY SlotsSpaced, BaseAlways, ThrottleInit, ThrottleNext, PTL DEF Spec

=============================================================================
