---------------------------- MODULE BreakerReload ----------------------------
(***************************************************************************)
(* A circuit breaker whose rule is loaded anew while its resource is       *)
(* called.  The rules differ in what is not part of the statistic (the     *)
(* probe number, the response time allowed), so the new breaker takes over *)
(* the statistic of the old one.  A goroutine inside TryPass or            *)
(* OnRequestComplete stays with the breaker it looked up, whose own fields *)
(* nobody else sees any more; but what it does to the statistic counts for *)
(* the new one.  Entries between the two calls, and their exit hooks, were *)
(* let in by the old breaker and will be reported to the new one.          *)
(***************************************************************************)
EXTENDS CircuitBreaker

\* Where a goroutine goes on after a reload.  One that will not touch the
\* statistic any more is as good as gone.
AfterReload(l) ==
    CASE l \in {"load", "retry", "casHalfOpen"} -> "oldTry"
      [] l = "bucket" -> "oldBucket"
      [] l \in {"sum", "status", "addProbe", "loadProbe", "casClosed",
                "resetClosed", "resetMetric"} -> "oldSettle"
      [] l \in {"hook", "recheck", "casReopen", "casOpen", "resetOpen", "clock", "store"} -> "idle"
      [] OTHER -> l

\* Only currentCounter still needs its locals.
Move ==
    /\ pc' = [r \in Req |-> AfterReload(pc[r])]
    /\ reg' = [r \in Req |-> IF pc'[r] = "oldBucket" THEN reg[r] ELSE NoLocals]
    /\ hooked' = {}
    /\ owner' = NoReq
    /\ UNCHANGED <<now, win, entries>>

\* Mutant: the new breaker is born in the state of the old one.
ReloadMutant(probe) ==
    /\ UNCHANGED <<state, nextRetry>>
    /\ curProbe' = 0
    /\ probeNum' = probe
    /\ Move

\* BuildResourceCircuitBreaker with a rule that is not equal to the old one and
\* whose statistic is: a new breaker around the old statistic.
Reload(probe) ==
    /\ state' = "Closed"
    /\ nextRetry' = 0
    /\ curProbe' = 0
    /\ probeNum' = probe
    /\ Move

\* The old breaker lets the entry through, or blocks it.
OldTryPass(r) ==
    /\ pc[r] = "oldTry"
    /\ Goto(r, "slots") \/ Leave(r)
    /\ UNCHANGED <<now, breaker, win, entries, owner>>

OldCurrentCounter(r) == CountAt(r, "oldBucket", "oldSettle")

\* The old breaker was half-open and its probe succeeded.
OldResetMetric(r) == ResetAt(r, "oldSettle")

\* Whatever else a completion does to the old breaker.
OldLeave(r) ==
    /\ pc[r] = "oldSettle"
    /\ Leave(r)
    /\ UNCHANGED <<now, breaker, win, entries, owner>>

OldStep(r) == OldTryPass(r) \/ OldCurrentCounter(r) \/ OldResetMetric(r) \/ OldLeave(r)

ReloadNext ==
    \/ Next
    \/ \E probe \in ProbeNums : Reload(probe)
    \/ \E r \in Req : OldStep(r)

ReloadSpec == Init /\ [][ReloadNext]_vars
==============================================================================
