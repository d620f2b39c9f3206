---------------------------- MODULE SingleProbe ----------------------------
(***************************************************************************)
(* What a circuit breaker with ProbeNum = 0 promises: the three states and *)
(* their transitions, with one entry, the prober, answerable for every     *)
(* half-open period.  The prober may not finish while the period lasts, so *)
(* a half-open breaker is never left without somebody who will settle it.  *)
(***************************************************************************)
CONSTANTS Req, NoReq

VARIABLES
    phase,     \* the state of the breaker
    prober,    \* the entry probing the resource, NoReq outside half-open
    active     \* admitted entries that have not delivered their result

vars == <<phase, prober, active>>

Init == phase = "Closed" /\ prober = NoReq /\ active = {}

Admit(r) ==
    /\ phase = "Closed"
    /\ active' = active \cup {r}
    /\ UNCHANGED <<phase, prober>>

Probe(r) ==
    /\ phase = "Open"
    /\ phase' = "HalfOpen"
    /\ prober' = r
    /\ active' = active \cup {r}

Trip ==
    /\ phase = "Closed"
    /\ phase' = "Open"
    /\ UNCHANGED <<prober, active>>

\* Any active entry may settle a half-open breaker; it is active no more.
Settle(r) ==
    /\ phase = "HalfOpen" /\ r \in active
    /\ phase' \in {"Open", "Closed"}
    /\ prober' = NoReq
    /\ active' = active \ {r}

Finish(r) ==
    /\ r \in active
    /\ ~(phase = "HalfOpen" /\ prober = r)
    /\ active' = active \ {r}
    /\ UNCHANGED <<phase, prober>>

Next ==
    \/ Trip
    \/ \E r \in Req : Admit(r) \/ Probe(r) \/ Settle(r) \/ Finish(r)

Liveness == WF_vars(\E r \in Req : Settle(r))

Spec == Init /\ [][Next]_vars

FairSpec == Spec /\ Liveness
=============================================================================
