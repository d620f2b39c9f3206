---------------------------- MODULE MCMetricLog ----------------------------
(* The two metric logs of the program, which share nothing: a behaviour has   *)
(* one of them.                                                               *)
EXTENDS MetricLog, TokenMetricLog

VARIABLE which

MCInit == which \in {"resource", "token"} /\ LogInit /\ TokenLogInit

MCNext ==
    \/ which = "resource" /\ LogNext /\ UNCHANGED <<which, tokenLogVars>>
    \/ which = "token" /\ TokenLogNext /\ UNCHANGED <<which, vars, logVars>>

MCSpec == MCInit /\ [][MCNext]_<<which, vars, logVars, tokenLogVars>>
=============================================================================
