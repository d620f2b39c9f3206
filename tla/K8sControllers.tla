-------------------------- MODULE K8sControllers --------------------------
(* The controllers of the Kubernetes data source: what one call of Reconcile  *)
(* makes of the custom resource that it read, once the request is for the     *)
(* expected name and namespace (others are ignored).  Rules are records of    *)
(* the fields that a conversion touches.  Thresholds and trigger counts are   *)
(* in hundredths once assembled.                                              *)
EXTENDS Naturals, Sequences, SequencesExt

Default(field, value) == IF field = "" THEN value ELSE field

\* The interval of the statistic, a field of the custom resource, is not copied.
AssembleFlowRules(rules) ==
    LET Known(r) == /\ r.calculate \in {"", "Direct", "WarmUp"}
                    /\ r.behavior \in {"", "Reject", "Throttling"}
                    /\ r.relation \in {"", "CurrentResource", "AssociatedResource"}
        known == SelectSeq(rules, Known)
    IN  [i \in DOMAIN known |->
            [calculate |-> Default(known[i].calculate, "Direct"),
             behavior  |-> Default(known[i].behavior, "Reject"),
             relation  |-> Default(known[i].relation, "CurrentResource")]]

AssembleIsolationRules(rules) == rules

AssembleCircuitBreakerRules(rules) ==
    LET known == SelectSeq(rules, LAMBDA r : r.strategy \in {"SlowRequestRatio", "ErrorRatio", "ErrorCount"})
    IN  [i \in DOMAIN known |->
            [known[i] EXCEPT !.threshold = IF known[i].strategy = "ErrorCount" THEN 100 * @ ELSE @]]

\* A value that does not parse is skipped, and of two items for the same value the
\* later one counts.
ParseSpecificItems(items) ==
    LET parsed == SelectSeq(items, LAMBDA item : item.value # "unparsable")
    IN  [v \in {parsed[i].value : i \in DOMAIN parsed} |->
            parsed[SelectLastInSeq(parsed, LAMBDA item : item.value = v)].threshold]

AssembleHotspotRules(rules) ==
    LET known == SelectSeq(rules, LAMBDA r : /\ r.metric \in {"Concurrency", "QPS"}
                                             /\ r.behavior \in {"", "Reject", "Throttling"})
    IN  [i \in DOMAIN known |->
            [metric   |-> known[i].metric,
             behavior |-> Default(known[i].behavior, "Reject"),
             items    |-> ParseSpecificItems(known[i].items)]]

\* What Reconcile loads, and whether it panics.  LoadRules has no error for what
\* the controllers assemble.
Loads(rules) == [rules |-> rules, panics |-> FALSE]

ReconcileFlow(cr) == Loads(IF cr.form = "absent" THEN <<>> ELSE AssembleFlowRules(cr.rules))

ReconcileIsolation(cr) == Loads(IF cr.form = "absent" THEN <<>> ELSE AssembleIsolationRules(cr.rules))

ReconcileCircuitBreaker(cr) ==
    Loads(IF cr.form = "absent" THEN <<>> ELSE AssembleCircuitBreakerRules(cr.rules))

ReconcileHotspot(cr) == Loads(IF cr.form = "absent" THEN <<>> ELSE AssembleHotspotRules(cr.rules))

\* The test for a deleted resource is inverted: the rules of one that exists are
\* not assembled, and one that was deleted is dereferenced.
ReconcileSystem(cr) == [Loads(<<>>) EXCEPT !.panics = cr.form = "absent"]

Reconciled(crd, cr) ==
    CASE crd = "flow"           -> ReconcileFlow(cr)
      [] crd = "isolation"      -> ReconcileIsolation(cr)
      [] crd = "circuitbreaker" -> ReconcileCircuitBreaker(cr)
      [] crd = "hotspot"        -> ReconcileHotspot(cr)
      [] crd = "system"         -> ReconcileSystem(cr)
=============================================================================
