----------------------------- MODULE SystemSlot -----------------------------
(***************************************************************************)
(* System protection: the collectors that sample the machine, and what     *)
(* system.AdaptiveSlot makes of the samples, of the statistics of the node *)
(* of all inbound traffic and of the system rules.  Loading those rules is *)
(* in RuleManager; the sliding window behind the statistics is in          *)
(* SlidingWindow, and here a report is any member of Readings.             *)
(***************************************************************************)
EXTENDS Integers, FiniteSets

CONSTANT Readings   \* samples of the machine, and reports of the inbound node

ASSUME ReadingsAssumption == Readings \subseteq Nat /\ Readings # {} /\ IsFiniteSet(Readings)

VARIABLES
    current,    \* currentLoad and currentCpuUsage
    collecting  \* the collectors that were started

metrics == <<current, collecting>>

\* NotRetrievedLoadValue, NotRetrievedCpuUsageValue
NotRetrieved == -1

MetricsInit ==
    /\ current = [load |-> NotRetrieved, cpu |-> NotRetrieved]
    /\ collecting = {}

\* retrieveAndUpdateLoadStat; when the sample cannot be had, the old one stays.
RetrieveAndUpdateLoadStat == \E v \in Readings : current' = [current EXCEPT !.load = v]

\* retrieveAndUpdateCpuStat, likewise.
RetrieveAndUpdateCpuStat == \E v \in Readings : current' = [current EXCEPT !.cpu = v]

\* The Once of each collector, and its first sample, which may fail.
InitLoadCollector(intervalMs) ==
    /\ intervalMs # 0 /\ "load" \notin collecting
    /\ collecting' = collecting \cup {"load"}
    /\ RetrieveAndUpdateLoadStat \/ UNCHANGED current

InitCpuCollector(intervalMs) ==
    /\ intervalMs # 0 /\ "cpu" \notin collecting
    /\ collecting' = collecting \cup {"cpu"}
    /\ RetrieveAndUpdateCpuStat \/ UNCHANGED current

\* The interval of a collector: its own, or the common one when that is zero.
IntervalOf(own, common) == IF own > 0 THEN own ELSE common

\* initCoreComponents: which collectors a configuration starts.
InitCollectors(config) ==
    \/ InitLoadCollector(IntervalOf(config.load, config.system))
    \/ InitCpuCollector(IntervalOf(config.cpu, config.system))

\* The ticker of a collector fires.
CollectorTick ==
    /\ \/ "load" \in collecting /\ RetrieveAndUpdateLoadStat
       \/ "cpu" \in collecting /\ RetrieveAndUpdateCpuStat
    /\ UNCHANGED collecting

-----------------------------------------------------------------------------

CheckBbrSimpleMutant(concurrency, estimate) == concurrency <= 2 \/ concurrency <= estimate

\* checkBbrSimple; the estimate is maxComplete * minRt / 1000.
CheckBbrSimple(concurrency, estimate) == concurrency <= 1 \/ concurrency <= estimate

\* The sample that a rule on load or CPU usage compares with its trigger.
Sample(rule) == IF rule.metric = "load" THEN current.load ELSE current.cpu

\* AdaptiveSlot.doCheckRule; a report is the QPS or the average RT for those
\* metrics, and the estimate of checkBbrSimple for the others.
DoCheckRule(rule, concurrency, report) ==
    CASE rule.metric = "concurrency" -> concurrency < rule.trigger
      [] rule.metric \in {"inboundQPS", "avgRT"} -> report < rule.trigger
      [] rule.metric \in {"load", "cpu"} ->
            Sample(rule) > rule.trigger =>
                rule.strategy = "bbr" /\ CheckBbrSimple(concurrency, report)

\* The most a rule lets in by its own reading of the concurrency, when it reads it.
Limit(rule, maxReport) ==
    IF rule.metric = "concurrency" THEN rule.trigger
    ELSE IF rule.strategy # "bbr" THEN 0
    ELSE IF maxReport > 1 THEN maxReport + 1 ELSE 2

\* The rule is one that limits the concurrency at this moment.
Limits(rule) ==
    \/ rule.metric = "concurrency"
    \/ rule.metric \in {"load", "cpu"} /\ Sample(rule) > rule.trigger
=============================================================================
