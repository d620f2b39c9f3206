---------------------------- MODULE DataSource ----------------------------
(* Dynamic data sources: the property handler of ext/datasource, fed by a      *)
(* file, etcd, consul or nacos, and the controllers of Kubernetes, with the    *)
(* rules they put in force.  The source and the client that reports its        *)
(* changes are external: a history of contents, each with the operation that   *)
(* made it.  The clients report changes in order, and nacos calls OnChange     *)
(* once at a time.  Reading and handling are two steps: the source may change  *)
(* in between.                                                                 *)
EXTENDS Naturals, Sequences, FiniteSets, SequencesExt, RuleConverters, K8sControllers

CONSTANTS
    Setups,      \* [kind, converter, updater]: the data source, whether its converter makes
                 \* "pointers" to rules or "values", and which rules it has; Init chooses one
    Contents(_, _),  \* what the source of a kind may contain for an updater
    MaxEdits,    \* changes of the source
    MaxFaults,   \* failed reads and broken watches
    Retries      \* failed attempts to watch a renamed file before giving up

ASSUME DataSourceAssumption ==
    /\ Setups \subseteq
          [kind : {"file", "etcd", "consul", "nacos", "k8s"}, converter : {"pointers", "values"},
           updater : {"flow", "system", "circuitbreaker", "hotspot", "isolation", "llm"}]
    /\ MaxEdits \in Nat /\ MaxFaults \in Nat /\ Retries \in Nat \ {0}

\* Content is "bad" when it does not parse and "empty" when it has no byte.
Content(form, rules) == [form |-> form, rules |-> rules]
Absent == Content("absent", <<>>)

VARIABLES
    kind, converter, updater,
    hist,      \* the contents of the source and the operations
    cursor,    \* the next change to be reported; 0 until there is a watch
    pos,       \* lastUpdatedRevision of etcd, WaitIndex of consul, the cache of k8s
    pc,        \* the goroutine that initializes, then the listener
    buf,       \* what was read: at most one content with its revision
    tries,
    closed, ctx,
    user,      \* the goroutine that closes the data source
    last,      \* lastUpdateProperty: nothing or a list of rules
    inForce,   \* the rules downstream
    applied,   \* the revision they come from
    rejected,  \* the updater failed on the last property
    missed,    \* a change was lost that no report will make up for
    faults

setup == <<kind, converter, updater>>
source == <<setup, hist>>
handler == <<last, inForce, applied, rejected>>
vars == <<source, cursor, pos, pc, buf, tries, closed, ctx, user, handler, missed, faults>>

Rev == Len(hist)
Current == hist[Rev].content

Init ==
    /\ \E s \in Setups : kind = s.kind /\ converter = s.converter /\ updater = s.updater
    /\ hist \in {<<[content |-> c, op |-> "put"]>> : c \in Contents(kind, updater) \cup {Absent}}
    /\ pc = IF kind = "k8s" THEN "register" ELSE "read"
    /\ cursor = 0 /\ pos = 0 /\ buf = {} /\ tries = 0
    /\ closed = FALSE /\ user = "open"
    /\ ctx = IF kind = "etcd" THEN "none" ELSE "live"
    /\ last = {} /\ inForce = <<>> /\ applied = 0 /\ rejected = FALSE
    /\ missed = FALSE /\ faults = 0

----------------------------------------------------------------------------
(* The source                                                                *)

\* A file that is renamed, removed or replaced leaves its watcher.
Departures == {"rename", "remove", "replace"}

Operations(c) ==
    IF kind # "file" THEN {IF c = Absent THEN "delete" ELSE "put"}
    ELSE IF c = Absent THEN {"rename", "remove"}
    ELSE IF Current = Absent THEN {"create"} ELSE {"write", "replace"}

\* A change after the first read and before the watch is reported only by
\* consul, and by etcd when that read told the revision.
Unreported ==
    /\ cursor = 0 /\ pc # "read"
    /\ kind \in {"file", "nacos"} \/ (kind = "etcd" /\ pos = 0)

Edit ==
    /\ Rev <= MaxEdits
    /\ \E c \in (Contents(kind, updater) \cup {Absent}) \ {Current} : \E op \in Operations(c) :
         hist' = Append(hist, [content |-> c, op |-> op])
    /\ missed' = (missed \/ Unreported)
    /\ UNCHANGED <<setup, cursor, pos, pc, buf, tries, closed, ctx, user, handler, faults>>

Reported == cursor > 0 /\ cursor <= Rev

Fault == faults < MaxFaults /\ faults' = faults + 1

----------------------------------------------------------------------------
(* DefaultPropertyHandler                                                    *)

\* The parsers make nil of a source without bytes.
PropertyOf(c) == IF c.form = "ok" THEN {c.rules} ELSE {}

IsPropertyConsistentMutant(p) == p = last \/ p = {}

IsPropertyConsistent(p) == p = last

\* The property is stored before the updater runs.  A panic of the converter or of
\* the updater is recovered.
Handle(c, rev) ==
    LET p == PropertyOf(c)
        rules == IF p = {} THEN <<>> ELSE c.rules
        update == Updated(updater, converter, rules)
        unconverted == c.form = "bad" \/ HotSpotParamRuleJsonArrayParserPanics(updater, converter, rules)
    IN  \/ /\ unconverted
           /\ UNCHANGED handler
        \/ /\ ~unconverted /\ IsPropertyConsistent(p)
           /\ applied' = IF rejected THEN applied ELSE rev
           /\ UNCHANGED <<last, inForce, rejected>>
        \/ /\ ~unconverted /\ ~IsPropertyConsistent(p)
           /\ last' = p
           /\ rejected' = (p # {} /\ update.outcome # "loaded")
           /\ inForce' = IF rejected' THEN inForce ELSE update.rules
           /\ applied' = IF rejected' THEN applied ELSE rev

\* Handling the newest content makes up for what was missed.
HandleAt(c, rev) ==
    /\ Handle(c, rev)
    /\ missed' = (missed /\ rev < Rev)

----------------------------------------------------------------------------
(* doReadAndUpdate, in Initialize and for the listener                       *)

\* Only nacos gives up when the first read or update fails.
AfterUpdate(ok) ==
    IF cursor > 0 THEN "idle" ELSE IF kind = "nacos" /\ ~ok THEN "failed" ELSE "watch"

\* Both etcd and consul remember the revision that they read.
PositionRead == IF kind \in {"etcd", "consul"} THEN Rev ELSE pos

\* A read answered by a replica that lags behind.
ReadSourceMutant ==
    /\ pc = "read" /\ Current # Absent /\ ~(kind = "consul" /\ ctx = "cancelled")
    /\ \E r \in 1..Rev : buf' = {[content |-> hist[r].content, rev |-> r]}
    /\ pos' = PositionRead
    /\ pc' = "handle"
    /\ UNCHANGED <<source, cursor, tries, closed, ctx, user, handler, missed, faults>>

ReadSource ==
    /\ pc = "read" /\ Current # Absent /\ ~(kind = "consul" /\ ctx = "cancelled")
    /\ buf' = {[content |-> Current, rev |-> Rev]}
    /\ pos' = PositionRead
    /\ pc' = "handle"
    /\ UNCHANGED <<source, cursor, tries, closed, ctx, user, handler, missed, faults>>

\* There is nothing to read.  Of the two, only consul moves on.
ReadNothing ==
    /\ pc = "read" /\ Current = Absent /\ ~(kind = "consul" /\ ctx = "cancelled")
    /\ pos' = IF kind = "consul" THEN Rev ELSE pos
    /\ pc' = AfterUpdate(FALSE)
    /\ UNCHANGED <<source, cursor, buf, tries, closed, ctx, user, handler, missed, faults>>

\* The server does not answer.  consul asks again, etcd does not.
ReadFails ==
    /\ pc = "read" /\ kind # "file" /\ Fault
    /\ missed' = (missed \/ kind = "etcd")
    /\ pc' = AfterUpdate(FALSE)
    /\ UNCHANGED <<source, cursor, pos, buf, tries, closed, ctx, user, handler>>

HandleSource ==
    /\ pc = "handle"
    /\ \E read \in buf :
         /\ HandleAt(read.content, read.rev)
         /\ pc' = AfterUpdate(read.content.form # "bad")
    /\ buf' = {}
    /\ UNCHANGED <<source, cursor, pos, tries, closed, ctx, user, faults>>

\* fsnotify cannot add a file that does not exist.  etcd reports from the
\* revision that was read, or from now when there is none.
Watch ==
    /\ pc = "watch"
    /\ IF kind = "file" /\ Current = Absent
       THEN pc' = "failed" /\ UNCHANGED cursor
       ELSE /\ pc' = "idle"
            /\ cursor' = IF kind = "etcd" /\ pos > 0 THEN pos ELSE Rev + 1
    /\ ctx' = IF kind = "etcd" THEN "live" ELSE ctx
    /\ UNCHANGED <<source, pos, buf, tries, closed, user, handler, missed, faults>>

----------------------------------------------------------------------------
(* The listener of the file                                                  *)

\* Close sends on a channel that only the listener receives from: when the
\* listener itself is the first to call it, it waits for itself.
ListenerCloses ==
    /\ closed' = TRUE
    /\ pc' = IF closed THEN "stopped" ELSE "stuck"

FileWritten ==
    /\ kind = "file" /\ pc = "idle" /\ Reported
    /\ hist[cursor].op \notin Departures
    /\ cursor' = cursor + 1
    /\ pc' = "read"
    /\ UNCHANGED <<source, pos, buf, tries, closed, ctx, user, handler, missed, faults>>

FileRenamed ==
    /\ kind = "file" /\ pc = "idle" /\ Reported
    /\ hist[cursor].op = "rename"
    /\ HandleAt(Absent, cursor)
    /\ pc' = "retry" /\ tries' = 0
    /\ UNCHANGED <<source, cursor, pos, buf, closed, ctx, user, faults>>

\* The file that now has the name is watched and read.
RetryWatch ==
    /\ pc = "retry"
    /\ \/ /\ tries < Retries /\ Current # Absent
          /\ cursor' = Rev + 1 /\ pc' = "read" /\ tries' = 0
          /\ UNCHANGED closed
       \/ /\ tries < Retries /\ Current = Absent
          /\ tries' = tries + 1
          /\ UNCHANGED <<cursor, pc, closed>>
       \/ /\ tries = Retries
          /\ ListenerCloses
          /\ UNCHANGED <<cursor, tries>>
    /\ UNCHANGED <<source, pos, buf, ctx, user, handler, missed, faults>>

\* Replacing a file removes the one that is watched.
FileRemoved ==
    /\ kind = "file" /\ pc = "idle" /\ Reported
    /\ hist[cursor].op \in {"remove", "replace"}
    /\ HandleAt(Absent, cursor)
    /\ ListenerCloses
    /\ UNCHANGED <<source, cursor, pos, buf, tries, ctx, user, faults>>

FileClosed ==
    /\ kind = "file" /\ pc = "idle" /\ user = "waiting"
    /\ pc' = "stopped" /\ user' = "closed"
    /\ UNCHANGED <<source, cursor, pos, buf, tries, closed, ctx, handler, missed, faults>>

----------------------------------------------------------------------------
(* The watch of etcd                                                         *)

\* The revision is raised before the event is handled.
ProcessWatchResponse ==
    /\ kind = "etcd" /\ pc = "idle" /\ Reported
    /\ pos' = IF cursor > pos THEN cursor ELSE pos
    /\ cursor' = cursor + 1
    /\ \/ /\ hist[cursor].op = "put"
          /\ pc' = "read"
          /\ UNCHANGED <<handler, missed>>
       \/ /\ hist[cursor].op = "delete"
          /\ HandleAt(Absent, cursor)
          /\ UNCHANGED pc
    /\ UNCHANGED <<source, buf, tries, closed, ctx, user, faults>>

\* The changes up to some revision are compacted away before they are reported.
Compacted ==
    /\ kind = "etcd" /\ pc = "idle" /\ Reported /\ Fault
    /\ \E r \in cursor..Rev : pos' = IF r > pos THEN r ELSE pos
    /\ missed' = TRUE
    /\ pc' = "broken"
    /\ UNCHANGED <<source, cursor, buf, tries, closed, ctx, user, handler>>

\* The channel of responses is closed by a lost connection or by cancel.
WatchLost ==
    /\ kind = "etcd" /\ pc = "idle" /\ Fault
    /\ pc' = "broken"
    /\ UNCHANGED <<source, cursor, pos, buf, tries, closed, ctx, user, handler, missed>>

WatchCancelled ==
    /\ kind = "etcd" /\ pc = "idle" /\ ctx = "cancelled"
    /\ pc' = "broken"
    /\ UNCHANGED <<source, cursor, pos, buf, tries, closed, ctx, user, handler, missed, faults>>

BrokenMutant ==
    /\ pc = "broken"
    /\ pc' = "sleep"
    /\ UNCHANGED <<source, cursor, pos, buf, tries, closed, ctx, user, handler, missed, faults>>

Broken ==
    /\ pc = "broken"
    /\ pc' = IF closed THEN "stopped" ELSE "sleep"
    /\ UNCHANGED <<source, cursor, pos, buf, tries, closed, ctx, user, handler, missed, faults>>

\* The changes that a read has overtaken are not reported again: when a deletion
\* among those before them was handled after that read, the rules stay cleared.
Rewatch ==
    /\ pc = "sleep"
    /\ ctx' = "live"
    /\ cursor' = IF pos > 0 THEN pos + 1 ELSE Rev + 1
    /\ missed' = (missed \/ (Reported /\ (pos = 0 \/ (applied < pos /\ inForce = <<>>))))
    /\ pc' = "idle"
    /\ UNCHANGED <<source, pos, buf, tries, closed, user, handler, faults>>

----------------------------------------------------------------------------
(* consul and nacos                                                          *)

\* The blocking query of consul returns when the index has moved.
QueryReturns ==
    /\ kind = "consul" /\ pc = "idle" /\ ctx = "live" /\ pos < Rev
    /\ pc' = "read"
    /\ UNCHANGED <<source, cursor, pos, buf, tries, closed, ctx, user, handler, missed, faults>>

\* nacos hands over the content of the moment.  A deletion may stay unreported.
OnChange ==
    /\ kind = "nacos" /\ pc = "idle" /\ ctx = "live" /\ Reported
    /\ cursor' = Rev + 1
    /\ \/ buf' = {[content |-> Current, rev |-> Rev]} /\ pc' = "handle"
       \/ Current = Absent /\ UNCHANGED <<buf, pc>>
    /\ UNCHANGED <<source, pos, tries, closed, ctx, user, handler, missed, faults>>

Cancelled ==
    /\ ctx = "cancelled"
    /\ \/ kind = "consul" /\ pc \in {"idle", "read"}
       \/ kind \in {"nacos", "k8s"} /\ pc = "idle"
    /\ pc' = "stopped"
    /\ UNCHANGED <<source, cursor, pos, buf, tries, closed, ctx, user, handler, missed, faults>>

----------------------------------------------------------------------------
(* Kubernetes                                                                *)

RegisterController ==
    /\ pc = "register"
    /\ \/ pc' = "run" /\ UNCHANGED faults
       \/ Fault /\ pc' = "failed"
    /\ UNCHANGED <<source, cursor, pos, buf, tries, closed, ctx, user, handler, missed>>

\* The manager first reports the custom resource that it finds.  That it cannot
\* start is logged.
Run ==
    /\ pc = "run"
    /\ \/ /\ pc' = "idle"
          /\ cursor' = IF Current = Absent THEN Rev + 1 ELSE Rev
          /\ UNCHANGED faults
       \/ Fault /\ pc' = "failed" /\ UNCHANGED cursor
    /\ UNCHANGED <<source, pos, buf, tries, closed, ctx, user, handler, missed>>

\* Changes are reported together when they wait, and the cache that is read may be
\* ahead of the report.
ReconcileGet ==
    /\ kind = "k8s" /\ pc = "idle" /\ Reported
    /\ \E e \in cursor..Rev : \E r \in e..Rev :
         /\ r >= pos
         /\ cursor' = e + 1 /\ pos' = r
         /\ buf' = {[content |-> hist[r].content, rev |-> r]}
    /\ pc' = "reconcile"
    /\ UNCHANGED <<source, tries, closed, ctx, user, handler, missed, faults>>

\* A resource that cannot be read is not asked for again.
ReconcileGetFails ==
    /\ kind = "k8s" /\ pc = "idle" /\ Reported /\ Fault
    /\ cursor' = cursor + 1
    /\ missed' = TRUE
    /\ UNCHANGED <<source, pos, pc, buf, tries, closed, ctx, user, handler>>

\* A panic ends the process.
Reconcile ==
    /\ pc = "reconcile"
    /\ \E read \in buf : LET load == Reconciled(updater, read.content) IN
         \/ /\ load.panics
            /\ pc' = "crashed"
            /\ UNCHANGED <<inForce, applied, missed>>
         \/ /\ ~load.panics
            /\ pc' = "idle"
            /\ inForce' = load.rules /\ applied' = read.rev
            /\ missed' = (missed /\ read.rev < Rev)
    /\ buf' = {}
    /\ UNCHANGED <<source, cursor, pos, tries, closed, ctx, user, last, rejected, faults>>

\* The manager receives from stopChan.  What is queued may still be reconciled.
K8sStopped ==
    /\ kind = "k8s" /\ cursor > 0 /\ pc # "crashed" /\ user = "waiting"
    /\ user' = "closed" /\ ctx' = "cancelled"
    /\ UNCHANGED <<source, cursor, pos, pc, buf, tries, closed, handler, missed, faults>>

----------------------------------------------------------------------------
(* Close                                                                     *)

\* etcd and consul watch in a goroutine that Initialize does not wait for.
Initialized ==
    \/ cursor > 0 \/ pc = "failed"
    \/ pc = "watch" /\ kind \in {"etcd", "consul"}

CloseFile ==
    /\ kind = "file" /\ user = "open" /\ Initialized
    /\ user' = IF closed THEN "closed" ELSE "waiting"
    /\ closed' = TRUE
    /\ UNCHANGED <<source, cursor, pos, pc, buf, tries, ctx, handler, missed, faults>>

\* cancel is nil until the watch begins.  In the back-off it belongs to the watch
\* that is over, and the next one is opened without a look at closed.
CloseEtcd ==
    /\ kind = "etcd" /\ user = "open" /\ Initialized
    /\ closed' = TRUE
    /\ user' = IF ctx = "none" THEN "panicked" ELSE IF pc = "sleep" THEN "late" ELSE "closed"
    /\ ctx' = IF ctx = "none" THEN ctx ELSE "cancelled"
    /\ UNCHANGED <<source, cursor, pos, pc, buf, tries, handler, missed, faults>>

CloseOther ==
    /\ kind \in {"consul", "nacos"} /\ user = "open" /\ Initialized
    /\ user' = "closed"
    /\ ctx' = "cancelled"
    /\ UNCHANGED <<source, cursor, pos, pc, buf, tries, closed, handler, missed, faults>>

CloseK8s ==
    /\ kind = "k8s" /\ user = "open" /\ pc # "crashed"
    /\ user' = "waiting"
    /\ UNCHANGED <<source, cursor, pos, pc, buf, tries, closed, ctx, handler, missed, faults>>

----------------------------------------------------------------------------

Update == ReadSource \/ ReadNothing \/ HandleSource \/ Watch
FileListener == FileWritten \/ FileRenamed \/ RetryWatch \/ FileRemoved \/ FileClosed
EtcdListener == ProcessWatchResponse \/ WatchCancelled \/ Broken \/ Rewatch
OtherListener == QueryReturns \/ OnChange \/ Cancelled
Manager == ReconcileGet \/ Reconcile \/ K8sStopped

Next ==
    \/ Edit \/ Update \/ ReadFails
    \/ FileListener \/ EtcdListener \/ OtherListener \/ Manager
    \/ RegisterController \/ Run \/ ReconcileGetFails \/ WatchLost \/ Compacted
    \/ CloseFile \/ CloseEtcd \/ CloseOther \/ CloseK8s

\* The goroutines of the data source keep running, and a channel that has a
\* response or a waiting sender is served.  Nothing is assumed of the source, of
\* faults or of the caller of Close.
Spec ==
    /\ Init /\ [][Next]_vars
    /\ WF_vars(Update) /\ WF_vars(FileListener) /\ WF_vars(EtcdListener)
    /\ WF_vars(OtherListener) /\ WF_vars(Manager)

----------------------------------------------------------------------------

\* The file has left its watcher, and no other was found in time.
Departed == kind = "file" /\ Reported /\ hist[cursor].op \in Departures

\* The listeners of file, etcd, consul and nacos and the controllers of Kubernetes
\* may report late and read newer content than was reported, but never put older
\* rules back in force: at worst a late deletion clears newer rules until the next
\* report is handled.
NeverOlder == [][applied' >= applied \/ inForce' = <<>>]_vars

\* What keeps the newest content out of force: it was not reported or not read,
\* does not parse, made the converter or LoadRules panic, was refused by the updater,
\* was deleted from consul or nacos, or is a list of several values; or the data
\* source is closed, gave up, was not started or crashed.  The controller of system
\* rules loads none.
Excused ==
    \/ user # "open" \/ pc = "failed" \/ Departed
    \/ missed \/ rejected \/ Current.form = "bad"
    \/ kind \in {"consul", "nacos"} /\ Current = Absent
    \/ kind # "k8s" /\ converter = "values" /\ Len(Current.rules) > 1
    \/ kind # "k8s" /\ HotSpotParamRuleJsonArrayParserPanics(updater, converter, Current.rules)
    \/ kind = "k8s" /\ (cursor = 0 \/ pc = "crashed" \/ updater = "system")

Wanted ==
    CASE kind # "k8s"                               -> NonNull(Current.rules)
      [] kind = "k8s" /\ updater = "flow"           -> AssembleFlowRules(Current.rules)
      [] kind = "k8s" /\ updater = "isolation"      -> AssembleIsolationRules(Current.rules)
      [] kind = "k8s" /\ updater = "circuitbreaker" -> AssembleCircuitBreakerRules(Current.rules)
      [] kind = "k8s" /\ updater = "hotspot"        -> AssembleHotspotRules(Current.rules)

\* Once the source rests, the rules of its content come into force and stay,
\* whatever changes, deletions, broken watches and renames there were before.
Converges == <>[](Excused \/ inForce = Wanted)

\* Close returns and the listener ends.  The exceptions are a file that departed
\* or was never watched and a manager that was not started, where Close waits for a
\* listener that is not there, a Close of etcd before the first watch or between
\* two, and a crash.
CloseStops ==
    (user # "open") ~> \/ user = "closed" /\ pc \in {"stopped", "failed"}
                       \/ kind = "file" /\ (Departed \/ pc = "failed")
                       \/ user \in {"panicked", "late"}
                       \/ kind = "k8s" /\ (cursor = 0 \/ pc = "crashed")
=============================================================================
