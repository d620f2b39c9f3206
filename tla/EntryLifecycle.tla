--------------------------- MODULE EntryLifecycle ---------------------------
(***************************************************************************)
(* Entries of one resource from api.Entry to SentinelEntry.Exit: pooled    *)
(* options, pooled contexts, the slot chain with its recovered panics, the *)
(* resource node, the node of all inbound traffic and their concurrency,   *)
(* and the system and isolation slots, which read that concurrency.  Other *)
(* rule check slots may block for their reasons.                           *)
(*                                                                         *)
(* A step is what a goroutine does between two accesses that others can    *)
(* see.  A pool that is empty makes a new object; that object equals one   *)
(* that was reset, so the pools are full at the start.  Options are handed *)
(* back when SlotChain.Entry returns: nothing reads them afterwards.       *)
(***************************************************************************)
EXTENDS SystemSlot, FiniteSetsExt

CONSTANTS
    Ent,        \* entries: one call of api.Entry each
    Ctx, Opt,   \* context and option objects
    Args,       \* parameters an entry may be given
    None,       \* no entry, context, options, node or parameter
    InboundNode, \* the node of all inbound traffic
    Batches,    \* batch counts
    Setups      \* what a behaviour starts with:
                \*   caller: who calls api.Entry and Exit
                \*   flow: base.Inbound or base.Outbound
                \*   rules, config: the system rules, the intervals of the collectors
                \*   threshold: isolation.Rule.Threshold
                \*   results: how the work of a call may end, "ok", "error" or "panic"
                \*   calls: bound, entries in all
                \*   parallel: bound, goroutines inside api.Entry at a time
                \*   panics: places where a slot or handler may panic
                \*   maxPanics: bound, entries that meet a panic

ASSUME EntryAssumption ==
    /\ IsFiniteSet(Ent) /\ None \notin Ent \cup Ctx \cup Opt \cup Args
    /\ InboundNode \notin Ent \cup {None}
    /\ Batches \subseteq Nat \ {0}
    /\ \A s \in Setups :
          /\ s.flow \in {"inbound", "outbound"} /\ s.threshold \in Nat \ {0}
          /\ s.calls \in 1 .. Cardinality(Ent) /\ s.parallel \in Nat \ {0} /\ s.maxPanics \in Nat
          /\ s.panics \subseteq {"prepare", "check", "stat", "handler", "completed"}
          /\ s.results \subseteq {"ok", "error", "panic"}
          /\ IsFiniteSet(s.rules)
          /\ s.rules \subseteq [metric : {"concurrency", "inboundQPS", "avgRT", "load", "cpu"},
                               trigger : Nat, strategy : {"none", "bbr"}]

VARIABLES
    setup,      \* one of Setups, for good
    pc,         \* where api.Entry is for each entry
    input,      \* the options given: parameter and batch count
    cx,         \* SentinelEntry.ctx
    opt,        \* the options object of the call
    call,       \* up to two calls of Exit for an entry, in their order
    once,       \* SentinelEntry.exitCtl
    ctx,        \* the fields of every EntryContext
    array,      \* backing array of EntryOptions.args
    ctxPool, optPool,
    resNodeMap, \* the node of the resource, named after the entry that made it
    conc,       \* BaseStatNode.concurrency of every node
    panicked,   \* history: entries that met a panic
    failed,     \* history: entries that were given an error
    counted,    \* history: entries whose completion counted as an error
    limited     \* history: entries that passed a system rule that limits the concurrency

entries == <<pc, input, cx, opt>>
exits == <<call, once>>
pools == <<ctxPool, optPool, array>>
history == <<panicked, failed, counted, limited>>
vars == <<setup, entries, exits, pools, ctx, resNodeMap, conc, history, metrics>>

Calls == {1, 2}

\* Inside api.Entry, before the slot chain has answered.
Entering == {"lookup", "create", "system", "check", "passed", "blocked"}

CleanCtx == [entry |-> None, err |-> FALSE, blocked |-> FALSE, node |-> None, args |-> None]

Init ==
    /\ setup \in Setups
    /\ MetricsInit
    /\ pc = [e \in Ent |-> "new"]
    /\ input = [e \in Ent |-> [arg |-> None, batch |-> 1]]
    /\ cx = [e \in Ent |-> None]
    /\ opt = [e \in Ent |-> None]
    /\ call = [e \in Ent |-> [k \in Calls |-> "none"]]
    /\ once = [e \in Ent |-> "new"]
    /\ ctx = [c \in Ctx |-> CleanCtx]
    /\ array = [o \in Opt |-> None]
    /\ ctxPool = Ctx /\ optPool = Opt
    /\ resNodeMap = None
    /\ conc = [n \in Ent \cup {InboundNode} |-> 0]
    /\ panicked = {} /\ failed = {} /\ counted = {} /\ limited = {}

Started == {e \in Ent : pc[e] # "new"}

My(e) == ctx[cx[e]]
SetMy(e, field, v) == ctx' = [ctx EXCEPT ![cx[e]][field] = v]
Goto(e, place) == pc' = [pc EXCEPT ![e] = place]
GotoExit(e, k, place) == call' = [call EXCEPT ![e][k] = place]

\* api.Entry: WithArgs appends to the args of the pooled options; the context
\* takes over that slice, if it is not empty, and not a copy of it.
Entry(e) ==
    /\ pc[e] = "new" /\ Cardinality(Started) < setup.calls
    /\ Cardinality({f \in Ent : pc[f] \in Entering}) < setup.parallel
    /\ \E o \in optPool, c \in ctxPool, a \in Args \cup {None}, b \in Batches :
         /\ input' = [input EXCEPT ![e] = [arg |-> a, batch |-> b]]
         /\ opt' = [opt EXCEPT ![e] = o]
         /\ cx' = [cx EXCEPT ![e] = c]
         /\ optPool' = optPool \ {o}
         /\ ctxPool' = ctxPool \ {c}
         /\ array' = IF a = None THEN array ELSE [array EXCEPT ![o] = a]
         /\ ctx' = [ctx EXCEPT ![c] = [entry |-> e, err |-> @.err, blocked |-> @.blocked,
                                       node |-> @.node, args |-> IF a = None THEN @.args ELSE o]]
    /\ Goto(e, "lookup")
    /\ UNCHANGED <<exits, resNodeMap, conc, history>>

\* SlotChain.Entry returns and api.Entry gives the options back.
Answer(e, place) ==
    /\ Goto(e, place)
    /\ optPool' = optPool \cup {opt[e]}
    /\ UNCHANGED <<input, cx, opt, ctxPool, array>>

MayPanic(place) == place \in setup.panics /\ Cardinality(panicked) < setup.maxPanics

RecoverMutant(e) ==
    /\ SetMy(e, "err", TRUE)
    /\ panicked' = panicked \cup {e}
    /\ failed' = failed \cup {e}
    /\ Goto(e, "live")
    /\ UNCHANGED <<input, cx, opt, pools, exits, resNodeMap, counted, limited>>

\* The deferred recover: the error is noted and the entry passes.
Recover(e) ==
    /\ SetMy(e, "err", TRUE)
    /\ panicked' = panicked \cup {e}
    /\ failed' = failed \cup {e}
    /\ Answer(e, "live")
    /\ UNCHANGED <<exits, resNodeMap, counted, limited>>

\* The first rule check slot that does something: system rules are for inbound traffic.
FirstCheck == IF setup.flow = "inbound" /\ setup.rules # {} THEN "system" ELSE "check"

\* GetOrCreateResourceNode, under the read lock.
Lookup(e) ==
    /\ pc[e] = "lookup"
    /\ IF resNodeMap = None
       THEN Goto(e, "create") /\ UNCHANGED ctx
       ELSE Goto(e, FirstCheck) /\ SetMy(e, "node", resNodeMap)
    /\ UNCHANGED <<input, cx, opt, exits, pools, resNodeMap, conc, history>>

\* GetOrCreateResourceNode, under the write lock: looks again before it creates.
Create(e) ==
    /\ pc[e] = "create"
    /\ resNodeMap' = IF resNodeMap = None THEN e ELSE resNodeMap
    /\ SetMy(e, "node", resNodeMap')
    /\ Goto(e, FirstCheck)
    /\ UNCHANGED <<input, cx, opt, exits, pools, conc, history>>

PreparePanics(e) ==
    /\ MayPanic("prepare") /\ pc[e] = "lookup"
    /\ Recover(e)
    /\ UNCHANGED conc

\* TokenResult.ResetToBlockedWithCause: a slot refuses.
ResetToBlocked(e) == Goto(e, "blocked") /\ SetMy(e, "blocked", TRUE)

\* AdaptiveSlot.Check: every rule must agree, each with reports of its own.
AdaptiveCheck(e) ==
    /\ pc[e] = "system"
    /\ \E report \in [setup.rules -> Readings] :
          IF \A rule \in setup.rules : DoCheckRule(rule, conc[InboundNode], report[rule])
          THEN /\ Goto(e, "check")
               /\ limited' = IF \E rule \in setup.rules : Limits(rule) THEN limited \cup {e}
                                                                      ELSE limited
               /\ UNCHANGED ctx
          ELSE ResetToBlocked(e) /\ UNCHANGED limited
    /\ UNCHANGED <<input, cx, opt, exits, pools, resNodeMap, conc, panicked, failed, counted>>

\* isolation.checkPass
OverThreshold(e) ==
    LET cur == conc[My(e).node]
    IN  (IF cur >= 0 THEN cur ELSE 0) + input[e].batch > setup.threshold

\* The rule check slots: isolation refuses, or another slot does, or all agree.
Check(e) ==
    /\ pc[e] = "check"
    /\ \/ ~OverThreshold(e) /\ Goto(e, "passed") /\ UNCHANGED ctx
       \/ ResetToBlocked(e)
    /\ UNCHANGED <<input, cx, opt, exits, pools, resNodeMap, conc, history>>

CheckPanics(e) ==
    /\ MayPanic("check") /\ pc[e] = "check"
    /\ Recover(e)
    /\ UNCHANGED conc

\* The nodes whose statistics an entry is part of; Prepare may have panicked.
Nodes(e) == ({My(e).node} \ {None}) \cup (IF setup.flow = "inbound" THEN {InboundNode} ELSE {})

\* IncreaseConcurrency and DecreaseConcurrency of those nodes, the inbound node last.
\* It is one step: no entry reads the resource's node before the inbound node.
Recorded(e, d) == [n \in DOMAIN conc |-> IF n \in Nodes(e) THEN conc[n] + d ELSE conc[n]]

\* stat.Slot.OnEntryPassed; a later statistic slot may panic.
OnEntryPassed(e) ==
    /\ pc[e] = "passed"
    /\ conc' = Recorded(e, 1)
    /\ \/ Answer(e, "live") /\ UNCHANGED <<exits, ctx, resNodeMap, history>>
       \/ MayPanic("stat") /\ Recover(e)

\* A blocked entry is exited at once and the caller gets no handle on it; when
\* the statistic slots panic, the caller gets the entry all the same.
OnEntryBlocked(e) ==
    /\ pc[e] = "blocked"
    /\ \/ /\ GotoExit(e, 1, "once")
          /\ Answer(e, "refused")
          /\ UNCHANGED <<once, ctx, resNodeMap, history>>
       \/ MayPanic("stat") /\ Recover(e)
    /\ UNCHANGED conc

\* Exit, up to the Once.
ExitCall(e, k) ==
    /\ pc[e] = "live"
    /\ call[e][k] = "none" /\ (k = 2 => call[e][1] # "none")
    /\ GotoExit(e, k, "once")
    /\ UNCHANGED <<entries, once, pools, resNodeMap, conc, panicked, counted, limited>>

Exit(e, k) == ExitCall(e, k) /\ UNCHANGED <<ctx, failed>>

\* Exit with the option WithError, while the entry is not over.
ExitWithError(e, k) ==
    /\ once[e] # "done"
    /\ ExitCall(e, k)
    /\ SetMy(e, "err", TRUE)
    /\ failed' = failed \cup {e}

OnceMutant(e, k) ==
    /\ call[e][k] = "once"
    /\ once' = [once EXCEPT ![e] = "running"]
    /\ GotoExit(e, k, "exit")
    /\ UNCHANGED <<entries, pools, ctx, resNodeMap, conc, history>>

\* exitCtl.Do: the first call runs the function, the others wait for its end.
\* The exit handlers come first; a panic of theirs skips the statistics.
Once(e, k) ==
    /\ call[e][k] = "once"
    /\ \/ /\ once[e] = "new"
          /\ once' = [once EXCEPT ![e] = "running"]
          /\ \/ GotoExit(e, k, "exit") /\ UNCHANGED panicked
             \/ /\ MayPanic("handler")
                /\ GotoExit(e, k, "refurbish")
                /\ panicked' = panicked \cup {e}
       \/ /\ once[e] = "done"
          /\ GotoExit(e, k, "returned")
          /\ UNCHANGED <<once, panicked>>
    /\ UNCHANGED <<entries, pools, ctx, resNodeMap, conc, failed, counted, limited>>

OnCompletedMutant(e, k) ==
    /\ call[e][k] = "exit"
    /\ GotoExit(e, k, "refurbish")
    /\ conc' = Recorded(e, -1)
    /\ counted' = IF My(e).err THEN counted \cup {e} ELSE counted
    /\ UNCHANGED <<entries, once, pools, ctx, resNodeMap, panicked, failed, limited>>

\* SlotChain.exit and stat.Slot.OnCompleted, the first statistic slot; a panic
\* of a later one is recovered and leaves nothing else to do.
OnCompleted(e, k) ==
    /\ call[e][k] = "exit"
    /\ GotoExit(e, k, "refurbish")
    /\ IF My(e).entry = None \/ My(e).blocked
       THEN UNCHANGED <<conc, counted>>
       ELSE /\ conc' = Recorded(e, -1)
            /\ counted' = IF My(e).err /\ Nodes(e) # {} THEN counted \cup {e} ELSE counted
    /\ \/ UNCHANGED panicked
       \/ MayPanic("completed") /\ panicked' = panicked \cup {e}
    /\ UNCHANGED <<entries, once, pools, ctx, resNodeMap, failed, limited>>

ResetMutant(c) == [CleanCtx EXCEPT !.err = c.err]

\* EntryContext.Reset; Args is cut to length zero.
Reset(c) == CleanCtx

\* RefurbishContext, in the deferred function of Exit.
Refurbish(e, k) ==
    /\ call[e][k] = "refurbish"
    /\ ctx' = [ctx EXCEPT ![cx[e]] = Reset(@)]
    /\ ctxPool' = ctxPool \cup {cx[e]}
    /\ once' = [once EXCEPT ![e] = "done"]
    /\ GotoExit(e, k, "returned")
    /\ UNCHANGED <<entries, optPool, array, resNodeMap, conc, history>>

\* Every entry was refused or exited, and no call is under way.
Over ==
    /\ Cardinality(Started) = setup.calls
    /\ \A e \in Started : once[e] = "done" /\ \A k \in Calls : call[e][k] \in {"none", "returned"}
    /\ UNCHANGED vars

EntryStep(e) ==
    \/ Entry(e) \/ Lookup(e) \/ Create(e) \/ PreparePanics(e)
    \/ AdaptiveCheck(e) \/ Check(e) \/ CheckPanics(e)
    \/ OnEntryPassed(e) \/ OnEntryBlocked(e)

ExitStep(e, k) == Once(e, k) \/ OnCompleted(e, k) \/ Refurbish(e, k)

\* The collectors run beside the entries; without system rules nobody reads them.
MetricStep == setup.rules # {} /\ (InitCollectors(setup.config) \/ CollectorTick)

SentinelStep ==
    \/ \E e \in Ent : /\ EntryStep(e) \/ \E k \in Calls : ExitStep(e, k)
                     /\ UNCHANGED <<setup, metrics>>
    \/ MetricStep /\ UNCHANGED <<setup, entries, exits, pools, ctx, resNodeMap, conc, history>>

\* A caller that does as it likes: it exits twice, with or without an error.
DirectCaller(e) ==
    /\ setup.caller = "direct"
    /\ \E k \in Calls : Exit(e, k) \/ ExitWithError(e, k)

Next == \/ SentinelStep
        \/ \E e \in Ent : DirectCaller(e) /\ UNCHANGED <<setup, metrics>>
        \/ Over

Spec == Init /\ [][Next]_vars

-----------------------------------------------------------------------------

\* The entry has a context that Exit has not given back yet.
Bound(e) == cx[e] # None /\ once[e] # "done"

\* "one entry bounds with one context": an entry that is not over has a context
\* of its own, which is not in the pool, however often and by however many
\* goroutines Exit is called, and whatever panics.
Exclusive == \A e \in Ent : Bound(e) => My(e).entry = e /\ cx[e] \notin ctxPool

\* Passed, and not completed: what the concurrency of a node should be.
InFlight(n) ==
    {e \in Ent : /\ pc[e] = "live" /\ Bound(e) /\ n \in Nodes(e) /\ ~My(e).blocked
                 /\ \A k \in Calls : call[e][k] # "refurbish"}

\* The concurrency of a node is the number of its entries in flight; a panic
\* makes it wrong by one at most, for good.
ConcurrencyDrift ==
    \A n \in Ent \cup {InboundNode} :
        LET drift == conc[n] - Cardinality(InFlight(n))
        IN  drift <= Cardinality(panicked) /\ -drift <= Cardinality(panicked)

\* checkPass and doCheckRule read the concurrency before OnEntryPassed raises it:
\* entries that are checked at the same time exceed the threshold, by one less
\* than there are goroutines inside api.Entry.  For system rules this bounds the
\* inbound entries that were admitted while a rule on the concurrency was in
\* force or the machine overloaded; each panic may admit one more.
AdmissionOvershoot ==
    /\ \A n \in Ent : conc[n] <= setup.threshold + setup.parallel - 1
    /\ limited # {} =>
          Cardinality(limited \cap InFlight(InboundNode)) <=
              Max({Limit(rule, Max(Readings)) : rule \in setup.rules})
                  + setup.parallel - 1 + Cardinality(panicked)

\* No object leaks: once the goroutines have left, the pools have everything back.
NothingLeaks ==
    /\ (\A e \in Ent : pc[e] \notin Entering) => optPool = Opt
    /\ (\A e \in Ent : cx[e] = None \/ once[e] = "done") => ctxPool = Ctx

\* WithArgs "sets the resource entry with the given additional parameters":
\* they are what the slots find in the context until the entry is over.
ArgsKept ==
    \A e \in Ent : Bound(e) /\ input[e].arg # None => array[My(e).args] = input[e].arg
=============================================================================
