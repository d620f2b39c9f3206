----------------------------- MODULE EntryProof -----------------------------
(***************************************************************************)
(* What the entries of a resource keep true, for any number of entries,    *)
(* goroutines, rules and panics, and for every caller of Adapters.  The    *)
(* invariants of one entry (Stage, Calling, Context, Worked) come first;   *)
(* a step of an entry leaves the others alone (Frame), so that each action *)
(* is looked at for its own entry only.  The pools rest on them, and so    *)
(* does the concurrency that the nodes count: how far a panic can take it  *)
(* from the number of entries in flight, and how far checks that run at    *)
(* the same time exceed the thresholds of isolation and system rules.  The *)
(* ledger of a step says what the step does to one node; the rest is       *)
(* arithmetic with cardinalities.                                          *)
(***************************************************************************)
EXTENDS Adapters, TLAPS

\* A step that does not name another prover is first-order reasoning.
USE Zenon

CtxFields ==
    [entry : Ent \cup {None}, err : BOOLEAN, blocked : BOOLEAN, node : Ent \cup {None},
     args : Opt \cup {None}]

Results == {"none", "ok", "error", "panic"}

TypeOK ==
    /\ setup \in Setups
    /\ pc \in [Ent -> {"new", "live", "refused"} \cup Entering]
    /\ input \in [Ent -> [arg : Args \cup {None}, batch : Nat \ {0}]]
    /\ cx \in [Ent -> Ctx \cup {None}]
    /\ opt \in [Ent -> Opt \cup {None}]
    /\ call \in [Ent -> [Calls -> {"none", "once", "exit", "refurbish", "returned"}]]
    /\ once \in [Ent -> {"new", "running", "done"}]
    /\ ctx \in [Ctx -> CtxFields]
    /\ ctxPool \subseteq Ctx /\ optPool \subseteq Opt
    /\ resNodeMap \in Ent \cup {None}
    /\ conc \in [Ent \cup {InboundNode} -> Int]
    /\ panicked \subseteq Ent /\ failed \subseteq Ent /\ counted \subseteq Ent /\ limited \subseteq Ent
    /\ work \in [Ent -> Results]

\* What api.Entry has done so far.
Stage(e) ==
    /\ pc[e] = "new" <=> cx[e] = None
    /\ pc[e] \in {"new"} \cup Entering =>
          e \notin panicked /\ once[e] = "new" /\ \A k \in Calls : call[e][k] = "none"
    /\ pc[e] = "refused" => call[e][1] # "none" /\ call[e][2] = "none"
    /\ pc[e] \in Entering => opt[e] \in Opt \ optPool
    /\ e \in limited => pc[e] \notin {"new", "lookup", "create", "system"}

\* What the calls of Exit have done so far: one of them at most is inside the Once.
Calling(e) ==
    /\ call[e][2] # "none" => call[e][1] # "none"
    /\ once[e] # "new" => call[e][1] # "none"
    /\ \A k \in Calls :
          /\ call[e][k] \in {"exit", "refurbish"} =>
                once[e] = "running" /\ \A j \in Calls \ {k} : call[e][j] \notin {"exit", "refurbish"}
          /\ call[e][k] = "returned" => once[e] = "done"

\* What the context of an entry holds while the entry is not over.
Context(e) ==
    Bound(e) =>
        /\ My(e).entry = e /\ cx[e] \notin ctxPool
        /\ pc[e] \in {"lookup", "create"} => My(e).node = None
        /\ pc[e] \in {"system", "check", "passed", "blocked"} =>
              My(e).node = resNodeMap /\ resNodeMap # None
        /\ pc[e] = "live" /\ e \notin panicked =>
              My(e).node = resNodeMap /\ resNodeMap # None /\ ~My(e).blocked
        /\ pc[e] \in Entering => (My(e).blocked <=> pc[e] = "blocked")
        /\ pc[e] = "refused" => My(e).blocked
        /\ My(e).err => e \in failed
        /\ My(e).node \in {None, resNodeMap}

\* The adapters exit after the work, and have traced its error then.
Worked(e) ==
    /\ setup.caller = "direct" => work[e] = "none"
    /\ setup.caller # "direct" => call[e][2] = "none"
    /\ setup.caller \notin Early \cup {"direct"} =>
          /\ work[e] # "none" => pc[e] = "live"
          /\ pc[e] = "live" /\ call[e][1] # "none" => work[e] # "none"
    /\ setup.caller \in Leaky /\ work[e] \in {"error", "panic"} => call[e][1] = "none"
    /\ setup.caller \notin Silent \cup Early \cup Leaky /\ work[e] = "error" /\ Bound(e) => My(e).err
    /\ setup.caller \notin Silent \cup Early /\ work[e] = "error" =>
          (once[e] # "done" /\ call[e][1] # "refurbish") \/ e \in counted \cup panicked

\* Contexts and options are in their pool or in use, and nothing is twice in use.
Pools ==
    /\ \A c \in ctxPool : ctx[c] = CleanCtx
    /\ Ctx \subseteq ctxPool \cup {cx[e] : e \in {f \in Ent : Bound(f)}}
    /\ Opt \subseteq optPool \cup {opt[e] : e \in {f \in Ent : pc[f] \in Entering}}
    /\ \A e, f \in Ent : pc[e] \in Entering /\ pc[f] \in Entering /\ opt[e] = opt[f] => e = f

EntryInv ==
    /\ TypeOK
    /\ \A e \in Ent : Stage(e) /\ Calling(e) /\ Context(e) /\ Worked(e)
    /\ Pools
    /\ counted \subseteq failed

-----------------------------------------------------------------------------
(* Types.                                                                  *)

LEMMA SetupFacts ==
    ASSUME TypeOK
    PROVE  /\ setup.flow \in {"inbound", "outbound"} /\ setup.threshold \in Nat \ {0}
           /\ setup.parallel \in Nat \ {0}
           /\ setup.results \subseteq {"ok", "error", "panic"}
BY EntryAssumption DEF TypeOK

Places == {"new", "live", "refused"} \cup Entering
CallPlaces == {"none", "once", "exit", "refurbish", "returned"}

LEMMA GotoFacts ==
    ASSUME TypeOK, NEW e \in Ent, NEW place \in Places, Goto(e, place)
    PROVE  /\ pc' \in [Ent -> Places] /\ pc'[e] = place
           /\ \A f \in Ent \ {e} : pc'[f] = pc[f]
BY DEF TypeOK, Places, Goto

LEMMA GotoExitFacts ==
    ASSUME TypeOK, NEW e \in Ent, NEW k \in Calls, NEW place \in CallPlaces, GotoExit(e, k, place)
    PROVE  /\ call' \in [Ent -> [Calls -> CallPlaces]] /\ call'[e][k] = place
           /\ \A j \in Calls \ {k} : call'[e][j] = call[e][j]
           /\ \A f \in Ent \ {e} : call'[f] = call[f]
BY DEF TypeOK, CallPlaces, GotoExit

LEMMA FirstExitFacts ==
    ASSUME TypeOK, NEW e \in Ent, GotoExit(e, 1, "once")
    PROVE  call'[e][1] = "once" /\ call'[e][2] = call[e][2]
<1>1. 1 \in Calls /\ 2 \in Calls \ {1} /\ "once" \in CallPlaces
  BY SMT DEF Calls, CallPlaces
<1> QED
  BY SMT, <1>1, GotoExitFacts

\* The fields of the context that an entry writes, one at a time.
LEMMA SetErr ==
    ASSUME ctx \in [Ctx -> CtxFields], NEW e \in Ent, cx[e] \in Ctx, SetMy(e, "err", TRUE)
    PROVE  /\ ctx' \in [Ctx -> CtxFields] /\ \A c \in Ctx \ {cx[e]} : ctx'[c] = ctx[c]
           /\ ctx'[cx[e]].err = TRUE /\ ctx'[cx[e]].entry = My(e).entry
           /\ ctx'[cx[e]].node = My(e).node /\ ctx'[cx[e]].blocked = My(e).blocked
BY ZenonT(40) DEF SetMy, CtxFields, My

LEMMA SetBlocked ==
    ASSUME ctx \in [Ctx -> CtxFields], NEW e \in Ent, cx[e] \in Ctx, SetMy(e, "blocked", TRUE)
    PROVE  /\ ctx' \in [Ctx -> CtxFields] /\ \A c \in Ctx \ {cx[e]} : ctx'[c] = ctx[c]
           /\ ctx'[cx[e]].blocked = TRUE /\ ctx'[cx[e]].entry = My(e).entry
           /\ ctx'[cx[e]].node = My(e).node /\ ctx'[cx[e]].err = My(e).err
BY ZenonT(40) DEF SetMy, CtxFields, My

LEMMA SetNode ==
    ASSUME ctx \in [Ctx -> CtxFields], NEW e \in Ent, cx[e] \in Ctx, NEW n \in Ent, SetMy(e, "node", n)
    PROVE  /\ ctx' \in [Ctx -> CtxFields] /\ \A c \in Ctx \ {cx[e]} : ctx'[c] = ctx[c]
           /\ ctx'[cx[e]].node = n /\ ctx'[cx[e]].entry = My(e).entry
           /\ ctx'[cx[e]].blocked = My(e).blocked /\ ctx'[cx[e]].err = My(e).err
BY ZenonT(40) DEF SetMy, CtxFields, My

LEMMA RecordedType ==
    ASSUME TypeOK, NEW e \in Ent
    PROVE  /\ Recorded(e, 1) \in [Ent \cup {InboundNode} -> Int]
           /\ Recorded(e, -1) \in [Ent \cup {InboundNode} -> Int]
BY SMT DEF TypeOK, Recorded

\* What OnCompleted does to the concurrency and to the count of errors.
LEMMA Completion ==
    ASSUME NEW e \in Ent, NEW k \in Calls, OnCompleted(e, k)
    PROVE  /\ UNCHANGED conc \/ conc' = Recorded(e, -1)
           /\ \/ counted' = counted
              \/ counted' = counted \cup {e} /\ My(e).err
<1>1. CASE My(e).entry = None \/ My(e).blocked
  BY <1>1 DEF OnCompleted
<1>2. CASE ~(My(e).entry = None \/ My(e).blocked)
  BY <1>2 DEF OnCompleted
<1> QED
  BY <1>1, <1>2

LEMMA TypeInit == AdaptersInit => TypeOK
BY SMT, EntryAssumption DEF Results, AdaptersInit, Init, TypeOK, CtxFields, CleanCtx, Calls, Entering

\* An entry that is inside api.Entry or calls Exit has a context.
LEMMA HasContext ==
    ASSUME TypeOK, NEW e \in Ent, Stage(e), pc[e] # "new" \/ \E k \in Calls : call[e][k] # "none"
    PROVE  cx[e] \in Ctx
BY DEF TypeOK, Stage

\* An entry is not over as long as it is inside api.Entry, or live and not exited,
\* or a call of Exit is inside the Once.
LEMMA IsBound ==
    ASSUME TypeOK, NEW e \in Ent, Stage(e), Calling(e),
           \/ pc[e] \in Entering
           \/ pc[e] = "live" /\ (call[e][1] = "none" \/ once[e] # "done")
           \/ \E k \in Calls : call[e][k] \in {"exit", "refurbish"}
    PROVE  Bound(e) /\ cx[e] \in Ctx
<1>1. cx[e] # None
  BY DEF Stage, Entering
<1>2. once[e] # "done"
  BY DEF Stage, Calling
<1> QED
  BY <1>1, <1>2 DEF Bound, TypeOK

LEMMA Facts ==
    ASSUME EntryInv, NEW e \in Ent
    PROVE  TypeOK /\ Stage(e) /\ Calling(e) /\ Context(e) /\ Worked(e) /\ Pools
BY DEF EntryInv

LEMMA TypeAnswer ==
    ASSUME TypeOK, NEW e \in Ent, Stage(e), pc[e] \in Entering,
           NEW place \in {"live", "refused"}, Answer(e, place)
    PROVE  /\ pc' \in [Ent -> Places] /\ optPool' \subseteq Opt
           /\ UNCHANGED <<input, cx, opt, ctxPool>>
<1>1. pc' \in [Ent -> Places]
  BY GotoFacts DEF Answer, Places
<1> QED
  BY <1>1 DEF Answer, TypeOK, Stage

LEMMA TypeRecover ==
    ASSUME TypeOK, NEW e \in Ent, Stage(e), pc[e] \in Entering, Recover(e)
    PROVE  /\ pc' \in [Ent -> Places] /\ optPool' \subseteq Opt /\ ctx' \in [Ctx -> CtxFields]
           /\ panicked' \subseteq Ent /\ failed' \subseteq Ent
           /\ UNCHANGED <<input, cx, opt, ctxPool, call, once, resNodeMap, counted, limited>>
<1>1. cx[e] \in Ctx
  BY HasContext DEF Entering
<1>2. ctx' \in [Ctx -> CtxFields]
  BY <1>1, SetErr DEF Recover, TypeOK
<1>3. Answer(e, "live")
  BY DEF Recover
<1> QED
  BY <1>2, <1>3, TypeAnswer DEF Recover, exits, TypeOK

LEMMA TypeEntry ==
    ASSUME TypeOK, NEW e \in Ent, Stage(e), EntryStep(e), setup' = setup, work' \in [Ent -> Results]
    PROVE  TypeOK'
<1>0. pc[e] # "new" => cx[e] \in Ctx
  BY HasContext
<1>1. CASE Entry(e)
  <2>1. pc' \in [Ent -> Places]
    BY <1>1, GotoFacts DEF Entry, Places, Entering
  <2>2. PICK o \in optPool, c \in ctxPool, a \in Args \cup {None}, b \in Batches :
         /\ input' = [input EXCEPT ![e] = [arg |-> a, batch |-> b]]
         /\ opt' = [opt EXCEPT ![e] = o]
         /\ cx' = [cx EXCEPT ![e] = c]
         /\ optPool' = optPool \ {o}
         /\ ctxPool' = ctxPool \ {c}
         /\ array' = IF a = None THEN array ELSE [array EXCEPT ![o] = a]
         /\ ctx' = [ctx EXCEPT ![c] = [entry |-> e, err |-> @.err, blocked |-> @.blocked,
                                       node |-> @.node, args |-> IF a = None THEN @.args ELSE o]]
    BY <1>1 DEF Entry
  <2>3. ctx' \in [Ctx -> CtxFields]
    BY <2>2 DEF CtxFields, TypeOK
  <2>4. input' \in [Ent -> [arg : Args \cup {None}, batch : Nat \ {0}]]
    BY <2>2, EntryAssumption DEF TypeOK
  <2> QED
    BY <1>1, <2>1, <2>2, <2>3, <2>4 DEF Entry, exits, history, TypeOK, Places
<1>2. CASE Lookup(e)
  <2>1. pc' \in [Ent -> Places]
    BY <1>2, GotoFacts DEF Lookup, FirstCheck, Places, Entering
  <2>2. ctx' \in [Ctx -> CtxFields]
    BY <1>0, <1>2, SetNode DEF Lookup, TypeOK
  <2> QED
    BY <1>2, <2>1, <2>2 DEF Lookup, exits, pools, history, TypeOK, Places
<1>3. CASE Create(e)
  <2>1. pc' \in [Ent -> Places]
    BY <1>3, GotoFacts DEF Create, FirstCheck, Places, Entering
  <2>2. resNodeMap' \in Ent
    BY <1>3 DEF Create, TypeOK
  <2>3. ctx' \in [Ctx -> CtxFields]
    BY <1>0, <1>3, <2>2, SetNode DEF Create, TypeOK
  <2> QED
    BY <1>3, <2>1, <2>2, <2>3 DEF Create, exits, pools, history, TypeOK, Places
<1>4. ASSUME Recover(e), pc[e] \in Entering, UNCHANGED conc \/ conc' = Recorded(e, 1) PROVE TypeOK'
  <2>1. conc' \in [Ent \cup {InboundNode} -> Int]
    BY SMT, <1>4, RecordedType DEF TypeOK
  <2> QED
    BY <1>4, <2>1, TypeRecover DEF TypeOK, Places
<1>5. CASE PreparePanics(e) \/ CheckPanics(e)
  BY <1>4, <1>5 DEF PreparePanics, CheckPanics, Entering
<1>6. ASSUME pc[e] \in Entering, ResetToBlocked(e)
      PROVE  pc' \in [Ent -> Places] /\ ctx' \in [Ctx -> CtxFields]
  <2>1. pc' \in [Ent -> Places]
    BY <1>6, GotoFacts DEF ResetToBlocked, Places, Entering
  <2> QED
    BY <1>0, <1>6, <2>1, SetBlocked DEF ResetToBlocked, TypeOK, Entering
<1>7. CASE AdaptiveCheck(e)
  <2>1. pc' \in [Ent -> Places] /\ ctx' \in [Ctx -> CtxFields]
    BY <1>6, <1>7, GotoFacts DEF AdaptiveCheck, TypeOK, Places, Entering
  <2> QED
    BY <1>7, <2>1 DEF AdaptiveCheck, exits, pools, TypeOK, Places
<1>8. CASE Check(e)
  <2>1. pc' \in [Ent -> Places] /\ ctx' \in [Ctx -> CtxFields]
    BY <1>6, <1>8, GotoFacts DEF Check, TypeOK, Places, Entering
  <2> QED
    BY <1>8, <2>1 DEF Check, exits, pools, history, TypeOK, Places
<1>9. CASE OnEntryPassed(e)
  <2>1. CASE Answer(e, "live") /\ UNCHANGED <<exits, ctx, resNodeMap, history>>
    <3>1. conc' \in [Ent \cup {InboundNode} -> Int]
      BY <1>9, RecordedType DEF OnEntryPassed
    <3>2. pc' \in [Ent -> Places] /\ optPool' \subseteq Opt /\ UNCHANGED <<input, cx, opt, ctxPool>>
      BY <1>9, <2>1, TypeAnswer DEF OnEntryPassed, Entering
    <3> QED
      BY <2>1, <3>1, <3>2 DEF exits, history, TypeOK, Places
  <2> QED
    BY <1>4, <1>9, <2>1 DEF OnEntryPassed, Entering
<1>10. CASE OnEntryBlocked(e)
  <2>1. CASE GotoExit(e, 1, "once") /\ Answer(e, "refused") /\ UNCHANGED <<once, ctx, resNodeMap, history>>
    <3>1. call' \in [Ent -> [Calls -> CallPlaces]]
      BY <2>1, GotoExitFacts DEF Calls, CallPlaces
    <3> QED
      BY <1>10, <2>1, <3>1, TypeAnswer
      DEF OnEntryBlocked, Entering, history, TypeOK, Places, CallPlaces
  <2> QED
    BY <1>4, <1>10, <2>1 DEF OnEntryBlocked, Entering
<1> QED
  BY <1>1, <1>2, <1>3, <1>5, <1>7, <1>8, <1>9, <1>10 DEF EntryStep

LEMMA TypeExit ==
    ASSUME TypeOK, NEW e \in Ent, NEW k \in Calls, Stage(e), setup' = setup, work' \in [Ent -> Results],
           ExitStep(e, k) \/ Exit(e, k) \/ ExitWithError(e, k)
    PROVE  TypeOK'
<1>0. pc[e] = "live" \/ call[e][k] # "none" => cx[e] \in Ctx
  BY HasContext
<1>1. call' \in [Ent -> [Calls -> CallPlaces]]
  BY GotoExitFacts
  DEF ExitStep, Once, OnCompleted, Refurbish, Exit, ExitWithError, ExitCall, CallPlaces
<1>2. CASE Once(e, k)
  BY <1>1, <1>2 DEF Once, entries, pools, TypeOK, CallPlaces
<1>3. CASE OnCompleted(e, k)
  <2>1. conc' \in [Ent \cup {InboundNode} -> Int]
    <3>1. conc' = conc \/ conc' = Recorded(e, -1)
      BY <1>3, Completion
    <3>2. conc \in [Ent \cup {InboundNode} -> Int]
      BY DEF TypeOK
    <3> QED
      BY <3>1, <3>2, RecordedType
  <2> QED
    BY ZenonT(40), <1>1, <1>3, <2>1 DEF OnCompleted, entries, pools, TypeOK, CallPlaces
<1>4. CASE Refurbish(e, k)
  <2>1. ctx' \in [Ctx -> CtxFields]
    BY <1>0, <1>4 DEF Refurbish, Reset, CleanCtx, CtxFields, TypeOK
  <2> QED
    BY <1>0, <1>1, <1>4, <2>1 DEF Refurbish, entries, history, TypeOK, CallPlaces
<1>5. CASE Exit(e, k)
  BY <1>1, <1>5 DEF Exit, ExitCall, entries, pools, TypeOK, CallPlaces
<1>6. CASE ExitWithError(e, k)
  <2>1. ctx' \in [Ctx -> CtxFields]
    BY <1>0, <1>6, SetErr DEF ExitWithError, ExitCall, TypeOK
  <2> QED
    BY <1>1, <1>6, <2>1 DEF ExitWithError, ExitCall, entries, pools, TypeOK, CallPlaces
<1> QED
  BY <1>2, <1>3, <1>4, <1>5, <1>6 DEF ExitStep

-----------------------------------------------------------------------------
(* A step of one entry, and what it leaves alone.                          *)

\* api.TraceError of an adapter whose work has just failed.
Traced(e) == pc[e] = "live" /\ call[e][1] = "none" /\ TraceError(e)

ExitOf(e, k) == ExitStep(e, k) \/ Exit(e, k) \/ ExitWithError(e, k)

StepOf(e) == EntryStep(e) \/ (\E k \in Calls : ExitOf(e, k)) \/ Traced(e)

core == <<entries, exits, pools, ctx, resNodeMap, conc, history>>

\* The entry f does not notice the step.
Unnoticed(f) ==
    /\ pc'[f] = pc[f] /\ cx'[f] = cx[f] /\ opt'[f] = opt[f]
    /\ call'[f] = call[f] /\ once'[f] = once[f]
    /\ Bound(f) => ctx'[cx[f]] = ctx[cx[f]] /\ cx[f] \notin ctxPool'
    /\ pc[f] \in Entering => opt[f] \notin optPool'
    /\ f \in panicked' <=> f \in panicked
    /\ f \in failed' <=> f \in failed
    /\ f \in counted' <=> f \in counted
    /\ f \in limited' <=> f \in limited

\* Two entries that are not over have two contexts.
LEMMA Distinct ==
    ASSUME EntryInv, NEW e \in Ent, NEW f \in Ent, e # f, Bound(e), Bound(f)
    PROVE  cx[e] \in Ctx /\ cx[f] \in Ctx /\ cx[e] # cx[f]
<1>1. Context(e) /\ Context(f) /\ TypeOK
  BY Facts
<1> QED
  BY <1>1 DEF TypeOK, Context, Bound, My

LEMMA FrameEntry ==
    ASSUME EntryInv, NEW e \in Ent, EntryStep(e), NEW f \in Ent, f # e
    PROVE  Unnoticed(f)
<1>0. /\ TypeOK /\ Stage(e) /\ Context(f)
      /\ pc[e] \in Entering => Bound(e) /\ cx[e] \in Ctx
      /\ pc[e] \in Entering /\ pc[f] \in Entering => opt[e] # opt[f]
      /\ pc[f] \in Entering => opt[f] \notin optPool
  <2>1. TypeOK /\ Stage(e) /\ Stage(f) /\ Calling(e) /\ Context(f) /\ Pools
    BY Facts
  <2> QED
    BY <2>1, IsBound DEF Stage, Pools
<1>1. CASE Entry(e)
  <2>1. pc'[f] = pc[f]
    BY <1>0, <1>1, GotoFacts DEF Entry, Places, Entering
  <2>2. /\ cx'[f] = cx[f] /\ opt'[f] = opt[f]
        /\ ctxPool' \subseteq ctxPool /\ optPool' \subseteq optPool
        /\ \A c \in Ctx \ ctxPool : ctx'[c] = ctx[c]
    <3>1. /\ opt \in [Ent -> Opt \cup {None}] /\ cx \in [Ent -> Ctx \cup {None}]
          /\ ctx \in [Ctx -> CtxFields]
      BY <1>0 DEF TypeOK
    <3> QED
      BY <1>1, <3>1 DEF Entry
  <2>3. Bound(f) => cx[f] \in Ctx \ ctxPool
    BY <1>0 DEF Context, Bound, TypeOK
  <2>4. UNCHANGED <<call, once, panicked, failed, counted, limited>>
    BY <1>1 DEF Entry, exits, history
  <2> QED
    BY <1>0, <2>1, <2>2, <2>3, <2>4 DEF Unnoticed
<1>2. ASSUME pc[e] \in Entering, \A c \in Ctx \ {cx[e]} : ctx'[c] = ctx[c]
      PROVE  Bound(f) => ctx'[cx[f]] = ctx[cx[f]] /\ cx[f] \notin ctxPool
  <2>1. Bound(f) => cx[f] \in Ctx /\ cx[e] # cx[f]
    BY <1>0, <1>2, Distinct
  <2> QED
    BY <1>0, <1>2, <2>1 DEF Context
<1>3. CASE Lookup(e)
  <2>1. pc'[f] = pc[f]
    BY <1>0, <1>3, GotoFacts DEF Lookup, FirstCheck, Places, Entering
  <2>2. \A c \in Ctx \ {cx[e]} : ctx'[c] = ctx[c]
    BY <1>0, <1>3, SetNode DEF Lookup, TypeOK
  <2> QED
    BY <1>0, <1>2, <1>3, <2>1, <2>2 DEF Lookup, Unnoticed, exits, pools, history, Entering
<1>4. CASE Create(e)
  <2>1. pc'[f] = pc[f]
    BY <1>0, <1>4, GotoFacts DEF Create, FirstCheck, Places, Entering
  <2>2. resNodeMap' \in Ent
    BY <1>0, <1>4 DEF Create, TypeOK
  <2>3. \A c \in Ctx \ {cx[e]} : ctx'[c] = ctx[c]
    BY <1>0, <1>4, <2>2, SetNode DEF Create, TypeOK
  <2> QED
    BY <1>0, <1>2, <1>4, <2>1, <2>3 DEF Create, Unnoticed, exits, pools, history, Entering
<1>5. ASSUME NEW place \in {"live", "refused"}, Answer(e, place), pc[e] \in Entering
      PROVE  /\ pc'[f] = pc[f] /\ UNCHANGED <<cx, opt, ctxPool>>
             /\ pc[f] \in Entering => opt[f] \notin optPool'
  BY <1>0, <1>5, GotoFacts DEF Answer, Places
<1>6. ASSUME Recover(e), pc[e] \in Entering PROVE Unnoticed(f)
  <2>1. \A c \in Ctx \ {cx[e]} : ctx'[c] = ctx[c]
    BY <1>0, <1>6, SetErr DEF Recover, TypeOK, Entering
  <2> QED
    BY <1>2, <1>5, <1>6, <2>1 DEF Recover, Unnoticed, exits
<1>7. CASE PreparePanics(e) \/ CheckPanics(e)
  BY <1>6, <1>7 DEF PreparePanics, CheckPanics, Entering
<1>8. ASSUME pc[e] \in Entering, ResetToBlocked(e)
      PROVE  pc'[f] = pc[f] /\ \A c \in Ctx \ {cx[e]} : ctx'[c] = ctx[c]
  <2>1. pc'[f] = pc[f]
    BY <1>0, <1>8, GotoFacts DEF ResetToBlocked, Places, Entering
  <2> QED
    BY <1>0, <1>8, <2>1, SetBlocked DEF ResetToBlocked, TypeOK, Entering
<1>9. CASE AdaptiveCheck(e)
  <2>1. pc'[f] = pc[f] /\ \A c \in Ctx \ {cx[e]} : ctx'[c] = ctx[c]
    BY <1>0, <1>8, <1>9, GotoFacts DEF AdaptiveCheck, Places, Entering
  <2> QED
    BY <1>0, <1>2, <1>9, <2>1 DEF AdaptiveCheck, Unnoticed, exits, pools, Entering
<1>10. CASE Check(e)
  <2>1. pc'[f] = pc[f] /\ \A c \in Ctx \ {cx[e]} : ctx'[c] = ctx[c]
    BY <1>0, <1>8, <1>10, GotoFacts DEF Check, Places, Entering
  <2> QED
    BY <1>0, <1>2, <1>10, <2>1 DEF Check, Unnoticed, exits, pools, history, Entering
<1>11. CASE OnEntryPassed(e)
  <2>1. CASE Answer(e, "live") /\ UNCHANGED <<exits, ctx, resNodeMap, history>>
    BY <1>2, <1>5, <1>11, <2>1 DEF OnEntryPassed, Entering, Unnoticed, exits, history
  <2> QED
    BY <1>6, <1>11, <2>1 DEF OnEntryPassed, Entering
<1>12. CASE OnEntryBlocked(e)
  <2>1. CASE GotoExit(e, 1, "once") /\ Answer(e, "refused") /\ UNCHANGED <<once, ctx, resNodeMap, history>>
    <3>1. call'[f] = call[f]
      BY <1>0, <2>1, GotoExitFacts DEF Calls, CallPlaces
    <3> QED
      BY <1>2, <1>5, <1>12, <2>1, <3>1 DEF OnEntryBlocked, Entering, Unnoticed, history
  <2> QED
    BY <1>6, <1>12, <2>1 DEF OnEntryBlocked, Entering
<1> QED
  BY <1>1, <1>3, <1>4, <1>7, <1>9, <1>10, <1>11, <1>12 DEF EntryStep

LEMMA FrameExit ==
    ASSUME EntryInv, NEW e \in Ent, (\E k \in Calls : ExitOf(e, k)) \/ Traced(e), NEW f \in Ent, f # e
    PROVE  Unnoticed(f)
<1>0. TypeOK /\ Stage(e) /\ Stage(f) /\ Calling(e) /\ Context(f)
  BY Facts
<1>1. ASSUME Bound(e), \A c \in Ctx \ {cx[e]} : ctx'[c] = ctx[c]
      PROVE  Bound(f) => ctx'[cx[f]] = ctx[cx[f]] /\ cx[f] \notin ctxPool \cup {cx[e]}
  BY <1>0, <1>1, Distinct DEF Context
<1>2. CASE Traced(e)
  <2>1. Bound(e) /\ cx[e] \in Ctx
    BY <1>0, <1>2, IsBound DEF Traced
  <2>2. \A c \in Ctx \ {cx[e]} : ctx'[c] = ctx[c]
    BY <1>0, <1>2, <2>1, SetErr DEF Traced, TraceError, TypeOK
  <2> QED
    BY <1>0, <1>1, <1>2, <2>1, <2>2 DEF Traced, TraceError, Unnoticed, Stage, entries, exits, pools
<1>3. ASSUME NEW k \in Calls, ExitOf(e, k) PROVE Unnoticed(f)
  <2>0. call'[f] = call[f]
    BY ZenonT(40), <1>0, <1>3, GotoExitFacts
    DEF ExitOf, ExitStep, Once, OnCompleted, Refurbish, Exit, ExitWithError, ExitCall, CallPlaces
  <2>1. CASE Once(e, k)
    <3>1. once'[f] = once[f] /\ (f \in panicked' <=> f \in panicked)
      BY <1>0, <2>1 DEF Once, TypeOK
    <3> QED
      BY <1>0, <2>0, <2>1, <3>1 DEF Once, Unnoticed, Stage, Context, entries, pools
  <2>2. CASE OnCompleted(e, k)
    <3>1. f \in counted' <=> f \in counted
      <4>1. counted' = counted \/ counted' = counted \cup {e}
        BY <2>2, Completion
      <4> QED
        BY <4>1
    <3>2. f \in panicked' <=> f \in panicked
      BY <2>2 DEF OnCompleted
    <3> QED
      BY <1>0, <2>0, <2>2, <3>1, <3>2 DEF OnCompleted, Unnoticed, Stage, Context, entries, pools
  <2>3. CASE Refurbish(e, k)
    <3>1. Bound(e)
      BY <1>0, <2>3, IsBound DEF Refurbish
    <3>2. \A c \in Ctx \ {cx[e]} : ctx'[c] = ctx[c]
      BY <1>0, <2>3 DEF Refurbish, TypeOK
    <3> QED
      <4>1. once'[f] = once[f]
        BY <1>0, <2>3 DEF Refurbish, TypeOK
      <4> QED
        BY <1>0, <1>1, <2>0, <2>3, <3>1, <3>2, <4>1 DEF Refurbish, Unnoticed, Stage, entries, history
  <2>4. CASE Exit(e, k)
    BY <1>0, <2>0, <2>4 DEF Exit, ExitCall, Unnoticed, Stage, Context, entries, pools
  <2>5. CASE ExitWithError(e, k)
    <3>1. Bound(e) /\ cx[e] \in Ctx
      BY <1>0, <2>5, IsBound DEF ExitWithError, ExitCall
    <3>2. \A c \in Ctx \ {cx[e]} : ctx'[c] = ctx[c]
      BY <1>0, <2>5, <3>1, SetErr DEF ExitWithError, TypeOK
    <3> QED
      BY <1>0, <1>1, <2>0, <2>5, <3>1, <3>2 DEF ExitWithError, ExitCall, Unnoticed, Stage, entries, pools
  <2> QED
    BY <1>3, <2>1, <2>2, <2>3, <2>4, <2>5 DEF ExitOf, ExitStep
<1> QED
  BY <1>2, <1>3

-----------------------------------------------------------------------------
(* The entry that takes the step.                                          *)

\* An entry that is let through after a panic, or that the slots let through.
LEMMA OwnRecover ==
    ASSUME EntryInv, NEW e \in Ent, pc[e] \in Entering, Recover(e)
    PROVE  Stage(e)' /\ Calling(e)' /\ Context(e)'
<1>1. TypeOK /\ Stage(e) /\ Calling(e) /\ Context(e) /\ Bound(e) /\ cx[e] \in Ctx
  BY Facts, IsBound DEF Entering
<1>2. pc'[e] = "live"
  BY <1>1, GotoFacts DEF Recover, Answer, Places
<1>3. /\ ctx'[cx[e]].err = TRUE /\ ctx'[cx[e]].entry = My(e).entry
      /\ ctx'[cx[e]].node = My(e).node /\ ctx'[cx[e]].blocked = My(e).blocked
  BY <1>1, SetErr DEF Recover, TypeOK
<1>4. /\ e \in panicked' /\ e \in failed'
      /\ UNCHANGED <<cx, opt, ctxPool, call, once, resNodeMap, limited>>
  BY DEF Recover, Answer, exits
<1>5. Stage(e)'
  BY <1>1, <1>2, <1>4 DEF Stage, Entering, Bound
<1>6. Context(e)'
  BY <1>1, <1>2, <1>3, <1>4 DEF Context, Entering, Bound, My
<1> QED
  BY <1>1, <1>4, <1>5, <1>6 DEF Calling

LEMMA OwnBlocked ==
    ASSUME EntryInv, NEW e \in Ent, pc[e] \in {"system", "check"}, ResetToBlocked(e),
           UNCHANGED <<cx, opt, exits, pools, resNodeMap, panicked, failed, limited>>
    PROVE  Stage(e)' /\ Calling(e)' /\ Context(e)'
<1>1. TypeOK /\ Stage(e) /\ Calling(e) /\ Context(e) /\ Bound(e) /\ cx[e] \in Ctx
  BY Facts, IsBound DEF Entering
<1>2. pc'[e] = "blocked"
  BY <1>1, GotoFacts DEF ResetToBlocked, Places, Entering
<1>3. /\ ctx'[cx[e]].blocked = TRUE /\ ctx'[cx[e]].entry = My(e).entry
      /\ ctx'[cx[e]].node = My(e).node /\ ctx'[cx[e]].err = My(e).err
  BY <1>1, SetBlocked DEF ResetToBlocked, TypeOK
<1>4. Stage(e)'
  BY <1>1, <1>2 DEF Stage, Entering, Bound, exits, pools
<1>5. Context(e)'
  BY <1>1, <1>2, <1>3 DEF Context, Entering, Bound, My, exits, pools
<1> QED
  BY <1>1, <1>4, <1>5 DEF Calling, exits

LEMMA OwnEntry ==
    ASSUME EntryInv, NEW e \in Ent, EntryStep(e)
    PROVE  Stage(e)' /\ Calling(e)' /\ Context(e)'
<1>0. TypeOK /\ Stage(e) /\ Calling(e) /\ Context(e)
  BY Facts
<1>1. pc[e] \in Entering => Bound(e) /\ cx[e] \in Ctx
  BY <1>0, IsBound
<1>2. CASE Entry(e)
  <2>1. pc'[e] = "lookup"
    BY <1>0, <1>2, GotoFacts DEF Entry, Places, Entering
  <2>2. /\ cx'[e] \in ctxPool \ ctxPool' /\ opt'[e] \in Opt \ optPool'
        /\ ctx'[cx'[e]].entry = e /\ ctx'[cx'[e]].err = ctx[cx'[e]].err
        /\ ctx'[cx'[e]].blocked = ctx[cx'[e]].blocked /\ ctx'[cx'[e]].node = ctx[cx'[e]].node
    <3>1. /\ opt \in [Ent -> Opt \cup {None}] /\ cx \in [Ent -> Ctx \cup {None}]
          /\ ctx \in [Ctx -> CtxFields] /\ ctxPool \subseteq Ctx /\ optPool \subseteq Opt
      BY <1>0 DEF TypeOK
    <3> QED
      BY SMT, <1>2, <3>1 DEF Entry
  <2>3. ctx[cx'[e]].err = FALSE /\ ctx[cx'[e]].blocked = FALSE /\ ctx[cx'[e]].node = None
    <3>1. ctx[cx'[e]] = CleanCtx
      BY <2>2, Facts DEF Pools
    <3> QED
      BY SMT, <3>1 DEF CleanCtx
  <2>4. pc[e] = "new" /\ cx'[e] \in Ctx
    BY <1>0, <1>2, <2>2 DEF Entry, TypeOK
  <2>5. UNCHANGED <<call, once, resNodeMap, panicked, failed, limited>>
    BY <1>2 DEF Entry, exits, history
  <2>6. Stage(e)'
    <3>1. cx'[e] # None
      BY <2>4, EntryAssumption
    <3> QED
      BY <1>0, <2>1, <2>2, <2>4, <2>5, <3>1 DEF Stage, Entering
  <2>7. Context(e)'
    BY <2>1, <2>2, <2>3, <2>5 DEF Context, Entering, My
  <2> QED
    BY <1>0, <2>5, <2>6, <2>7 DEF Calling
<1>3. CASE Lookup(e)
  <2>1. pc'[e] = IF resNodeMap = None THEN "create" ELSE FirstCheck
    BY <1>0, <1>3, GotoFacts DEF Lookup, FirstCheck, Places, Entering
  <2>2. UNCHANGED <<cx, opt, call, once, ctxPool, optPool, resNodeMap, panicked, failed, limited>>
    BY <1>3 DEF Lookup, exits, pools, history
  <2>3. /\ ctx'[cx[e]].node = resNodeMap /\ ctx'[cx[e]].entry = My(e).entry
        /\ ctx'[cx[e]].blocked = My(e).blocked /\ ctx'[cx[e]].err = My(e).err
    <3>1. CASE resNodeMap = None
      BY <1>0, <1>1, <1>3, <3>1 DEF Lookup, Context, Entering, My
    <3>2. CASE resNodeMap \in Ent
      <4>1. SetMy(e, "node", resNodeMap)
        BY <1>3, <3>2, EntryAssumption DEF Lookup
      <4> QED
        BY <1>0, <1>1, <1>3, <3>2, <4>1, SetNode DEF Lookup, TypeOK, Entering
    <3> QED
      BY <1>0, <3>1, <3>2 DEF TypeOK
  <2>4. Stage(e)'
    BY <1>0, <1>3, <2>1, <2>2 DEF Lookup, FirstCheck, Stage, Entering
  <2>5. Context(e)'
    BY <1>0, <1>1, <1>3, <2>1, <2>2, <2>3 DEF Lookup, FirstCheck, Context, Entering, Bound, My
  <2> QED
    BY <1>0, <2>2, <2>4, <2>5 DEF Calling
<1>4. CASE Create(e)
  <2>1. pc'[e] = FirstCheck
    BY <1>0, <1>4, GotoFacts DEF Create, FirstCheck, Places, Entering
  <2>2. UNCHANGED <<cx, opt, call, once, ctxPool, optPool, panicked, failed, limited>>
    BY <1>4 DEF Create, exits, pools, history
  <2>3. resNodeMap' \in Ent
    BY <1>0, <1>4 DEF Create, TypeOK
  <2>4. /\ ctx'[cx[e]].node = resNodeMap' /\ ctx'[cx[e]].entry = My(e).entry
        /\ ctx'[cx[e]].blocked = My(e).blocked /\ ctx'[cx[e]].err = My(e).err
    BY <1>0, <1>1, <1>4, <2>3, SetNode DEF Create, TypeOK, Entering
  <2>5. Stage(e)'
    BY <1>0, <1>4, <2>1, <2>2 DEF Create, FirstCheck, Stage, Entering
  <2>6. Context(e)'
    BY <1>0, <1>1, <1>4, <2>1, <2>2, <2>3, <2>4, EntryAssumption
    DEF Create, FirstCheck, Context, Entering, Bound, My
  <2> QED
    BY <1>0, <2>2, <2>5, <2>6 DEF Calling
<1>5. CASE PreparePanics(e) \/ CheckPanics(e)
  BY <1>5, OwnRecover DEF PreparePanics, CheckPanics, Entering
<1>6. ASSUME pc[e] \in {"system", "check", "passed"}, Goto(e, "check") \/ Goto(e, "passed") \/ Goto(e, "live"),
             limited' \subseteq limited \cup {e}, pc'[e] = "live" => pc[e] = "passed",
             optPool \subseteq optPool', pc'[e] # "live" => optPool' = optPool,
             UNCHANGED <<cx, opt, exits, ctx, ctxPool, resNodeMap, panicked, failed>>
      PROVE  Stage(e)' /\ Calling(e)' /\ Context(e)'
  <2>1. pc'[e] \in {"check", "passed", "live"}
    BY <1>0, <1>6, GotoFacts DEF Places, Entering
  <2>2. Stage(e)'
    BY <1>0, <1>6, <2>1 DEF Stage, Entering, exits
  <2>3. Context(e)'
    BY <1>0, <1>1, <1>6, <2>1 DEF Context, Entering, Bound, My, exits
  <2> QED
    BY <1>0, <1>6, <2>2, <2>3 DEF Calling, exits
<1>7. CASE AdaptiveCheck(e)
  <2>1. CASE Goto(e, "check") /\ UNCHANGED ctx
    <3>1. pc'[e] = "check"
      BY <1>0, <2>1, GotoFacts DEF Places, Entering
    <3> QED
      BY <1>6, <1>7, <2>1, <3>1 DEF AdaptiveCheck, pools
  <2>2. CASE ResetToBlocked(e) /\ UNCHANGED limited
    BY <1>7, <2>2, OwnBlocked DEF AdaptiveCheck
  <2> QED
    BY <1>7, <2>1, <2>2 DEF AdaptiveCheck
<1>8. CASE Check(e)
  <2>1. CASE Goto(e, "passed") /\ UNCHANGED ctx
    <3>1. pc'[e] = "passed"
      BY <1>0, <2>1, GotoFacts DEF Places, Entering
    <3> QED
      BY <1>6, <1>8, <2>1, <3>1 DEF Check, pools, history
  <2>2. CASE ResetToBlocked(e)
    BY <1>8, <2>2, OwnBlocked DEF Check, history
  <2> QED
    BY <1>8, <2>1, <2>2 DEF Check
<1>9. CASE OnEntryPassed(e)
  <2>1. CASE Answer(e, "live") /\ UNCHANGED <<exits, ctx, resNodeMap, history>>
    <3>1. pc'[e] = "live"
      BY <1>0, <2>1, GotoFacts DEF Answer, Places
    <3> QED
      BY <1>6, <1>9, <2>1, <3>1 DEF OnEntryPassed, Answer, history
  <2> QED
    BY <1>9, <2>1, OwnRecover DEF OnEntryPassed, Entering
<1>10. CASE OnEntryBlocked(e)
  <2>1. CASE GotoExit(e, 1, "once") /\ Answer(e, "refused") /\ UNCHANGED <<once, ctx, resNodeMap, history>>
    <3>1. pc'[e] = "refused"
      BY <1>0, <2>1, GotoFacts DEF Answer, Places
    <3>2. call'[e][1] = "once" /\ call'[e][2] = call[e][2]
      BY <1>0, <2>1, FirstExitFacts
    <3>3. Stage(e)'
      BY <1>0, <1>10, <2>1, <3>1, <3>2 DEF OnEntryBlocked, Answer, Stage, Entering, Calls, history
    <3>4. Calling(e)'
      BY <1>0, <1>10, <2>1, <3>2 DEF OnEntryBlocked, Stage, Entering, Calling, Calls
    <3>5. Context(e)'
      BY <1>0, <1>1, <1>10, <2>1, <3>1 DEF OnEntryBlocked, Answer, Context, Entering, Bound, My, history
    <3> QED
      BY <3>3, <3>4, <3>5
  <2> QED
    BY <1>10, <2>1, OwnRecover DEF OnEntryBlocked, Entering
<1> QED
  BY <1>2, <1>3, <1>4, <1>5, <1>7, <1>8, <1>9, <1>10 DEF EntryStep

LEMMA OwnExit ==
    ASSUME EntryInv, NEW e \in Ent, (\E k \in Calls : ExitOf(e, k)) \/ Traced(e)
    PROVE  Stage(e)' /\ Calling(e)' /\ Context(e)'
<1>0. TypeOK /\ Stage(e) /\ Calling(e) /\ Context(e)
  BY Facts
<1>1. CASE Traced(e)
  <2>1. Bound(e) /\ cx[e] \in Ctx
    BY <1>0, <1>1, IsBound DEF Traced
  <2>2. /\ ctx'[cx[e]].err = TRUE /\ ctx'[cx[e]].entry = My(e).entry
        /\ ctx'[cx[e]].node = My(e).node /\ ctx'[cx[e]].blocked = My(e).blocked
    BY <1>0, <1>1, <2>1, SetErr DEF Traced, TraceError, TypeOK
  <2>3. /\ e \in failed'
        /\ UNCHANGED <<pc, cx, opt, call, once, ctxPool, optPool, resNodeMap, panicked, limited>>
    BY <1>1 DEF Traced, TraceError, entries, exits, pools
  <2>4. Context(e)'
    BY <1>0, <2>1, <2>2, <2>3 DEF Context, Bound, My
  <2> QED
    BY <1>0, <2>3, <2>4 DEF Stage, Calling
<1>2. ASSUME NEW k \in Calls, ExitOf(e, k) PROVE Stage(e)' /\ Calling(e)' /\ Context(e)'
  <2>1. ASSUME NEW place \in CallPlaces \ {"none"}, GotoExit(e, k, place),
               pc[e] = "live" \/ call[e][k] # "none", call[e][k] = "none" => k = 1 \/ call[e][1] # "none",
               UNCHANGED <<pc, cx, opt, optPool, limited>>
        PROVE  /\ Stage(e)' /\ call'[e][k] = place
               /\ \A j \in Calls \ {k} : call'[e][j] = call[e][j]
               /\ call'[e][1] # "none"
    <3>1. call'[e][k] = place /\ \A j \in Calls \ {k} : call'[e][j] = call[e][j]
      BY ZenonT(90), <1>0, <2>1, GotoExitFacts
    <3>2. call'[e][1] # "none"
      BY <1>0, <2>1, <3>1 DEF Calls, Calling
    <3>3. pc[e] \notin {"new"} \cup Entering
      BY <1>0, <2>1 DEF Stage, Entering
    <3>4. pc[e] = "refused" => call'[e][2] = "none"
      BY <1>0, <2>1, <3>1 DEF Stage, Calls
    <3> QED
      BY <1>0, <2>1, <3>1, <3>2, <3>3, <3>4 DEF Stage
  <2>2. CASE Once(e, k)
    <3>1. PICK place \in {"exit", "refurbish", "returned"} : GotoExit(e, k, place) /\
             ((once[e] = "new" /\ once' = [once EXCEPT ![e] = "running"] /\ place # "returned")
              \/ (once[e] = "done" /\ once' = once /\ place = "returned"))
      BY <2>2 DEF Once
    <3>2. UNCHANGED <<pc, cx, opt, optPool, ctxPool, limited, ctx, resNodeMap, failed>>
      BY <2>2 DEF Once, entries, pools
    <3>3. /\ Stage(e)' /\ call'[e][k] = place
          /\ \A j \in Calls \ {k} : call'[e][j] = call[e][j]
          /\ call'[e][1] # "none"
      BY <2>1, <2>2, <3>1, <3>2 DEF Once, CallPlaces
    <3>4. once'[e] = IF place = "returned" THEN "done" ELSE "running"
      BY <1>0, <3>1 DEF TypeOK
    <3>5. Calling(e)'
      BY ZenonT(40), <1>0, <3>1, <3>3, <3>4 DEF Calling, Calls
    <3>6. e \in panicked => e \in panicked'
      BY <2>2 DEF Once
    <3>7. Context(e)'
      BY <1>0, <3>1, <3>2, <3>4, <3>6 DEF Context, Bound, My
    <3> QED
      BY <3>3, <3>5, <3>7
  <2>3. CASE OnCompleted(e, k)
    <3>1. UNCHANGED <<pc, cx, opt, once, optPool, ctxPool, limited, ctx, resNodeMap, failed>>
      BY <2>3 DEF OnCompleted, entries, pools
    <3>2. /\ Stage(e)' /\ call'[e][k] = "refurbish"
          /\ \A j \in Calls \ {k} : call'[e][j] = call[e][j]
          /\ call'[e][1] # "none"
      BY <2>1, <2>3, <3>1 DEF OnCompleted, CallPlaces
    <3>3. Calling(e)'
      BY ZenonT(40), <1>0, <2>3, <3>1, <3>2 DEF OnCompleted, Calling, Calls
    <3>4. e \in panicked => e \in panicked'
      BY <2>3 DEF OnCompleted
    <3>5. Context(e)'
      BY <1>0, <3>1, <3>4 DEF Context, Bound, My
    <3> QED
      BY <3>2, <3>3, <3>5
  <2>4. CASE Refurbish(e, k)
    <3>1. UNCHANGED <<pc, cx, opt, optPool, limited>>
      BY <2>4 DEF Refurbish, entries, history
    <3>2. /\ Stage(e)' /\ call'[e][k] = "returned"
          /\ \A j \in Calls \ {k} : call'[e][j] = call[e][j]
          /\ call'[e][1] # "none"
      BY <2>1, <2>4, <3>1 DEF Refurbish, CallPlaces
    <3>3. once'[e] = "done"
      BY <1>0, <2>4 DEF Refurbish, TypeOK
    <3>4. Calling(e)'
      BY <1>0, <2>4, <3>2, <3>3 DEF Refurbish, Calling, Calls
    <3> QED
      BY <3>2, <3>3, <3>4 DEF Context, Bound
  <2>5. ASSUME ExitCall(e, k) PROVE Stage(e)' /\ Calling(e)'
    <3>1. UNCHANGED <<pc, cx, opt, once, optPool, limited>>
      BY <2>5 DEF ExitCall, entries, pools
    <3>2. /\ Stage(e)' /\ call'[e][k] = "once"
          /\ \A j \in Calls \ {k} : call'[e][j] = call[e][j]
          /\ call'[e][1] # "none"
      BY <2>1, <2>5, <3>1 DEF ExitCall, CallPlaces, Calls
    <3> QED
      BY <1>0, <2>5, <3>1, <3>2 DEF ExitCall, Calling, Calls
  <2>6. CASE Exit(e, k)
    BY <1>0, <2>5, <2>6 DEF Exit, ExitCall, Context, Bound, My, entries, pools
  <2>7. CASE ExitWithError(e, k)
    <3>1. Bound(e) /\ cx[e] \in Ctx
      BY <1>0, <2>7, IsBound DEF ExitWithError, ExitCall
    <3>2. /\ ctx'[cx[e]].err = TRUE /\ ctx'[cx[e]].entry = My(e).entry
          /\ ctx'[cx[e]].node = My(e).node /\ ctx'[cx[e]].blocked = My(e).blocked
      BY <1>0, <2>7, <3>1, SetErr DEF ExitWithError, TypeOK
    <3>3. e \in failed' /\ UNCHANGED <<pc, cx, once, ctxPool, resNodeMap, panicked>>
      BY <2>7 DEF ExitWithError, ExitCall, entries, pools
    <3>4. Context(e)'
      BY <1>0, <3>1, <3>2, <3>3 DEF Context, Bound, My
    <3> QED
      BY <2>5, <2>7, <3>4 DEF ExitWithError
  <2> QED
    BY <1>2, <2>2, <2>3, <2>4, <2>6, <2>7 DEF ExitOf, ExitStep
<1> QED
  BY <1>1, <1>2

\* The entries that do not take the step.
LEMMA Others ==
    ASSUME EntryInv, NEW f \in Ent, Unnoticed(f), resNodeMap \in {None, resNodeMap'}
    PROVE  Stage(f)' /\ Calling(f)' /\ Context(f)'
<1>1. Stage(f) /\ Calling(f) /\ Context(f)
  BY Facts
<1>2. Stage(f)'
  BY <1>1 DEF Stage, Unnoticed
<1>3. Calling(f)'
  BY <1>1 DEF Calling, Unnoticed
<1>4. Context(f)'
  BY <1>1 DEF Context, Unnoticed, Bound, My
<1> QED
  BY <1>2, <1>3, <1>4

-----------------------------------------------------------------------------
(* The pools.                                                              *)

\* What a step of e does to the pools: it takes what it then uses, gives back what
\* it used, and what it gives back is clean.
Exchange(e) ==
    /\ \A c \in ctxPool' : ctx'[c] = CleanCtx \/ (c \in ctxPool /\ ctx'[c] = ctx[c])
    /\ \A c \in Ctx : c \in ctxPool \/ (Bound(e) /\ c = cx[e]) =>
                      c \in ctxPool' \/ (Bound(e)' /\ c = cx'[e])
    /\ \A o \in Opt : o \in optPool \/ (pc[e] \in Entering /\ o = opt[e]) =>
                      o \in optPool' \/ (pc'[e] \in Entering /\ o = opt'[e])
    /\ pc'[e] \in Entering => opt'[e] \in optPool \/ (pc[e] \in Entering /\ opt'[e] = opt[e])

LEMMA ExchangeEntry ==
    ASSUME EntryInv, NEW e \in Ent, EntryStep(e)
    PROVE  Exchange(e)
<1>0. TypeOK /\ Stage(e) /\ Calling(e) /\ Context(e)
  BY Facts
<1>1. pc[e] \in Entering => Bound(e) /\ cx[e] \in Ctx \ ctxPool
  BY <1>0, IsBound DEF Context
<1>2. CASE Entry(e)
  <2>1. pc'[e] = "lookup"
    BY <1>0, <1>2, GotoFacts DEF Entry, Places, Entering
  <2>2. PICK o \in optPool, c \in ctxPool :
           /\ opt'[e] = o /\ optPool' = optPool \ {o}
           /\ cx'[e] = c /\ ctxPool' = ctxPool \ {c} /\ \A d \in Ctx \ {c} : ctx'[d] = ctx[d]
    <3>1. /\ opt \in [Ent -> Opt \cup {None}] /\ cx \in [Ent -> Ctx \cup {None}]
          /\ ctx \in [Ctx -> CtxFields]
      BY <1>0 DEF TypeOK
    <3> QED
      BY ZenonT(40), <1>2, <3>1 DEF Entry
  <2>3. pc[e] = "new" /\ once'[e] = "new" /\ cx[e] = None /\ cx'[e] # None
    <3>1. pc[e] = "new" /\ UNCHANGED once
      BY <1>2 DEF Entry, exits
    <3>2. cx'[e] # None
      BY ZenonT(80), <1>0, <2>2, EntryAssumption DEF TypeOK
    <3> QED
      BY <1>0, <3>1, <3>2 DEF Stage
  <2>4. \A d \in ctxPool' : d \in ctxPool /\ ctx'[d] = ctx[d]
    BY <1>0, <2>2 DEF TypeOK
  <2> QED
    BY <2>1, <2>2, <2>3, <2>4 DEF Exchange, Bound, Entering
<1>3. ASSUME pc[e] \in Entering, \A c \in Ctx \ {cx[e]} : ctx'[c] = ctx[c],
             UNCHANGED <<cx, opt, once, ctxPool>>,
             \/ optPool' = optPool /\ pc'[e] \in Entering
             \/ optPool' = optPool \cup {opt[e]} /\ pc'[e] \notin Entering
      PROVE  Exchange(e)
  BY <1>0, <1>1, <1>3 DEF Exchange, Bound, TypeOK
<1>4. CASE Lookup(e)
  <2>1. pc'[e] \in Entering
    BY <1>0, <1>4, GotoFacts DEF Lookup, FirstCheck, Places, Entering
  <2>2. \A c \in Ctx \ {cx[e]} : ctx'[c] = ctx[c]
    BY <1>0, <1>1, <1>4, SetNode DEF Lookup, TypeOK, Entering
  <2> QED
    BY <1>3, <1>4, <2>1, <2>2 DEF Lookup, exits, pools, Entering
<1>5. CASE Create(e)
  <2>1. pc'[e] \in Entering
    BY <1>0, <1>5, GotoFacts DEF Create, FirstCheck, Places, Entering
  <2>2. resNodeMap' \in Ent
    BY <1>0, <1>5 DEF Create, TypeOK
  <2>3. \A c \in Ctx \ {cx[e]} : ctx'[c] = ctx[c]
    BY <1>0, <1>1, <1>5, <2>2, SetNode DEF Create, TypeOK, Entering
  <2> QED
    BY <1>3, <1>5, <2>1, <2>3 DEF Create, exits, pools, Entering
<1>6. ASSUME NEW place \in {"live", "refused"}, Answer(e, place)
      PROVE  pc'[e] = place /\ UNCHANGED <<cx, opt, ctxPool>> /\ optPool' = optPool \cup {opt[e]}
  BY <1>0, <1>6, GotoFacts DEF Answer, Places
<1>7. ASSUME Recover(e), pc[e] \in Entering PROVE Exchange(e)
  <2>1. \A c \in Ctx \ {cx[e]} : ctx'[c] = ctx[c]
    BY <1>0, <1>1, <1>7, SetErr DEF Recover, TypeOK
  <2> QED
    BY <1>3, <1>6, <1>7, <2>1 DEF Recover, exits, Entering
<1>8. CASE PreparePanics(e) \/ CheckPanics(e)
  BY <1>7, <1>8 DEF PreparePanics, CheckPanics, Entering
<1>9. ASSUME pc[e] \in Entering, ResetToBlocked(e)
      PROVE  pc'[e] \in Entering /\ \A c \in Ctx \ {cx[e]} : ctx'[c] = ctx[c]
  <2>1. pc'[e] \in Entering
    BY <1>0, <1>9, GotoFacts DEF ResetToBlocked, Places, Entering
  <2> QED
    BY <1>0, <1>1, <1>9, <2>1, SetBlocked DEF ResetToBlocked, TypeOK
<1>10. CASE AdaptiveCheck(e)
  <2>1. pc'[e] \in Entering /\ \A c \in Ctx \ {cx[e]} : ctx'[c] = ctx[c]
    BY <1>0, <1>9, <1>10, GotoFacts DEF AdaptiveCheck, Places, Entering
  <2> QED
    BY <1>3, <1>10, <2>1 DEF AdaptiveCheck, exits, pools, Entering
<1>11. CASE Check(e)
  <2>1. pc'[e] \in Entering /\ \A c \in Ctx \ {cx[e]} : ctx'[c] = ctx[c]
    BY <1>0, <1>9, <1>11, GotoFacts DEF Check, Places, Entering
  <2> QED
    BY <1>3, <1>11, <2>1 DEF Check, exits, pools, Entering
<1>12. CASE OnEntryPassed(e)
  <2>1. CASE Answer(e, "live") /\ UNCHANGED <<exits, ctx, resNodeMap, history>>
    BY <1>3, <1>6, <1>12, <2>1 DEF OnEntryPassed, exits, Entering
  <2> QED
    BY <1>7, <1>12, <2>1 DEF OnEntryPassed, Entering
<1>13. CASE OnEntryBlocked(e)
  <2>1. CASE GotoExit(e, 1, "once") /\ Answer(e, "refused") /\ UNCHANGED <<once, ctx, resNodeMap, history>>
    BY <1>3, <1>6, <1>13, <2>1 DEF OnEntryBlocked, Entering
  <2> QED
    BY <1>7, <1>13, <2>1 DEF OnEntryBlocked, Entering
<1> QED
  BY <1>2, <1>4, <1>5, <1>8, <1>10, <1>11, <1>12, <1>13 DEF EntryStep

LEMMA ExchangeExit ==
    ASSUME EntryInv, NEW e \in Ent, (\E k \in Calls : ExitOf(e, k)) \/ Traced(e)
    PROVE  Exchange(e)
<1>0. TypeOK /\ Stage(e) /\ Calling(e) /\ Context(e)
  BY Facts
<1>1. ASSUME \A c \in ctxPool : ctx'[c] = ctx[c], UNCHANGED <<cx, opt, pc, ctxPool, optPool>>,
             once'[e] = "done" => once[e] = "done"
      PROVE  Exchange(e)
  BY <1>1 DEF Exchange, Bound
<1>2. ASSUME SetMy(e, "err", TRUE), Bound(e) PROVE \A c \in ctxPool : ctx'[c] = ctx[c]
  <2>1. cx[e] \in Ctx
    BY <1>0, <1>2 DEF TypeOK, Bound
  <2>2. \A c \in Ctx \ {cx[e]} : ctx'[c] = ctx[c]
    BY <1>0, <1>2, <2>1, SetErr DEF TypeOK
  <2> QED
    BY <1>0, <1>2, <2>2 DEF TypeOK, Context
<1>3. CASE Traced(e)
  <2>1. Bound(e)
    BY <1>0, <1>3, IsBound DEF Traced
  <2> QED
    BY <1>1, <1>2, <1>3, <2>1 DEF Traced, TraceError, entries, exits, pools
<1>4. ASSUME NEW k \in Calls, ExitOf(e, k) PROVE Exchange(e)
  <2>1. CASE Once(e, k)
    <3>1. once'[e] = "done" => once[e] = "done"
      BY <1>0, <2>1 DEF Once, TypeOK
    <3> QED
      BY <1>1, <2>1, <3>1 DEF Once, entries, pools
  <2>2. CASE OnCompleted(e, k)
    BY <1>1, <2>2 DEF OnCompleted, entries, pools
  <2>3. CASE Refurbish(e, k)
    <3>1. Bound(e) /\ cx[e] \in Ctx
      BY <1>0, <2>3, IsBound DEF Refurbish
    <3>2. ctx'[cx[e]] = CleanCtx /\ \A c \in Ctx \ {cx[e]} : ctx'[c] = ctx[c]
      BY <1>0, <2>3, <3>1 DEF Refurbish, Reset, TypeOK
    <3>3. ctxPool' = ctxPool \cup {cx[e]} /\ UNCHANGED <<pc, opt, optPool>>
      BY <2>3 DEF Refurbish, entries
    <3> QED
      BY <1>0, <3>1, <3>2, <3>3 DEF Exchange, TypeOK
  <2>4. CASE Exit(e, k)
    BY <1>1, <2>4 DEF Exit, ExitCall, entries, pools
  <2>5. CASE ExitWithError(e, k)
    <3>1. Bound(e)
      BY <1>0, <2>5, IsBound DEF ExitWithError, ExitCall
    <3> QED
      BY <1>1, <1>2, <2>5, <3>1 DEF ExitWithError, ExitCall, entries, pools
  <2> QED
    BY <1>4, <2>1, <2>2, <2>3, <2>4, <2>5 DEF ExitOf, ExitStep
<1> QED
  BY <1>3, <1>4

LEMMA PoolsStep ==
    ASSUME EntryInv, NEW e \in Ent, Exchange(e), \A f \in Ent \ {e} : Unnoticed(f)
    PROVE  Pools'
<1>0. Pools /\ \A f \in Ent : Stage(f)
  BY DEF EntryInv
<1>1. \A c \in ctxPool' : ctx'[c] = CleanCtx
  BY <1>0 DEF Exchange, Pools
<1>2. ASSUME NEW c \in Ctx PROVE c \in ctxPool' \/ \E f \in Ent : Bound(f)' /\ c = cx'[f]
  <2>1. CASE c \in ctxPool \/ (Bound(e) /\ c = cx[e])
    BY <2>1 DEF Exchange
  <2>2. CASE \E f \in Ent \ {e} : Bound(f) /\ c = cx[f]
    BY <2>2 DEF Unnoticed, Bound
  <2> QED
    BY ZenonT(40), <1>0, <2>1, <2>2 DEF Pools
<1>3. ASSUME NEW o \in Opt PROVE o \in optPool' \/ \E f \in Ent : pc'[f] \in Entering /\ o = opt'[f]
  <2>1. CASE o \in optPool \/ (pc[e] \in Entering /\ o = opt[e])
    BY <2>1 DEF Exchange
  <2>2. CASE \E f \in Ent \ {e} : pc[f] \in Entering /\ o = opt[f]
    BY <2>2 DEF Unnoticed
  <2> QED
    BY <1>0, <2>1, <2>2 DEF Pools
<1>4. ASSUME NEW f \in Ent, NEW g \in Ent, pc'[f] \in Entering, pc'[g] \in Entering, opt'[f] = opt'[g]
      PROVE  f = g
  <2>1. \A h \in Ent : pc[h] \in Entering => opt[h] \notin optPool
    BY <1>0 DEF Stage
  <2>2. \A h, i \in Ent : pc[h] \in Entering /\ pc[i] \in Entering /\ opt[h] = opt[i] => h = i
    BY <1>0 DEF Pools
  <2>3. \A h \in Ent \ {e} : pc'[h] = pc[h] /\ opt'[h] = opt[h]
    BY DEF Unnoticed
  <2>4. pc'[e] \in Entering => opt'[e] \in optPool \/ (pc[e] \in Entering /\ opt'[e] = opt[e])
    BY DEF Exchange
  <2> QED
    BY <1>4, <2>1, <2>2, <2>3, <2>4
<1>5. Ctx \subseteq ctxPool' \cup {cx'[f] : f \in {g \in Ent : Bound(g)'}}
  BY <1>2
<1>6. Opt \subseteq optPool' \cup {opt'[f] : f \in {g \in Ent : pc'[g] \in Entering}}
  BY <1>3
<1> QED
  BY <1>1, <1>4, <1>5, <1>6 DEF Pools

-----------------------------------------------------------------------------
(* The callers.                                                            *)

\* The four ways of a wrapper.
WrapperStep(e) ==
    \/ setup.caller \in Silent /\ Deferred(e)
    \/ setup.caller \in Early /\ \E places \in SUBSET {"live", "refused"} : ExitFirst(e, places)
    \/ setup.caller \in Leaky /\ ExitLast(e)
    \/ setup.caller \notin Silent \cup Early \cup Leaky \cup {"direct"} /\ DeferredTraced(e)

LEMMA Wrappers ==
    ASSUME NEW e \in Ent, WebServer(e) \/ Rpc(e) \/ LanguageModel(e)
    PROVE  WrapperStep(e)
<1>1. CASE WebServer(e)
  BY <1>1 DEF WebServer, GinMiddleware, EchoMiddleware, FiberMiddleware, IrisMiddleware,
     GoFrameMiddleware, GoZeroMiddleware, GoZeroRouteMiddleware, HertzServerMiddleware, GearMiddleware,
     Wrapper, WrapperStep, Silent, Early
<1>2. CASE Rpc(e)
  BY <1>2 DEF Rpc, GrpcUnaryServerInterceptor, GrpcStreamServerInterceptor,
     GrpcUnaryClientInterceptor, GrpcStreamClientInterceptor, HertzClientMiddleware,
     KitexClientMiddleware, KitexServerMiddleware, KratosClientMiddleware, MicroClientCall,
     MicroClientStream, MicroHandlerWrapper, MicroStreamWrapper,
     Wrapper, WrapperStep, Silent, Early, Leaky
<1>3. CASE LanguageModel(e)
  BY <1>3 DEF LanguageModel, EinoGenerate, LangchainGenerateContent, Wrapper, WrapperStep, Leaky
<1> QED
  BY <1>1, <1>2, <1>3

LEMMA WorkedOthers ==
    ASSUME NEW f \in Ent, Worked(f), Unnoticed(f), setup' = setup, work'[f] = work[f]
    PROVE  Worked(f)'
BY DEF Worked, Unnoticed, Bound, My

LEMMA WorkedEntry ==
    ASSUME EntryInv, NEW e \in Ent, EntryStep(e), UNCHANGED <<setup, work>>
    PROVE  Worked(e)'
<1>0. TypeOK /\ Stage(e) /\ Worked(e) /\ pc[e] \in {"new"} \cup Entering
  BY Facts DEF EntryStep, Entry, Lookup, Create, PreparePanics, AdaptiveCheck, Check, CheckPanics,
     OnEntryPassed, OnEntryBlocked, Entering
<1>1. setup.caller \notin Early => work[e] = "none"
  BY <1>0 DEF Worked, Entering
<1>2. call'[e][2] = "none" /\ (pc'[e] = "live" => call'[e][1] = "none")
  <2>1. UNCHANGED call => call'[e][2] = "none" /\ call'[e][1] = "none"
    BY <1>0 DEF Stage, Calls
  <2>2. CASE UNCHANGED call
    BY <2>1, <2>2
  <2>3. CASE GotoExit(e, 1, "once") /\ Answer(e, "refused")
    <3>1. pc'[e] = "refused"
      BY <1>0, <2>3, GotoFacts DEF Answer, Places
    <3>2. call'[e][2] = call[e][2]
      BY <1>0, <2>3, FirstExitFacts
    <3> QED
      BY <1>0, <3>1, <3>2 DEF Stage, Calls
  <2> QED
    BY ZenonT(40), <2>2, <2>3 DEF EntryStep, Entry, Lookup, Create, PreparePanics, AdaptiveCheck, Check, CheckPanics,
     OnEntryPassed, OnEntryBlocked, Recover, exits
<1> QED
  BY <1>0, <1>1, <1>2 DEF Worked, Early, Leaky

LEMMA WorkedExitStep ==
    ASSUME EntryInv, NEW e \in Ent, NEW k \in Calls, ExitStep(e, k), UNCHANGED <<setup, work>>
    PROVE  Worked(e)'
<1>0. TypeOK /\ Stage(e) /\ Calling(e) /\ Context(e) /\ Worked(e)
  BY Facts
<1>1. PICK place \in {"exit", "refurbish", "returned"} : GotoExit(e, k, place)
  BY DEF ExitStep, Once, OnCompleted, Refurbish
<1>2. /\ call[e][k] # "none" /\ call'[e][k] = place
      /\ \A j \in Calls \ {k} : call'[e][j] = call[e][j]
  BY ZenonT(40), <1>0, <1>1, GotoExitFacts DEF ExitStep, Once, OnCompleted, Refurbish, CallPlaces
<1>3. setup.caller # "direct" => k = 1
  BY <1>0, <1>2 DEF Worked, Calls
<1>4. call[e][1] # "none" /\ call'[e][1] # "none"
  BY <1>0, <1>2 DEF Calling, Calls
<1>5. UNCHANGED <<pc, cx>> /\ (Bound(e)' => Bound(e) /\ ctx' = ctx)
  <2>1. CASE Once(e, k)
    BY <1>0, <2>1 DEF Once, Bound, TypeOK, entries
  <2>2. CASE OnCompleted(e, k)
    BY <2>2 DEF OnCompleted, Bound, entries
  <2>3. CASE Refurbish(e, k)
    BY <1>0, <2>3 DEF Refurbish, Bound, TypeOK, entries
  <2> QED
    BY <2>1, <2>2, <2>3 DEF ExitStep
<1>6. ASSUME setup.caller \notin Silent \cup Early, work[e] = "error",
             once'[e] = "done" \/ call'[e][1] = "refurbish"
      PROVE  e \in counted' \cup panicked'
  <2>1. setup.caller \notin Leaky \cup {"direct"} /\ k = 1 /\ pc[e] = "live"
    BY <1>0, <1>3, <1>4, <1>6 DEF Worked
  <2>2. CASE Once(e, 1)
    <3>1. CASE once[e] = "done"
      BY <1>0, <1>6, <2>2, <3>1 DEF Once, Worked
    <3>2. CASE once[e] = "new" /\ GotoExit(e, 1, "exit") /\ once' = [once EXCEPT ![e] = "running"]
      <4>1. once'[e] = "running" /\ call'[e][1] = "exit"
        BY <1>0, <3>2, GotoExitFacts DEF TypeOK, Calls, CallPlaces
      <4> QED
        BY <1>6, <4>1
    <3> QED
      BY <2>2, <3>1, <3>2 DEF Once
  <2>3. CASE OnCompleted(e, 1)
    <3>1. Bound(e)
      BY <1>0, <2>3, IsBound DEF OnCompleted, Calls
    <3>2. My(e).err
      BY <1>0, <1>6, <2>1, <3>1 DEF Worked
    <3>3. e \notin panicked => My(e).entry # None /\ My(e).node # None /\ ~My(e).blocked
      BY <1>0, <2>1, <3>1, EntryAssumption DEF Context
    <3>4. My(e).node # None => Nodes(e) # {}
      BY DEF Nodes
    <3> QED
      BY <2>3, <3>2, <3>3, <3>4 DEF OnCompleted
  <2>4. CASE Refurbish(e, 1)
    BY <1>0, <1>6, <2>4 DEF Refurbish, Worked, history
  <2> QED
    BY <2>1, <2>2, <2>3, <2>4 DEF ExitStep
<1> QED
  BY <1>0, <1>2, <1>3, <1>4, <1>5, <1>6 DEF Worked, My, Calls

LEMMA WorkedExit ==
    ASSUME EntryInv, NEW e \in Ent, NEW k \in Calls, Exit(e, k) \/ ExitWithError(e, k),
           UNCHANGED <<setup, work>>,
           setup.caller # "direct" =>
               Exit(e, k) /\ k = 1 /\ (setup.caller \in Early \/ work[e] # "none")
               /\ (setup.caller \in Leaky => work[e] = "ok")
    PROVE  Worked(e)'
<1>0. TypeOK /\ Worked(e)
  BY Facts
<1>1. CASE setup.caller = "direct"
  BY <1>0, <1>1 DEF Worked, Early, Leaky, Silent
<1>2. CASE setup.caller # "direct"
  <2>1. call[e][1] = "none" /\ call'[e][1] = "once" /\ call'[e][2] = call[e][2]
    BY ZenonT(40), <1>0, <1>2, GotoExitFacts DEF Exit, ExitCall, Calls, CallPlaces
  <2>2. UNCHANGED <<pc, cx, ctx, once, counted, panicked>> /\ pc[e] = "live"
    BY <1>2 DEF Exit, ExitCall, entries
  <2> QED
    BY <1>0, <1>2, <2>1, <2>2 DEF Worked, Bound, My
<1> QED
  BY <1>1, <1>2

LEMMA WorkedWrapper ==
    ASSUME EntryInv, NEW e \in Ent, WrapperStep(e), setup' = setup
    PROVE  /\ Worked(e)' /\ \A f \in Ent \ {e} : work'[f] = work[f]
           /\ work' \in [Ent -> Results]
           /\ (\E k \in Calls : Exit(e, k)) \/ Traced(e) \/ UNCHANGED core
<1>0. TypeOK /\ Stage(e) /\ Calling(e) /\ Worked(e) /\ setup.caller # "direct"
  BY Facts DEF WrapperStep, Silent, Early, Leaky
<1>1. ASSUME NEW result \in {"ok", "error", "panic"}, WorkEnds(e, result)
      PROVE  /\ \A f \in Ent \ {e} : work'[f] = work[f]
             /\ work' \in [Ent -> Results]
             /\ work[e] = "none" /\ work'[e] = result
  BY <1>0, <1>1 DEF WorkEnds, TypeOK, Results
<1>2. ASSUME Exit(e, 1), UNCHANGED work, setup.caller \in Early \/ work[e] # "none",
             setup.caller \in Leaky => work[e] = "ok"
      PROVE  /\ Worked(e)' /\ \A f \in Ent \ {e} : work'[f] = work[f]
             /\ work' \in [Ent -> Results]
             /\ \E k \in Calls : Exit(e, k)
  <2>1. Worked(e)'
    BY <1>2, WorkedExit DEF Calls
  <2> QED
    BY <1>0, <1>2, <2>1 DEF Calls, TypeOK
<1>3. ASSUME AnyResult(e), setup.caller \in Early \/ pc[e] = "live",
             setup.caller \in Early \cup Silent \cup Leaky
      PROVE  /\ Worked(e)' /\ \A f \in Ent \ {e} : work'[f] = work[f]
             /\ work' \in [Ent -> Results]
             /\ UNCHANGED core
  <2>1. PICK result \in {"ok", "error", "panic"} : WorkEnds(e, result)
    BY <1>0, <1>3, SetupFacts DEF AnyResult
  <2>2. UNCHANGED core
    BY <1>3 DEF AnyResult, Unseen, core
  <2>3. setup.caller \notin Early => call[e][1] = "none" /\ once[e] = "new"
    BY <1>0, <1>1, <1>3, <2>1 DEF Worked, Calling
  <2>4. Worked(e)'
    BY ZenonT(40), <1>0, <1>1, <1>3, <2>1, <2>2, <2>3
    DEF Worked, core, entries, exits, history, Bound, My, Early, Leaky, Silent
  <2> QED
    BY <1>1, <2>1, <2>2, <2>4
<1>4. CASE setup.caller \in Silent /\ Deferred(e)
  BY <1>2, <1>3, <1>4 DEF Deferred, ExitAfterWork, Silent, Leaky
<1>5. CASE setup.caller \in Early /\ \E places \in SUBSET {"live", "refused"} : ExitFirst(e, places)
  BY <1>2, <1>3, <1>5 DEF ExitFirst, Early, Leaky
<1>6. CASE setup.caller \in Leaky /\ ExitLast(e)
  BY <1>2, <1>3, <1>6 DEF ExitLast, ExitAfterWork
<1>7. CASE setup.caller \notin Silent \cup Early \cup Leaky \cup {"direct"} /\ DeferredTraced(e)
  <2>0. pc[e] = "live" /\ (work[e] = "none" => call[e][1] = "none" /\ once[e] = "new" /\ cx[e] \in Ctx)
    <3>1. pc[e] = "live" /\ (work[e] = "none" => call[e][1] = "none")
      BY <1>0, <1>7 DEF DeferredTraced, Worked
    <3> QED
      BY <1>0, <3>1, HasContext DEF Calling
  <2>1. CASE WorkEnds(e, "error") /\ TraceError(e)
    <3>1. work[e] = "none" /\ work'[e] = "error"
      BY <1>1, <2>1
    <3>2. ctx'[cx[e]].err = TRUE
      BY <1>0, <2>0, <2>1, <3>1, SetErr DEF TraceError, TypeOK
    <3>3. UNCHANGED <<pc, cx, call, once>>
      BY <2>1 DEF TraceError, entries, exits
    <3>4. Worked(e)'
      BY <1>0, <1>7, <2>0, <3>1, <3>2, <3>3 DEF Worked, My
    <3> QED
      BY <1>1, <2>0, <2>1, <3>1, <3>4 DEF Traced
  <2>2. ASSUME Unseen, NEW result \in setup.results \ {"error"}, WorkEnds(e, result)
        PROVE  /\ Worked(e)' /\ \A f \in Ent \ {e} : work'[f] = work[f]
               /\ work' \in [Ent -> Results]
               /\ UNCHANGED core
    <3>1. result \in {"ok", "panic"}
      BY <1>0, <2>2, SetupFacts
    <3>2. work[e] = "none" /\ work'[e] = result
      BY <1>1, <2>2, <3>1
    <3>3. Worked(e)'
      BY <1>0, <1>7, <2>0, <2>2, <3>1, <3>2 DEF Worked, Unseen, entries, exits
    <3> QED
      BY <1>1, <2>2, <3>1, <3>3 DEF Unseen, core
  <2> QED
    BY <1>2, <1>7, <2>1, <2>2 DEF DeferredTraced, ExitAfterWork
<1> QED
  BY <1>4, <1>5, <1>6, <1>7 DEF WrapperStep

-----------------------------------------------------------------------------
(* The invariant of the entries.                                           *)

\* What a step of the whole is to the entries.
LEMMA Steps ==
    ASSUME EntryInv, [AdaptersNext]_adapterVars
    PROVE  /\ setup' = setup
           /\ \/ \E e \in Ent :
                    /\ StepOf(e)
                    /\ Worked(e)' /\ \A f \in Ent \ {e} : work'[f] = work[f]
                    /\ work' \in [Ent -> Results]
              \/ /\ UNCHANGED core
                 /\ \A e \in Ent : Worked(e)'
                 /\ work' \in [Ent -> Results]
<1>0. TypeOK /\ \A e \in Ent : Worked(e)
  BY DEF EntryInv
<1>1. ASSUME UNCHANGED <<setup, core, work>> PROVE \A e \in Ent : Worked(e)'
  BY <1>0, <1>1 DEF Worked, core, entries, exits, history, Bound, My
<1>2. ASSUME NEW e \in Ent, UNCHANGED <<setup, work>>,
             EntryStep(e) \/ \E k \in Calls : ExitStep(e, k)
      PROVE  /\ StepOf(e)
             /\ Worked(e)' /\ \A f \in Ent \ {e} : work'[f] = work[f]
             /\ work' \in [Ent -> Results]
  BY <1>0, <1>2, WorkedEntry, WorkedExitStep DEF StepOf, ExitOf, TypeOK
<1>3. ASSUME NEW e \in Ent, UNCHANGED <<setup, work>>, DirectCaller(e)
      PROVE  /\ StepOf(e)
             /\ Worked(e)' /\ \A f \in Ent \ {e} : work'[f] = work[f]
             /\ work' \in [Ent -> Results]
  BY <1>0, <1>3, WorkedExit DEF DirectCaller, StepOf, ExitOf, TypeOK
<1>4. ASSUME NEW e \in Ent, setup' = setup, WebServer(e) \/ Rpc(e) \/ LanguageModel(e)
      PROVE  \/ /\ StepOf(e)
                /\ Worked(e)' /\ \A f \in Ent \ {e} : work'[f] = work[f]
                /\ work' \in [Ent -> Results]
             \/ /\ UNCHANGED core
                /\ \A f \in Ent : Worked(f)'
                /\ work' \in [Ent -> Results]
  <2>1. WrapperStep(e)
    BY <1>4, Wrappers
  <2>2. /\ Worked(e)' /\ \A f \in Ent \ {e} : work'[f] = work[f]
        /\ work' \in [Ent -> Results]
        /\ (\E k \in Calls : Exit(e, k)) \/ Traced(e) \/ UNCHANGED core
    BY <1>4, <2>1, WorkedWrapper
  <2>3. ASSUME UNCHANGED core, NEW f \in Ent \ {e} PROVE Worked(f)'
    <3>1. Worked(f) /\ work'[f] = work[f]
      BY <1>0, <2>2
    <3> QED
      BY <1>4, <2>3, <3>1 DEF Worked, core, entries, exits, history, Bound, My
  <2> QED
    BY <2>2, <2>3 DEF StepOf, ExitOf
<1>5. CASE SentinelStep /\ UNCHANGED work
  BY <1>0, <1>1, <1>2, <1>5 DEF SentinelStep, core, TypeOK
<1>6. CASE Over /\ UNCHANGED work
  BY <1>0, <1>1, <1>6 DEF Over, vars, core, TypeOK
<1>7. CASE CallsOver \/ UNCHANGED adapterVars
  BY <1>0, <1>1, <1>7 DEF CallsOver, adapterVars, vars, core, TypeOK
<1> QED
  BY <1>3, <1>4, <1>5, <1>6, <1>7 DEF AdaptersNext

LEMMA EntryInit == AdaptersInit => EntryInv
<1> SUFFICES ASSUME AdaptersInit PROVE EntryInv
  BY SMT
<1> USE DEF AdaptersInit, Init
<1>1. TypeOK
  BY TypeInit
<1>2. Pools
  BY DEF Pools, Entering
<1>3. ASSUME NEW e \in Ent PROVE Stage(e) /\ Calling(e) /\ Context(e) /\ Worked(e)
  BY DEF Stage, Calling, Context, Worked, Bound, Entering, Calls
<1> QED
  BY <1>1, <1>2, <1>3 DEF EntryInv

LEMMA EntryStepOf ==
    ASSUME EntryInv, setup' = setup, NEW e \in Ent, StepOf(e), Worked(e)',
           \A f \in Ent \ {e} : work'[f] = work[f],
           work' \in [Ent -> Results]
    PROVE  EntryInv' /\ \A f \in Ent \ {e} : Unnoticed(f)
<1>0. TypeOK /\ Stage(e) /\ Calling(e) /\ Context(e) /\ Pools
  BY DEF EntryInv
<1>1. \A f \in Ent \ {e} : Unnoticed(f)
  BY FrameEntry, FrameExit DEF StepOf
<1>2. Stage(e)' /\ Calling(e)' /\ Context(e)'
  BY OwnEntry, OwnExit DEF StepOf
<1>3. resNodeMap \in {None, resNodeMap'}
  BY DEF StepOf, EntryStep, Entry, Lookup, Create, PreparePanics, AdaptiveCheck, Check, CheckPanics,
     OnEntryPassed, OnEntryBlocked, Recover, ExitOf, ExitStep, Once, OnCompleted, Refurbish, Exit,
     ExitWithError, ExitCall, Traced, TraceError
<1>4. ASSUME NEW f \in Ent \ {e} PROVE Stage(f)' /\ Calling(f)' /\ Context(f)' /\ Worked(f)'
  <2>1. Unnoticed(f) /\ Worked(f)
    BY <1>1 DEF EntryInv
  <2> QED
    BY <1>3, <2>1, Others, WorkedOthers
<1>5. Pools'
  BY <1>1, ExchangeEntry, ExchangeExit, PoolsStep DEF StepOf
<1>6. counted' \subseteq failed'
  <2>1. failed \subseteq failed'
    BY DEF StepOf, EntryStep, Entry, Lookup, Create, PreparePanics, AdaptiveCheck, Check,
       CheckPanics, OnEntryPassed, OnEntryBlocked, Recover, ExitOf, ExitStep, Once, OnCompleted,
       Refurbish, Exit, ExitWithError, ExitCall, Traced, TraceError, history
  <2>2. ASSUME e \in counted', e \notin counted PROVE e \in failed'
    <3>1. PICK k \in Calls : OnCompleted(e, k)
      BY <2>2 DEF StepOf, EntryStep, Entry, Lookup, Create, PreparePanics, AdaptiveCheck, Check,
         CheckPanics, OnEntryPassed, OnEntryBlocked, Recover, ExitOf, ExitStep, Once, Refurbish, Exit,
         ExitWithError, ExitCall, Traced, TraceError, history
    <3>2. Bound(e)
      BY <1>0, <3>1, IsBound DEF OnCompleted
    <3>3. My(e).err
      BY <2>2, <3>1, Completion
    <3> QED
      BY <1>0, <2>1, <3>2, <3>3 DEF Context
  <2>3. counted' \subseteq counted \cup {e}
    BY DEF StepOf, EntryStep, Entry, Lookup, Create, PreparePanics, AdaptiveCheck, Check,
       CheckPanics, OnEntryPassed, OnEntryBlocked, Recover, ExitOf, ExitStep, Once, OnCompleted,
       Refurbish, Exit, ExitWithError, ExitCall, Traced, TraceError, history
  <2> QED
    BY <2>1, <2>2, <2>3 DEF EntryInv
<1>7. TypeOK'
  <2>1. CASE Traced(e)
    <3>1. ctx' \in [Ctx -> CtxFields]
      BY <1>0, <2>1, HasContext, SetErr DEF Traced, TraceError, TypeOK
    <3> QED
      BY <1>0, <2>1, <3>1 DEF Traced, TraceError, entries, exits, pools, TypeOK
  <2>2. CASE EntryStep(e)
    BY <1>0, <2>2, TypeEntry
  <2>3. CASE \E k \in Calls : ExitOf(e, k)
    BY <1>0, <2>3, TypeExit DEF ExitOf
  <2> QED
    BY <2>1, <2>2, <2>3 DEF StepOf
<1> QED
  BY <1>1, <1>2, <1>4, <1>5, <1>6, <1>7 DEF EntryInv

LEMMA EntryUnchanged ==
    ASSUME EntryInv, setup' = setup, UNCHANGED core, \A e \in Ent : Worked(e)',
           work' \in [Ent -> Results]
    PROVE  EntryInv'
<1> USE DEF core, entries, exits, pools, history
<1>1. TypeOK'
  BY DEF EntryInv, TypeOK
<1>2. Pools'
  BY DEF EntryInv, Pools, Bound
<1>3. ASSUME NEW e \in Ent PROVE Stage(e)' /\ Calling(e)' /\ Context(e)'
  <2>1. Stage(e) /\ Calling(e) /\ Context(e)
    BY Facts
  <2>2. Stage(e)' /\ Calling(e)'
    BY <2>1 DEF Stage, Calling
  <2> QED
    BY <2>1, <2>2 DEF Context, Bound, My
<1> QED
  BY <1>1, <1>2, <1>3 DEF EntryInv

LEMMA EntryNext == EntryInv /\ [AdaptersNext]_adapterVars => EntryInv'
BY Steps, EntryStepOf, EntryUnchanged

\* An entry that is not over has a context of its own that is not in the pool: for
\* any number of entries and of calls of Exit, any caller, and any panics that
\* SlotChain.Entry, exit and the deferred functions recover.
THEOREM ContextsExclusive == AdaptersSpec => []Exclusive
<1>1. EntryInv => Exclusive
  BY DEF EntryInv, Context, Exclusive
<1> QED
  BY <1>1, EntryInit, EntryNext, PTL DEF AdaptersSpec

\* Nothing is lost: once the goroutines have left, both pools have everything back.
THEOREM PoolsComplete == AdaptersSpec => []NothingLeaks
<1>1. EntryInv => NothingLeaks
  <2>1. EntryInv => ctxPool \subseteq Ctx /\ optPool \subseteq Opt
    BY DEF EntryInv, TypeOK
  <2>2. EntryInv /\ (\A e \in Ent : pc[e] \notin Entering) => Opt \subseteq optPool
    BY DEF EntryInv, Pools
  <2>3. EntryInv /\ (\A e \in Ent : cx[e] = None \/ once[e] = "done") => Ctx \subseteq ctxPool
    BY DEF EntryInv, Pools, Bound
  <2> QED
    BY <2>1, <2>2, <2>3 DEF NothingLeaks
<1> QED
  BY <1>1, EntryInit, EntryNext, PTL DEF AdaptersSpec

\* No error of one entry counts for another, and every adapter that traces errors
\* does so before the statistics see the completion.
THEOREM ErrorsReachStatistics == AdaptersSpec => []ErrorsCounted
<1>1. EntryInv => ErrorsCounted
  BY DEF EntryInv, Worked, ErrorsCounted
<1> QED
  BY <1>1, EntryInit, EntryNext, PTL DEF AdaptersSpec

-----------------------------------------------------------------------------
(* The concurrency of the nodes.                                           *)

\* A handler's panic leaves a node one too high for good, and a panic before the
\* statistics, of an entry that passes for it, one too low.
DriftInv ==
    \A n \in Ent \cup {InboundNode} :
        \E high \in SUBSET panicked : \E low \in SUBSET panicked :
            /\ \A e \in high : once[e] # "new"
            /\ conc[n] = Cardinality(InFlight(n)) + Cardinality(high) - Cardinality(low)

Inside == {e \in Ent : pc[e] \in Entering}

PassedOn(n) == {e \in Ent : pc[e] = "passed" /\ My(e).node = n}

\* The entries that a rule on the concurrency let in and that are not over.
Admitted == limited \cap (Inside \cup InFlight(InboundNode))

SystemLimit == Max({Limit(rule, Max(Readings)) : rule \in setup.rules})

OvershootInv ==
    /\ Cardinality(Inside) <= setup.parallel
    /\ \A n \in Ent :
          conc[n] + Cardinality(PassedOn(n)) <= setup.threshold + setup.parallel - 1
    /\ limited # {} =>
          /\ setup.rules # {}
          /\ Cardinality(Admitted) <= SystemLimit + setup.parallel - 1 + Cardinality(panicked)

-----------------------------------------------------------------------------
(* What a step of an entry does to one node.                               *)

\* Nothing; or the entry is counted when its flight begins, or discounted when it
\* ends; or its flight begins uncounted, or ends without being discounted, which
\* takes a panic.
Ledger(e, n) ==
    \/ conc'[n] = conc[n] /\ (e \in InFlight(n)' <=> e \in InFlight(n))
    \/ conc'[n] = conc[n] + 1 /\ e \in InFlight(n)' \ InFlight(n) /\ pc[e] \in Entering
    \/ conc'[n] = conc[n] - 1 /\ e \in InFlight(n) \ InFlight(n)'
    \/ /\ conc'[n] = conc[n] /\ e \in InFlight(n)' \ InFlight(n)
       /\ e \in panicked' \ panicked /\ pc[e] \in Entering
    \/ /\ conc'[n] = conc[n] /\ e \in InFlight(n) \ InFlight(n)'
       /\ e \in panicked' /\ once[e] = "new" /\ once'[e] # "new"

\* The entry is in flight and the node counts it.
Flies(e, n) ==
    /\ pc[e] = "live" /\ Bound(e) /\ n \in Nodes(e) /\ ~My(e).blocked
    /\ \A k \in Calls : call[e][k] # "refurbish"

LEMMA InFlightIs ==
    ASSUME NEW e \in Ent, NEW n
    PROVE  (e \in InFlight(n) <=> Flies(e, n)) /\ (e \in InFlight(n)' <=> Flies(e, n)')
BY DEF InFlight, Flies

LEMMA RecordedAt ==
    ASSUME TypeOK, NEW e \in Ent, NEW n \in Ent \cup {InboundNode}
    PROVE  /\ Recorded(e, 1)[n] = IF n \in Nodes(e) THEN conc[n] + 1 ELSE conc[n]
           /\ Recorded(e, -1)[n] = IF n \in Nodes(e) THEN conc[n] - 1 ELSE conc[n]
           /\ conc[n] \in Int
<1>1. conc \in [Ent \cup {InboundNode} -> Int]
  BY DEF TypeOK
<1> QED
  BY SMT, <1>1 DEF Recorded

\* While api.Entry runs, no node counts the entry as in flight.
LEMMA EnteringFlies ==
    ASSUME NEW e \in Ent, NEW n, pc[e] \in {"new", "refused"} \cup Entering
    PROVE  e \notin InFlight(n)
BY DEF InFlight, Entering

\* A step of api.Entry leaves the concurrency alone, but for OnEntryPassed, and
\* only a panic lets an entry through that was not counted.
LEMMA Onward ==
    ASSUME EntryInv, NEW e \in Ent, EntryStep(e)
    PROVE  /\ pc[e] \in {"new"} \cup Entering
           /\ OnEntryPassed(e) \/ (UNCHANGED conc /\ (pc'[e] # "live" \/ (Recover(e) /\ pc[e] \in Entering)))
<1>0. TypeOK
  BY Facts
<1>1. pc[e] \in {"new"} \cup Entering
  BY DEF EntryStep, Entry, Lookup, Create, PreparePanics, AdaptiveCheck, Check, CheckPanics,
     OnEntryPassed, OnEntryBlocked, Entering
<1>2. ASSUME NEW place \in {"create", "lookup", "system", "check", "passed", "blocked", "refused"},
             Goto(e, place)
      PROVE  pc'[e] # "live"
  BY <1>0, <1>2, GotoFacts DEF Places, Entering
<1>3. CASE Entry(e) \/ Lookup(e) \/ Create(e)
  BY <1>1, <1>2, <1>3 DEF Entry, Lookup, Create, FirstCheck
<1>4. CASE AdaptiveCheck(e) \/ Check(e)
  BY <1>1, <1>2, <1>4 DEF AdaptiveCheck, Check, ResetToBlocked
<1>5. CASE PreparePanics(e) \/ CheckPanics(e)
  BY <1>1, <1>5 DEF PreparePanics, CheckPanics, Entering
<1>6. CASE OnEntryBlocked(e)
  BY <1>1, <1>2, <1>6 DEF OnEntryBlocked, Answer, Entering
<1> QED
  BY <1>1, <1>3, <1>4, <1>5, <1>6 DEF EntryStep

LEMMA LedgerEntry ==
    ASSUME EntryInv, setup' = setup, NEW e \in Ent, EntryStep(e), NEW n \in Ent \cup {InboundNode}
    PROVE  Ledger(e, n)
<1>0. TypeOK /\ Stage(e) /\ Calling(e) /\ Context(e) /\ pc[e] \in {"new"} \cup Entering
  BY Facts, Onward
<1>1. e \notin InFlight(n) /\ e \notin panicked
  BY <1>0, EnteringFlies DEF Stage
<1>2. CASE UNCHANGED conc /\ (pc'[e] # "live" \/ (Recover(e) /\ pc[e] \in Entering))
  <2>1. e \in InFlight(n)' => e \in panicked' /\ pc[e] \in Entering
    BY <1>2, InFlightIs DEF Flies, Recover
  <2> QED
    BY <1>1, <1>2, <2>1 DEF Ledger
<1>3. CASE OnEntryPassed(e)
  <2>0. pc[e] = "passed" /\ Bound(e) /\ cx[e] \in Ctx
    BY <1>0, <1>3, IsBound DEF OnEntryPassed, Entering
  <2>1. pc'[e] = "live"
    BY <1>0, <1>3, GotoFacts DEF OnEntryPassed, Recover, Answer, Places
  <2>2. UNCHANGED <<call, once, cx>>
    BY <1>3 DEF OnEntryPassed, Recover, Answer, exits
  <2>3. My(e)'.node = My(e).node /\ My(e)'.blocked = My(e).blocked
    <3>1. CASE UNCHANGED ctx
      BY <2>2, <3>1 DEF My
    <3>2. CASE Recover(e)
      BY <1>0, <2>0, <2>2, <3>2, SetErr DEF Recover, My, TypeOK
    <3> QED
      BY <1>3, <3>1, <3>2 DEF OnEntryPassed
  <2>4. ~My(e).blocked
    BY <1>0, <2>0 DEF Context, Entering
  <2>5. e \in InFlight(n)' <=> n \in Nodes(e)
    <3>1. Nodes(e)' = Nodes(e)
      BY <2>3 DEF Nodes
    <3>2. Bound(e)' /\ \A k \in Calls : call'[e][k] # "refurbish"
      BY <1>0, <2>0, <2>2 DEF Bound, Stage
    <3> QED
      BY <2>1, <2>3, <2>4, <3>1, <3>2, InFlightIs DEF Flies
  <2>6. conc'[n] = IF n \in Nodes(e) THEN conc[n] + 1 ELSE conc[n]
    BY <1>0, <1>3, RecordedAt DEF OnEntryPassed
  <2> QED
    BY <1>1, <2>0, <2>5, <2>6 DEF Ledger, Entering
<1> QED
  BY <1>2, <1>3, Onward

LEMMA LedgerExit ==
    ASSUME EntryInv, setup' = setup, NEW e \in Ent, NEW k \in Calls, ExitOf(e, k),
           NEW n \in Ent \cup {InboundNode}
    PROVE  Ledger(e, n)
<1>0. TypeOK /\ Stage(e) /\ Calling(e) /\ Context(e)
  BY Facts
<1>1. ASSUME NEW place \in CallPlaces, GotoExit(e, k, place)
      PROVE  call'[e][k] = place /\ \A j \in Calls \ {k} : call'[e][j] = call[e][j]
  BY ZenonT(40), <1>0, <1>1, GotoExitFacts
<1>2. CASE Once(e, k)
  <2>0. UNCHANGED <<setup, pc, cx, ctx, conc>> /\ My(e)' = My(e) /\ Nodes(e)' = Nodes(e)
    BY <1>2 DEF Once, entries, My, Nodes
  <2>1. CASE once[e] = "done" /\ UNCHANGED once
    <3>1. e \notin InFlight(n) /\ e \notin InFlight(n)'
      BY <2>1, InFlightIs DEF Flies, Bound
    <3> QED
      BY <2>0, <3>1 DEF Ledger
  <2>2. CASE GotoExit(e, k, "exit") /\ once[e] = "new" /\ once' = [once EXCEPT ![e] = "running"]
    <3>1. Bound(e)' <=> Bound(e)
      BY <1>0, <2>0, <2>2 DEF Bound, TypeOK
    <3>2. (\A j \in Calls : call'[e][j] # "refurbish") <=> \A j \in Calls : call[e][j] # "refurbish"
      BY <1>1, <1>2, <2>2 DEF Once, CallPlaces
    <3> QED
      BY <2>0, <3>1, <3>2, InFlightIs DEF Flies, Ledger
  <2>3. CASE GotoExit(e, k, "refurbish") /\ once[e] = "new" /\ once' = [once EXCEPT ![e] = "running"]
             /\ panicked' = panicked \cup {e}
    <3>1. e \notin InFlight(n)'
      BY <1>1, <2>3, InFlightIs DEF Flies, CallPlaces
    <3>2. once'[e] # "new" /\ e \in panicked'
      BY <1>0, <2>3 DEF TypeOK
    <3> QED
      BY <2>0, <2>3, <3>1, <3>2 DEF Ledger
  <2> QED
    BY <1>2, <2>1, <2>2, <2>3 DEF Once
<1>3. CASE OnCompleted(e, k)
  <2>0. UNCHANGED <<setup, pc, cx, ctx, once>> /\ My(e)' = My(e) /\ Bound(e)
    BY <1>0, <1>3, IsBound DEF OnCompleted, entries, My
  <2>1. e \notin InFlight(n)'
    BY <1>1, <1>3, InFlightIs DEF OnCompleted, Flies, CallPlaces
  <2>2. CASE My(e).blocked
    <3>1. e \notin InFlight(n)
      BY <2>2, InFlightIs DEF Flies
    <3>2. UNCHANGED conc
      BY <1>3, <2>2 DEF OnCompleted
    <3> QED
      BY <2>1, <3>1, <3>2 DEF Ledger
  <2>3. CASE ~My(e).blocked
    <3>1. pc[e] = "live"
      <4>1. pc[e] \notin {"new"} \cup Entering
        BY <1>0, <1>3 DEF OnCompleted, Stage
      <4>2. pc[e] # "refused"
        BY <1>0, <2>0, <2>3 DEF Context
      <4> QED
        BY <1>0, <4>1, <4>2 DEF TypeOK
    <3>2. \A j \in Calls : call[e][j] # "refurbish"
      BY <1>0, <1>3 DEF OnCompleted, Calling
    <3>3. e \in InFlight(n) <=> n \in Nodes(e)
      BY <2>0, <2>3, <3>1, <3>2, InFlightIs DEF Flies
    <3>4. conc' = Recorded(e, -1)
      <4>1. My(e).entry # None
        BY <1>0, <2>0, EntryAssumption DEF Context
      <4> QED
        BY <1>3, <2>3, <4>1 DEF OnCompleted
    <3>5. conc'[n] = IF n \in Nodes(e) THEN conc[n] - 1 ELSE conc[n]
      BY <1>0, <3>4, RecordedAt
    <3> QED
      BY <2>1, <3>3, <3>5 DEF Ledger
  <2> QED
    BY <2>2, <2>3
<1>4. CASE Refurbish(e, k)
  <2>1. e \notin InFlight(n)
    BY <1>4, InFlightIs DEF Refurbish, Flies
  <2>2. e \notin InFlight(n)'
    BY <1>0, <1>4, InFlightIs DEF Refurbish, Flies, Bound, TypeOK
  <2> QED
    BY <1>4, <2>1, <2>2 DEF Refurbish, Ledger
<1>5. CASE Exit(e, k) \/ ExitWithError(e, k)
  <2>0. ExitCall(e, k) /\ UNCHANGED <<setup, pc, cx, once, conc>>
    BY <1>5 DEF Exit, ExitWithError, ExitCall, entries
  <2>1. Bound(e)' <=> Bound(e)
    BY <2>0 DEF Bound
  <2>2. (\A j \in Calls : call'[e][j] # "refurbish") <=> \A j \in Calls : call[e][j] # "refurbish"
    BY <1>1, <2>0 DEF ExitCall, CallPlaces
  <2>3. Bound(e) => My(e)'.node = My(e).node /\ My(e)'.blocked = My(e).blocked
    <3>1. CASE UNCHANGED ctx
      BY <2>0, <3>1 DEF My
    <3>2. CASE ExitWithError(e, k)
      <4>1. cx[e] \in Ctx
        BY <1>0, <2>0, HasContext DEF ExitCall
      <4> QED
        BY <1>0, <2>0, <3>2, <4>1, SetErr DEF ExitWithError, My, TypeOK
    <3> QED
      BY <1>5, <3>1, <3>2 DEF Exit
  <2>4. e \in InFlight(n)' <=> e \in InFlight(n)
    <3>1. Bound(e) => Nodes(e)' = Nodes(e)
      BY <2>0, <2>3 DEF Nodes
    <3>2. Flies(e, n)' <=> Flies(e, n)
      BY <2>0, <2>1, <2>2, <2>3, <3>1 DEF Flies
    <3> QED
      BY <3>2, InFlightIs
  <2> QED
    BY <2>0, <2>4 DEF Ledger
<1> QED
  BY <1>2, <1>3, <1>4, <1>5 DEF ExitOf, ExitStep

LEMMA LedgerTraced ==
    ASSUME EntryInv, setup' = setup, NEW e \in Ent, Traced(e), NEW n \in Ent \cup {InboundNode}
    PROVE  Ledger(e, n)
<1>0. TypeOK /\ Stage(e) /\ Calling(e) /\ Bound(e) /\ cx[e] \in Ctx
  BY Facts, IsBound DEF Traced
<1>1. UNCHANGED <<setup, pc, cx, call, once, conc>>
  BY DEF Traced, TraceError, entries, exits
<1>2. My(e)'.node = My(e).node /\ My(e)'.blocked = My(e).blocked
  BY <1>0, <1>1, SetErr DEF Traced, TraceError, My, TypeOK
<1>3. e \in InFlight(n)' <=> e \in InFlight(n)
  <2>1. Nodes(e)' = Nodes(e) /\ (Bound(e)' <=> Bound(e))
    BY <1>1, <1>2 DEF Nodes, Bound
  <2> QED
    BY <1>1, <1>2, <2>1, InFlightIs DEF Flies
<1> QED
  BY <1>1, <1>3 DEF Ledger

\* A step is entered in the ledger of its own entry only, and panics and calls of
\* Exit are never forgotten.
LEMMA LedgerStep ==
    ASSUME EntryInv, setup' = setup, NEW e \in Ent, StepOf(e), \A f \in Ent \ {e} : Unnoticed(f),
           NEW n \in Ent \cup {InboundNode}
    PROVE  /\ Ledger(e, n)
           /\ \A f : f # e => (f \in InFlight(n)' <=> f \in InFlight(n))
           /\ panicked \subseteq panicked'
           /\ \A f \in Ent : once[f] # "new" => once'[f] # "new"
<1>0. TypeOK
  BY Facts
<1>1. Ledger(e, n)
  BY LedgerEntry, LedgerExit, LedgerTraced DEF StepOf
<1>2. ASSUME NEW f, f # e PROVE f \in InFlight(n)' <=> f \in InFlight(n)
  <2>1. CASE f \in Ent
    <3>1. Unnoticed(f)
      BY <1>2, <2>1
    <3>2. Bound(f)' <=> Bound(f)
      BY <3>1 DEF Unnoticed, Bound
    <3>3. Bound(f) => My(f)' = My(f)
      BY <3>1 DEF Unnoticed, My
    <3>4. Bound(f) => Nodes(f)' = Nodes(f)
      BY <3>3 DEF Nodes
    <3>5. pc'[f] = pc[f] /\ call'[f] = call[f]
      BY <3>1 DEF Unnoticed
    <3>6. Flies(f, n)' <=> Flies(f, n)
      BY <3>2, <3>3, <3>4, <3>5 DEF Flies
    <3> QED
      BY <2>1, <3>6, InFlightIs
  <2>2. CASE f \notin Ent
    BY <2>2 DEF InFlight
  <2> QED
    BY <2>1, <2>2
<1>3. panicked \subseteq panicked'
  BY DEF StepOf, EntryStep, Entry, Lookup, Create, PreparePanics, AdaptiveCheck, Check,
     CheckPanics, OnEntryPassed, OnEntryBlocked, Recover, ExitOf, ExitStep, Once, OnCompleted,
     Refurbish, Exit, ExitWithError, ExitCall, Traced, TraceError, history
<1>4. once[e] # "new" => once'[e] # "new"
  <2>1. UNCHANGED once \/ \E v \in {"running", "done"} : once' = [once EXCEPT ![e] = v]
    BY DEF StepOf, EntryStep, Entry, Lookup, Create, PreparePanics, AdaptiveCheck, Check,
       CheckPanics, OnEntryPassed, OnEntryBlocked, Recover, ExitOf, ExitStep, Once, OnCompleted,
       Refurbish, Exit, ExitWithError, ExitCall, Traced, TraceError, exits
  <2> QED
    BY <1>0, <2>1 DEF TypeOK
<1> QED
  BY <1>1, <1>2, <1>3, <1>4 DEF Unnoticed

-----------------------------------------------------------------------------
(* The drift.                                                              *)

INSTANCE FiniteSetTheorems

\* The cardinality of a set that changes in one element at most.
LEMMA CardStep ==
    ASSUME NEW S, NEW T, IsFiniteSet(S), NEW e, \A f : f # e => (f \in T <=> f \in S)
    PROVE  /\ IsFiniteSet(T) /\ Cardinality(S) \in Nat /\ Cardinality(T) \in Nat
           /\ e \in T \ S => Cardinality(T) = Cardinality(S) + 1
           /\ e \in S \ T => Cardinality(T) = Cardinality(S) - 1
           /\ (e \in T <=> e \in S) => Cardinality(T) = Cardinality(S)
<1>1. CASE e \in T \ S
  <2>1. T = S \cup {e}
    BY <1>1
  <2> QED
    BY SMT, <1>1, <2>1, FS_AddElement, FS_CardinalityType
<1>2. CASE e \in S \ T
  <2>1. T = S \ {e}
    BY <1>2
  <2> QED
    BY SMT, <1>2, <2>1, FS_RemoveElement, FS_CardinalityType
<1>3. CASE e \in T <=> e \in S
  <2>1. T = S
    BY SMT, <1>3
  <2> QED
    BY <1>3, <2>1, FS_CardinalityType
<1> QED
  BY <1>1, <1>2, <1>3

LEMMA Finite ==
    ASSUME TypeOK, NEW n
    PROVE  /\ IsFiniteSet(InFlight(n)) /\ IsFiniteSet(InFlight(n)')
           /\ IsFiniteSet(panicked) /\ Cardinality(panicked) \in Nat
           /\ Cardinality(InFlight(n)) \in Nat
<1>1. InFlight(n) \subseteq Ent /\ InFlight(n)' \subseteq Ent /\ panicked \subseteq Ent
  BY DEF InFlight, TypeOK
<1> QED
  BY <1>1, EntryAssumption, FS_Subset, FS_CardinalityType

LEMMA DriftInit == AdaptersInit => DriftInv
<1> SUFFICES ASSUME AdaptersInit, NEW n \in Ent \cup {InboundNode}
    PROVE  /\ panicked = {}
           /\ conc[n] = Cardinality(InFlight(n)) + Cardinality({}) - Cardinality({})
  BY DEF DriftInv
<1>1. InFlight(n) = {} /\ panicked = {} /\ conc[n] = 0
  BY DEF AdaptersInit, Init, InFlight
<1> QED
  BY SMT, <1>1, FS_EmptySet

LEMMA DriftStep ==
    ASSUME EntryInv, DriftInv, setup' = setup, NEW e \in Ent, StepOf(e),
           \A f \in Ent \ {e} : Unnoticed(f)
    PROVE  DriftInv'
<1> SUFFICES ASSUME NEW n \in Ent \cup {InboundNode}
    PROVE  \E high \in SUBSET panicked' : \E low \in SUBSET panicked' :
              /\ \A f \in high : once'[f] # "new"
              /\ conc'[n] = Cardinality(InFlight(n)') + Cardinality(high) - Cardinality(low)
  BY DEF DriftInv
<1>0. TypeOK /\ conc[n] \in Int /\ IsFiniteSet(panicked) /\ IsFiniteSet(InFlight(n))
  BY Facts, Finite, RecordedAt
<1>1. /\ Ledger(e, n) /\ panicked \subseteq panicked'
      /\ \A f : f # e => (f \in InFlight(n)' <=> f \in InFlight(n))
      /\ \A f \in Ent : once[f] # "new" => once'[f] # "new"
  BY LedgerStep
<1>2. PICK high \in SUBSET panicked : \E low \in SUBSET panicked :
         /\ \A f \in high : once[f] # "new"
         /\ conc[n] = Cardinality(InFlight(n)) + Cardinality(high) - Cardinality(low)
  BY DEF DriftInv
<1>3. PICK low \in SUBSET panicked :
         /\ \A f \in high : once[f] # "new"
         /\ conc[n] = Cardinality(InFlight(n)) + Cardinality(high) - Cardinality(low)
  BY <1>2
<1>4. /\ high \subseteq panicked' /\ low \subseteq panicked' /\ \A f \in high : once'[f] # "new"
      /\ high \subseteq Ent /\ low \subseteq Ent
  BY <1>0, <1>1, <1>3 DEF TypeOK
<1>5. /\ Cardinality(InFlight(n)) \in Nat /\ Cardinality(InFlight(n)') \in Nat
      /\ e \in InFlight(n)' \ InFlight(n) => Cardinality(InFlight(n)') = Cardinality(InFlight(n)) + 1
      /\ e \in InFlight(n) \ InFlight(n)' => Cardinality(InFlight(n)') = Cardinality(InFlight(n)) - 1
      /\ (e \in InFlight(n)' <=> e \in InFlight(n)) => Cardinality(InFlight(n)') = Cardinality(InFlight(n))
  BY <1>0, <1>1, CardStep
<1>6. /\ IsFiniteSet(high) /\ IsFiniteSet(low)
      /\ Cardinality(high) \in Nat /\ Cardinality(low) \in Nat
  BY <1>0, FS_Subset, FS_CardinalityType
<1>7. CASE conc'[n] - Cardinality(InFlight(n)') = conc[n] - Cardinality(InFlight(n))
           /\ conc'[n] \in Int
  <2>1. conc'[n] = Cardinality(InFlight(n)') + Cardinality(high) - Cardinality(low)
    BY SMTT(30), <1>0, <1>3, <1>5, <1>6, <1>7
  <2> QED
    BY <1>4, <2>1
<1>8. CASE conc'[n] = conc[n] /\ e \in InFlight(n)' \ InFlight(n) /\ e \in panicked' \ panicked
  <2>1. Cardinality(low \cup {e}) = Cardinality(low) + 1
    BY <1>6, <1>8, FS_AddElement
  <2>2. conc'[n] = Cardinality(InFlight(n)') + Cardinality(high) - Cardinality(low \cup {e})
    BY SMT, <1>3, <1>5, <1>6, <1>8, <2>1
  <2>3. low \cup {e} \in SUBSET panicked'
    BY <1>4, <1>8
  <2> QED
    BY <1>4, <2>2, <2>3
<1>9. CASE /\ conc'[n] = conc[n] /\ e \in InFlight(n) \ InFlight(n)'
           /\ e \in panicked' /\ once[e] = "new" /\ once'[e] # "new"
  <2>1. Cardinality(high \cup {e}) = Cardinality(high) + 1
    BY <1>3, <1>6, <1>9, FS_AddElement
  <2>2. conc'[n] = Cardinality(InFlight(n)') + Cardinality(high \cup {e}) - Cardinality(low)
    BY SMTT(30), <1>3, <1>5, <1>6, <1>9, <2>1
  <2>3. high \cup {e} \in SUBSET panicked' /\ \A f \in high \cup {e} : once'[f] # "new"
    BY <1>4, <1>9
  <2> QED
    BY <1>4, <2>2, <2>3
<1>10. \/ conc'[n] - Cardinality(InFlight(n)') = conc[n] - Cardinality(InFlight(n)) /\ conc'[n] \in Int
       \/ conc'[n] = conc[n] /\ e \in InFlight(n)' \ InFlight(n) /\ e \in panicked' \ panicked
       \/ /\ conc'[n] = conc[n] /\ e \in InFlight(n) \ InFlight(n)'
          /\ e \in panicked' /\ once[e] = "new" /\ once'[e] # "new"
  BY SMTT(30), <1>0, <1>1, <1>5 DEF Ledger
<1> QED
  BY <1>7, <1>8, <1>9, <1>10

\* What DriftInv says of one node.
LEMMA DriftBound ==
    ASSUME EntryInv, DriftInv, NEW n \in Ent \cup {InboundNode}
    PROVE  /\ conc[n] \in Int /\ Cardinality(InFlight(n)) \in Nat /\ Cardinality(panicked) \in Nat
           /\ conc[n] - Cardinality(InFlight(n)) <= Cardinality(panicked)
           /\ Cardinality(InFlight(n)) - conc[n] <= Cardinality(panicked)
<1>0. conc[n] \in Int /\ IsFiniteSet(panicked) /\ IsFiniteSet(InFlight(n))
  BY Finite DEF EntryInv, TypeOK
<1>1. PICK high \in SUBSET panicked : \E low \in SUBSET panicked :
         conc[n] = Cardinality(InFlight(n)) + Cardinality(high) - Cardinality(low)
  BY DEF DriftInv
<1>2. PICK low \in SUBSET panicked :
         conc[n] = Cardinality(InFlight(n)) + Cardinality(high) - Cardinality(low)
  BY <1>1
<1>3. /\ Cardinality(InFlight(n)) \in Nat /\ Cardinality(panicked) \in Nat
      /\ Cardinality(high) \in Nat /\ Cardinality(low) \in Nat
      /\ Cardinality(high) <= Cardinality(panicked) /\ Cardinality(low) <= Cardinality(panicked)
  BY <1>0, FS_Subset, FS_CardinalityType
<1> QED
  BY SMT, <1>0, <1>2, <1>3

LEMMA DriftNext == EntryInv /\ DriftInv /\ [AdaptersNext]_adapterVars => DriftInv'
<1> SUFFICES ASSUME EntryInv, DriftInv, [AdaptersNext]_adapterVars PROVE DriftInv'
  BY SMT
<1>1. CASE UNCHANGED <<setup, core>>
  <2>1. \A n : InFlight(n)' = InFlight(n)
    BY <1>1 DEF InFlight, Bound, Nodes, My, core, entries, exits
  <2> QED
    BY <1>1, <2>1 DEF DriftInv, core, exits, history
<1>2. ASSUME setup' = setup, NEW e \in Ent, StepOf(e), Worked(e)',
             \A f \in Ent \ {e} : work'[f] = work[f], work' \in [Ent -> Results]
      PROVE  DriftInv'
  BY <1>2, EntryStepOf, DriftStep
<1> QED
  BY <1>1, <1>2, Steps

\* The concurrency of a node is off by one at most for every entry that met a panic,
\* whatever the entries, goroutines and callers do.
THEOREM DriftIsBounded == AdaptersSpec => []ConcurrencyDrift
<1>1. EntryInv /\ DriftInv => ConcurrencyDrift
  <2>1. ASSUME EntryInv, DriftInv, NEW n \in Ent \cup {InboundNode}
        PROVE  LET drift == conc[n] - Cardinality(InFlight(n))
               IN  drift <= Cardinality(panicked) /\ -drift <= Cardinality(panicked)
    BY SMT, <2>1, DriftBound
  <2> QED
    BY <2>1 DEF ConcurrencyDrift
<1> QED
  BY <1>1, EntryInit, EntryNext, DriftInit, DriftNext, PTL DEF AdaptersSpec

\* An entry that goes on, whose Exit was not called and that met no panic, is counted
\* by the node of the resource, and by the inbound node if its traffic is inbound.
LEMMA GoesOn ==
    ASSUME EntryInv, NEW e \in Ent, pc[e] = "live", call[e][1] = "none", e \notin panicked,
           NEW n, n = resNodeMap \/ (n = InboundNode /\ setup.flow = "inbound")
    PROVE  e \in InFlight(n)
<1>0. TypeOK /\ Stage(e) /\ Calling(e) /\ Context(e)
  BY Facts
<1>1. Bound(e) /\ \A k \in Calls : call[e][k] = "none"
  <2>1. call[e][2] = "none"
    BY <1>0 DEF Calling
  <2> QED
    BY <1>0, <2>1, IsBound DEF Calls
<1>2. My(e).node = resNodeMap /\ resNodeMap # None /\ ~My(e).blocked
  BY <1>0, <1>1 DEF Context
<1>3. n \in Nodes(e)
  BY <1>2 DEF Nodes
<1> QED
  BY <1>1, <1>2, <1>3, InFlightIs DEF Flies

LEMMA OutboundApart ==
    ASSUME EntryInv, setup.flow = "outbound"
    PROVE  InFlight(InboundNode) = {}
<1> SUFFICES ASSUME NEW e \in InFlight(InboundNode) PROVE FALSE
  OBVIOUS
<1>0. e \in Ent /\ Bound(e) /\ InboundNode \in Nodes(e)
  BY DEF InFlight
<1>1. My(e).node \in Ent \cup {None}
  BY ZenonT(40), <1>0, Facts DEF Context, TypeOK
<1>2. My(e).node = InboundNode
  BY SMT, <1>0 DEF Nodes
<1> QED
  BY <1>1, <1>2, EntryAssumption

\* Without panics, when nothing is entering or exiting, the concurrency is the number
\* of calls that go on, and of those that the adapters of language models never end.
THEOREM CallsAreCounted == AdaptersSpec => []CallsCounted
<1>1. EntryInv /\ DriftInv => CallsCounted
  <2> DEFINE Working(e) == pc[e] = "live" /\ work[e] = "none"
             Open == {e \in Ent : Working(e) \/ Lost(e)}
  <2> SUFFICES ASSUME EntryInv, DriftInv,
                      setup.caller \notin {"direct"} \cup Early, panicked = {},
                      \A e \in Ent : pc[e] = "new" \/ Working(e) \/ Finished(e),
                      NEW n \in ({resNodeMap} \ {None}) \cup {InboundNode}
      PROVE  conc[n] = IF n = InboundNode /\ setup.flow = "outbound" THEN 0 ELSE Cardinality(Open)
    BY DEF CallsCounted
  <2>1. conc[n] = Cardinality(InFlight(n))
    <3>1. n \in Ent \cup {InboundNode}
      BY DEF EntryInv, TypeOK
    <3>2. Cardinality(panicked) = 0
      BY FS_EmptySet
    <3>3. /\ conc[n] \in Int /\ Cardinality(InFlight(n)) \in Nat
          /\ conc[n] - Cardinality(InFlight(n)) <= 0 /\ Cardinality(InFlight(n)) - conc[n] <= 0
      BY <3>1, <3>2, DriftBound
    <3> QED
      BY SMT, <3>3
  <2>2. CASE n = InboundNode /\ setup.flow = "outbound"
    BY <2>1, <2>2, OutboundApart, FS_EmptySet
  <2>3. CASE ~(n = InboundNode /\ setup.flow = "outbound")
    <3>0. n = resNodeMap \/ (n = InboundNode /\ setup.flow = "inbound")
      BY <2>3, SetupFacts DEF EntryInv
    <3>1. ASSUME NEW e \in Open PROVE e \in InFlight(n)
      <4>1. e \in Ent /\ Worked(e) /\ (Working(e) \/ Lost(e))
        BY <3>1, Facts
      <4>2. pc[e] = "live" /\ call[e][1] = "none"
        BY <4>1 DEF Worked, Lost
      <4> QED
        BY <3>0, <4>1, <4>2, GoesOn
    <3>2. ASSUME NEW e \in InFlight(n) PROVE e \in Open
      <4>1. e \in Ent /\ Calling(e) /\ Bound(e) /\ pc[e] = "live"
        BY <3>2, Facts DEF InFlight
      <4>2. call[e][1] # "returned"
        BY <4>1 DEF Calling, Calls, Bound
      <4> QED
        BY <4>1, <4>2 DEF Finished
    <3>3. InFlight(n) = Open
      BY <3>1, <3>2
    <3> QED
      BY <2>1, <2>3, <3>3
  <2> QED
    BY <2>2, <2>3
<1> QED
  BY <1>1, EntryInit, EntryNext, DriftInit, DriftNext, PTL DEF AdaptersSpec

-----------------------------------------------------------------------------
(* The largest element of a finite set of integers.                        *)

\* Induction on the natural numbers, for sets: a set without n that is closed under
\* the successor would map its numbers below n one-to-one to themselves, 0 left out.
LEMMA NatSet ==
    ASSUME NEW S \in SUBSET Nat, 0 \in S, \A i \in S : i + 1 \in S, NEW n \in Nat
    PROVE  n \in S
<1> SUFFICES ASSUME n \notin S PROVE FALSE
  BY SMT
<1> DEFINE T == S \cap (0 .. n)
           f == [i \in T |-> i + 1]
<1>1. IsFiniteSet(T)
  <2>1. IsFiniteSet(0 .. n)
    BY SMT, FS_Interval
  <2>2. T \subseteq 0 .. n
    BY SMT
  <2> QED
    BY <2>1, <2>2, FS_Subset
<1>2. \A i \in T : i + 1 \in T
  <2> SUFFICES ASSUME NEW i \in T PROVE i + 1 \in T
    BY SMT
  <2>1. i \in Nat /\ i <= n /\ i # n /\ i + 1 \in S
    BY SMT
  <2> QED
    BY SMT, <2>1
<1>3. f \in Injection(T, T)
  BY SMT, <1>2 DEF Injection, IsInjective
<1>4. f \in Surjection(T, T)
  BY <1>1, <1>3, FS_Injection
<1>5. 0 \in T
  BY SMT
<1>6. PICK i \in T : f[i] = 0
  BY <1>4, <1>5 DEF Surjection
<1> QED
  BY SMT, <1>6

LEMMA HasMax ==
    ASSUME NEW S \in SUBSET Int, IsFiniteSet(S), S # {}
    PROVE  Max(S) \in S /\ \A x \in S : x <= Max(S)
<1> DEFINE Bounded(T) == \E m \in T : \A x \in T : x <= m
           P == {k \in Nat : \A T \in SUBSET Int :
                                IsFiniteSet(T) /\ Cardinality(T) = k + 1 => Bounded(T)}
<1>1. 0 \in P
  <2> SUFFICES ASSUME NEW T \in SUBSET Int, IsFiniteSet(T), Cardinality(T) = 1 PROVE Bounded(T)
    BY SMT
  <2>1. PICK m : T = {m}
    BY FS_Singleton
  <2> QED
    BY SMT, <2>1
<1>2. ASSUME NEW k \in P PROVE k + 1 \in P
  <2> SUFFICES ASSUME NEW T \in SUBSET Int, IsFiniteSet(T), Cardinality(T) = k + 1 + 1
               PROVE  Bounded(T)
    BY SMT
  <2>0. k \in Nat
    BY SMT
  <2>1. PICK x \in T : TRUE
    <3>1. Cardinality(T) # 0
      BY SMT, <2>0
    <3> QED
      BY <3>1, FS_EmptySet
  <2>2. IsFiniteSet(T \ {x}) /\ Cardinality(T \ {x}) = k + 1
    BY SMT, <2>0, <2>1, FS_RemoveElement
  <2>3. Bounded(T \ {x})
    BY SMT, <2>2
  <2>4. PICK m \in T \ {x} : \A y \in T \ {x} : y <= m
    BY <2>3
  <2>5. CASE x <= m
    BY SMT, <2>4, <2>5
  <2>6. CASE m <= x
    <3>1. \A y \in T : y <= x
      BY SMTT(30), <2>1, <2>4, <2>6
    <3> QED
      BY SMT, <2>1, <3>1
  <2> QED
    BY SMTT(30), <2>1, <2>4, <2>5, <2>6
<1>3. \A k \in Nat : k \in P
  <2>1. P \in SUBSET Nat
    BY SMT
  <2> HIDE DEF P
  <2> QED
    BY ZenonT(40), <1>1, <1>2, <2>1, NatSet
<1>4. PICK k \in Nat : Cardinality(S) = k + 1
  <2>1. Cardinality(S) \in Nat /\ Cardinality(S) # 0
    BY FS_EmptySet, FS_CardinalityType
  <2>2. Cardinality(S) - 1 \in Nat /\ Cardinality(S) = (Cardinality(S) - 1) + 1
    BY SMT, <2>1
  <2> QED
    BY <2>2
<1>5. Bounded(S)
  BY SMT, <1>3, <1>4
<1>6. PICK m \in S : \A x \in S : x <= m
  BY <1>5
<1>7. \E n \in S : \A x \in S : n >= x
  BY SMT, <1>6
<1>8. Max(S) \in S /\ \A x \in S : Max(S) >= x
  BY <1>7 DEF Max
<1> QED
  BY SMT, <1>8

-----------------------------------------------------------------------------
(* The overshoot of the checks.                                            *)

\* A system rule that limits the concurrency lets in less than its limit.
LEMMA RuleLimits ==
    ASSUME NEW rule \in [metric : {"concurrency", "inboundQPS", "avgRT", "load", "cpu"},
                         trigger : Nat, strategy : {"none", "bbr"}],
           NEW concurrency \in Int, NEW report \in Readings,
           Limits(rule), DoCheckRule(rule, concurrency, report)
    PROVE  concurrency + 1 <= Limit(rule, Max(Readings))
<1>0. Max(Readings) \in Nat /\ report \in Nat /\ report <= Max(Readings)
  <2>1. Readings \in SUBSET Int
    BY SMT, ReadingsAssumption
  <2> QED
    BY <2>1, HasMax, ReadingsAssumption
<1>1. CASE rule.metric = "concurrency"
  BY SMT, <1>1 DEF DoCheckRule, Limit
<1>2. CASE rule.metric # "concurrency"
  <2>1. rule.metric \in {"load", "cpu"} /\ Sample(rule) > rule.trigger
    BY <1>2 DEF Limits
  <2>2. rule.strategy = "bbr" /\ CheckBbrSimple(concurrency, report)
    BY <2>1 DEF DoCheckRule
  <2> QED
    BY SMT, <1>0, <1>2, <2>2 DEF CheckBbrSimple, Limit
<1> QED
  BY <1>1, <1>2

LEMMA RuleTypes ==
    ASSUME TypeOK
    PROVE  /\ IsFiniteSet(setup.rules)
           /\ setup.rules \subseteq [metric : {"concurrency", "inboundQPS", "avgRT", "load", "cpu"},
                                     trigger : Nat, strategy : {"none", "bbr"}]
BY EntryAssumption DEF TypeOK

LEMMA LimitIsMax ==
    ASSUME TypeOK, NEW rule \in setup.rules
    PROVE  SystemLimit \in Int /\ Limit(rule, Max(Readings)) <= SystemLimit
<1> DEFINE limit == [r \in setup.rules |-> Limit(r, Max(Readings))]
           limits == {Limit(r, Max(Readings)) : r \in setup.rules}
<1>1. limit \in Surjection(setup.rules, limits)
  BY SMT DEF Surjection
<1>2. IsFiniteSet(limits)
  BY <1>1, RuleTypes, FS_Surjection
<1>3. limits \in SUBSET Int
  <2>1. Max(Readings) \in Int
    <3>1. Readings \in SUBSET Int
      BY SMT, ReadingsAssumption
    <3> QED
      BY <3>1, HasMax, ReadingsAssumption
  <2> SUFFICES ASSUME NEW r \in setup.rules PROVE Limit(r, Max(Readings)) \in Int
    OBVIOUS
  <2>2. r.trigger \in Int
    BY SMT, RuleTypes
  <2> QED
    BY SMT, <2>1, <2>2 DEF Limit
<1>4. Limit(rule, Max(Readings)) \in limits
  OBVIOUS
<1> HIDE DEF limits
<1>5. Max(limits) \in Int /\ Limit(rule, Max(Readings)) <= Max(limits)
  BY <1>2, <1>3, <1>4, HasMax
<1> QED
  BY <1>5 DEF SystemLimit, limits

\* Where the entries are that api.Entry works on.
LEMMA InsideStep ==
    ASSUME EntryInv, NEW e \in Ent, StepOf(e), \A f \in Ent \ {e} : Unnoticed(f)
    PROVE  /\ \A f : f # e => (f \in Inside' <=> f \in Inside)
           /\ e \in Inside' \ Inside => Entry(e)
<1>0. TypeOK /\ Stage(e)
  BY Facts
<1>1. ASSUME NEW f, f # e PROVE f \in Inside' <=> f \in Inside
  BY <1>1 DEF Inside, Unnoticed
<1>2. ASSUME e \in Inside' \ Inside PROVE Entry(e)
  <2>1. pc'[e] \in Entering /\ pc[e] \notin Entering
    BY <1>2 DEF Inside
  <2>2. CASE EntryStep(e)
    BY ZenonT(40), <2>1, <2>2 DEF EntryStep, Lookup, Create, PreparePanics, AdaptiveCheck, Check, CheckPanics,
       OnEntryPassed, OnEntryBlocked, Entering
  <2>3. CASE ~EntryStep(e)
    <3>1. UNCHANGED pc
      BY ZenonT(40), <2>3 DEF StepOf, ExitOf, ExitStep, Once, OnCompleted, Refurbish, Exit, ExitWithError,
         ExitCall, Traced, TraceError, entries
    <3> QED
      BY <2>1, <3>1
  <2> QED
    BY <2>2, <2>3
<1> QED
  BY <1>1, <1>2

LEMMA InsideBound ==
    ASSUME EntryInv, OvershootInv, setup' = setup, NEW e \in Ent, StepOf(e),
           \A f \in Ent \ {e} : Unnoticed(f)
    PROVE  /\ IsFiniteSet(Inside') /\ Cardinality(Inside') \in Nat
           /\ Cardinality(Inside') <= setup.parallel /\ setup.parallel \in Nat
<1>0. setup.parallel \in Nat /\ Cardinality(Inside) <= setup.parallel
  BY SMT, SetupFacts DEF EntryInv, OvershootInv
<1>1. IsFiniteSet(Inside)
  <2>1. Inside \subseteq Ent
    BY DEF Inside
  <2> QED
    BY <2>1, EntryAssumption, FS_Subset
<1>2. /\ IsFiniteSet(Inside') /\ Cardinality(Inside) \in Nat /\ Cardinality(Inside') \in Nat
      /\ e \in Inside' \ Inside => Cardinality(Inside') = Cardinality(Inside) + 1
      /\ e \in Inside \ Inside' => Cardinality(Inside') = Cardinality(Inside) - 1
      /\ (e \in Inside' <=> e \in Inside) => Cardinality(Inside') = Cardinality(Inside)
  BY <1>1, InsideStep, CardStep
<1>3. e \in Inside' \ Inside => Cardinality(Inside) < setup.parallel
  BY InsideStep DEF Entry, Inside
<1> QED
  BY SMTT(30), <1>0, <1>2, <1>3

\* Only the check slots let an entry pass, and only OnEntryPassed raises the concurrency.
LEMMA PassesCheck ==
    ASSUME EntryInv, NEW e \in Ent, StepOf(e), pc'[e] = "passed"
    PROVE  pc[e] = "check" /\ ~OverThreshold(e) /\ UNCHANGED <<conc, ctx, cx>>
<1>0. TypeOK /\ Stage(e)
  BY Facts
<1>1. ASSUME NEW place \in Places \ {"passed"}, Goto(e, place) PROVE FALSE
  BY <1>0, <1>1, GotoFacts
<1>2. CASE Entry(e) \/ Lookup(e) \/ Create(e)
  BY <1>1, <1>2 DEF Entry, Lookup, Create, FirstCheck, Places, Entering
<1>3. CASE PreparePanics(e) \/ CheckPanics(e) \/ OnEntryPassed(e) \/ OnEntryBlocked(e)
  BY <1>1, <1>3 DEF PreparePanics, CheckPanics, OnEntryPassed, OnEntryBlocked, Recover, Answer, Places
<1>4. CASE AdaptiveCheck(e)
  BY <1>1, <1>4 DEF AdaptiveCheck, ResetToBlocked, Places, Entering
<1>5. CASE Check(e)
  BY <1>1, <1>5 DEF Check, ResetToBlocked, Places, Entering
<1>6. CASE \/ \E k \in Calls : ExitOf(e, k)
           \/ Traced(e)
  <2>1. UNCHANGED pc
    BY <1>6 DEF ExitOf, ExitStep, Once, OnCompleted, Refurbish, Exit, ExitWithError, ExitCall,
       Traced, TraceError, entries
  <2>2. pc[e] \notin Entering
    BY ZenonT(40), <1>0, <1>6 DEF ExitOf, ExitStep, Once, OnCompleted, Refurbish, Exit, ExitWithError, ExitCall,
       Traced, Stage, Entering
  <2> QED
    BY <2>1, <2>2 DEF Entering
<1> QED
  BY ZenonT(40), <1>2, <1>3, <1>4, <1>5, <1>6 DEF StepOf, EntryStep

LEMMA NotRaised ==
    ASSUME EntryInv, NEW e \in Ent, StepOf(e), ~OnEntryPassed(e), NEW n \in Ent \cup {InboundNode}
    PROVE  conc'[n] \in Int /\ conc'[n] <= conc[n]
<1>0. TypeOK /\ conc[n] \in Int
  BY Facts, RecordedAt
<1>1. UNCHANGED conc \/ conc' = Recorded(e, -1)
  <2>1. CASE EntryStep(e)
    BY <2>1, Onward
  <2>2. CASE ~EntryStep(e)
    BY <2>2, Completion DEF StepOf, ExitOf, ExitStep, Once, Refurbish, Exit, ExitWithError,
       ExitCall, Traced, TraceError
  <2> QED
    BY <2>1, <2>2
<1>2. conc'[n] = conc[n] \/ conc'[n] = conc[n] - 1
  BY <1>0, <1>1, RecordedAt
<1> QED
  BY SMT, <1>0, <1>2

LEMMA ThresholdStep ==
    ASSUME EntryInv, OvershootInv, setup' = setup, NEW e \in Ent, StepOf(e),
           \A f \in Ent \ {e} : Unnoticed(f), NEW n \in Ent
    PROVE  conc'[n] + Cardinality(PassedOn(n)') <= setup.threshold + setup.parallel - 1
<1> DEFINE P == PassedOn(n)
<1>0. TypeOK /\ Stage(e) /\ Calling(e) /\ conc[n] \in Int
  BY Facts, RecordedAt
<1>1. ASSUME NEW f, f # e PROVE f \in P' <=> f \in P
  <2>1. CASE f \in Ent
    <3>1. Unnoticed(f) /\ pc'[f] = pc[f]
      BY <1>1, <2>1 DEF Unnoticed
    <3>2. pc[f] = "passed" => My(f)' = My(f)
      BY <2>1, <3>1, Facts, IsBound DEF Unnoticed, Entering, My
    <3> QED
      BY <2>1, <3>1, <3>2 DEF PassedOn
  <2>2. CASE f \notin Ent
    BY <2>2 DEF PassedOn
  <2> QED
    BY <2>1, <2>2
<1>2. IsFiniteSet(P)
  <2>1. P \subseteq Ent
    BY DEF PassedOn
  <2> QED
    BY <2>1, EntryAssumption, FS_Subset
<1>3. /\ Cardinality(P) \in Nat /\ Cardinality(P') \in Nat
      /\ e \in P' \ P => Cardinality(P') = Cardinality(P) + 1
      /\ e \in P \ P' => Cardinality(P') = Cardinality(P) - 1
      /\ (e \in P' <=> e \in P) => Cardinality(P') = Cardinality(P)
  BY <1>1, <1>2, CardStep
<1>4. /\ setup.threshold \in Nat /\ setup.parallel \in Nat
      /\ conc[n] + Cardinality(P) <= setup.threshold + setup.parallel - 1
  BY SMT, SetupFacts DEF EntryInv, OvershootInv
<1>5. CASE e \in P' \ P
  <2>1. pc[e] = "check" /\ ~OverThreshold(e) /\ UNCHANGED <<conc, ctx, cx>> /\ My(e).node = n
    BY <1>5, PassesCheck DEF PassedOn, My
  <2>2. input[e].batch \in Nat \ {0}
    BY SMT, <1>0 DEF TypeOK
  <2>3. conc[n] <= setup.threshold - 1
    BY SMTT(30), <1>0, <1>4, <2>1, <2>2 DEF OverThreshold
  <2>4. Cardinality(P') <= setup.parallel
    <3>1. P' \subseteq Inside'
      BY DEF PassedOn, Inside, Entering
    <3>2. /\ IsFiniteSet(Inside') /\ Cardinality(Inside') \in Nat
          /\ Cardinality(Inside') <= setup.parallel
      BY InsideBound
    <3>3. Cardinality(P') <= Cardinality(Inside')
      BY <3>1, <3>2, FS_Subset
    <3> QED
      BY SMTT(30), <1>3, <1>4, <3>2, <3>3
  <2> QED
    BY SMTT(30), <1>0, <1>3, <1>4, <2>1, <2>3, <2>4
<1>6. CASE e \notin P' \ P /\ ~OnEntryPassed(e)
  <2>1. conc'[n] \in Int /\ conc'[n] <= conc[n]
    BY <1>6, NotRaised
  <2>2. Cardinality(P') <= Cardinality(P)
    BY SMT, <1>3, <1>6
  <2> QED
    BY SMTT(30), <1>0, <1>3, <1>4, <2>1, <2>2
<1>7. CASE e \notin P' \ P /\ OnEntryPassed(e)
  <2>1. e \notin P'
    <3>1. pc'[e] = "live"
      BY <1>0, <1>7, GotoFacts DEF OnEntryPassed, Recover, Answer, Places
    <3> QED
      BY <3>1 DEF PassedOn
  <2>2. conc'[n] = IF n \in Nodes(e) THEN conc[n] + 1 ELSE conc[n]
    BY <1>0, <1>7, RecordedAt DEF OnEntryPassed
  <2>3. n \in Nodes(e) => e \in P
    <3>1. n # InboundNode
      BY EntryAssumption
    <3>2. n \in Nodes(e) => My(e).node = n
      BY SMT, <3>1 DEF Nodes
    <3> QED
      BY <1>7, <3>2 DEF OnEntryPassed, PassedOn
  <2>4. \/ e \in P /\ Cardinality(P') = Cardinality(P) - 1
        \/ e \notin P /\ Cardinality(P') = Cardinality(P)
    BY <1>3, <2>1
  <2> QED
    BY SMTT(30), <1>0, <1>3, <1>4, <2>2, <2>3, <2>4
<1> QED
  BY <1>5, <1>6, <1>7

\* A rule that limits the concurrency admits an entry.
Admits(e) ==
    /\ pc[e] = "system" /\ pc'[e] = "check" /\ limited' = limited \cup {e}
    /\ UNCHANGED <<conc, panicked>>
    /\ \E rule \in setup.rules : \E report \in Readings :
          Limits(rule) /\ DoCheckRule(rule, conc[InboundNode], report)

LEMMA OnlyAdmits ==
    ASSUME EntryInv, NEW e \in Ent, StepOf(e)
    PROVE  UNCHANGED limited \/ Admits(e)
<1>0. TypeOK
  BY Facts
<1>1. CASE AdaptiveCheck(e) /\ limited' # limited
  <2>1. PICK report \in [setup.rules -> Readings] :
           /\ \A rule \in setup.rules : DoCheckRule(rule, conc[InboundNode], report[rule])
           /\ Goto(e, "check")
           /\ limited' = IF \E rule \in setup.rules : Limits(rule) THEN limited \cup {e} ELSE limited
    BY <1>1 DEF AdaptiveCheck
  <2>2. pc'[e] = "check"
    BY <1>0, <2>1, GotoFacts DEF Places, Entering
  <2>3. PICK rule \in setup.rules : Limits(rule)
    BY <1>1, <2>1
  <2>4. limited' = limited \cup {e}
    BY <2>1, <2>3
  <2>5. report[rule] \in Readings /\ DoCheckRule(rule, conc[InboundNode], report[rule])
    BY <2>1, <2>3
  <2> QED
    BY ZenonT(40), <1>1, <2>2, <2>3, <2>4, <2>5 DEF AdaptiveCheck, Admits
<1>2. CASE ~AdaptiveCheck(e)
  BY ZenonT(40), <1>2 DEF StepOf, EntryStep, Entry, Lookup, Create, PreparePanics, Check, CheckPanics,
     OnEntryPassed, OnEntryBlocked, Recover, ExitOf, ExitStep, Once, OnCompleted, Refurbish, Exit,
     ExitWithError, ExitCall, Traced, TraceError, history
<1> QED
  BY <1>1, <1>2

LEMMA LimitStep ==
    ASSUME EntryInv, DriftInv, OvershootInv, setup' = setup, NEW e \in Ent, StepOf(e),
           \A f \in Ent \ {e} : Unnoticed(f), limited' # {}
    PROVE  /\ setup.rules # {}
           /\ Cardinality(Admitted') <= SystemLimit + setup.parallel - 1 + Cardinality(panicked')
<1> DEFINE F == InFlight(InboundNode)
<1>0. TypeOK /\ Stage(e) /\ setup.parallel \in Nat
  BY SMTT(30), Facts, SetupFacts
<1>1. /\ \A f : f # e => (f \in F' <=> f \in F)
      /\ Ledger(e, InboundNode) /\ panicked \subseteq panicked'
  BY LedgerStep
<1>2. /\ IsFiniteSet(F) /\ Cardinality(F) \in Nat
      /\ IsFiniteSet(Inside') /\ Cardinality(Inside') \in Nat /\ Cardinality(Inside') <= setup.parallel
  BY <1>0, Finite, InsideBound
<1>3. /\ IsFiniteSet(panicked) /\ Cardinality(panicked) \in Nat
      /\ Cardinality(panicked') \in Nat /\ Cardinality(panicked) <= Cardinality(panicked')
  <2>1. panicked' \subseteq Ent
    BY ZenonT(40), <1>0 DEF StepOf, EntryStep, Entry, Lookup, Create, PreparePanics, AdaptiveCheck, Check,
       CheckPanics, OnEntryPassed, OnEntryBlocked, Recover, ExitOf, ExitStep, Once, OnCompleted,
       Refurbish, Exit, ExitWithError, ExitCall, Traced, TraceError, history, TypeOK
  <2>2. IsFiniteSet(panicked')
    BY <2>1, EntryAssumption, FS_Subset
  <2> QED
    BY ZenonT(40), <1>1, <2>2, FS_Subset, FS_CardinalityType
<1>4. CASE UNCHANGED limited
  <2>1. Admitted' \subseteq Admitted
    <3> SUFFICES ASSUME NEW f \in Admitted' PROVE f \in Admitted
      OBVIOUS
    <3>1. f \in limited /\ (f \in Inside' \/ f \in F')
      BY <1>4 DEF Admitted
    <3>2. CASE f # e
      BY ZenonT(40), <1>1, <3>1, <3>2, InsideStep DEF Admitted
    <3>3. CASE f = e
      <4>1. pc[e] # "new"
        BY <1>0, <3>1, <3>3 DEF Stage
      <4>2. f \in Inside' => f \in Inside
        BY ZenonT(40), <3>3, <4>1, InsideStep DEF Entry
      <4>3. f \in F' => f \in F \/ f \in Inside
        BY <1>1, <3>3 DEF Ledger, Inside
      <4> QED
        BY <3>1, <4>2, <4>3 DEF Admitted
    <3> QED
      BY <3>2, <3>3
  <2>2. IsFiniteSet(Admitted)
    <3>1. Admitted \subseteq Ent
      BY <1>0 DEF Admitted, TypeOK
    <3> QED
      BY <3>1, EntryAssumption, FS_Subset
  <2>3. /\ Cardinality(Admitted) \in Nat /\ Cardinality(Admitted') \in Nat
        /\ Cardinality(Admitted') <= Cardinality(Admitted)
    BY ZenonT(40), <2>1, <2>2, FS_Subset, FS_CardinalityType
  <2>4. /\ setup.rules # {}
        /\ Cardinality(Admitted) <= SystemLimit + setup.parallel - 1 + Cardinality(panicked)
    BY <1>4 DEF OvershootInv
  <2>5. SystemLimit \in Int
    BY <1>0, <2>4, LimitIsMax
  <2> QED
    BY SMTT(30), <1>0, <1>3, <2>3, <2>4, <2>5
<1>5. CASE Admits(e)
  <2>1. F' = F
    <3>1. e \notin F /\ e \notin F'
      BY <1>5, InFlightIs DEF Admits, Flies
    <3> QED
      BY SMT, <1>1, <3>1
  <2>2. Cardinality(Admitted') <= Cardinality(Inside') + Cardinality(F) /\ Cardinality(Admitted') \in Nat
    <3>1. Admitted' \subseteq Inside' \cup F
      BY <2>1 DEF Admitted
    <3>2. /\ IsFiniteSet(Inside' \cup F) /\ IsFiniteSet(Inside' \cap F)
          /\ Cardinality(Inside' \cup F) = Cardinality(Inside') + Cardinality(F) - Cardinality(Inside' \cap F)
      BY <1>2, FS_Union, FS_Intersection
    <3>3. Cardinality(Inside' \cap F) \in Nat /\ Cardinality(Inside' \cup F) \in Nat
      BY <3>2, FS_CardinalityType
    <3>4. /\ Cardinality(Admitted') <= Cardinality(Inside' \cup F)
          /\ Cardinality(Admitted') \in Nat
      BY ZenonT(40), <3>1, <3>2, FS_Subset, FS_CardinalityType
    <3> QED
      BY SMTT(30), <1>2, <3>2, <3>3, <3>4
  <2>3. PICK rule \in setup.rules : \E report \in Readings :
           Limits(rule) /\ DoCheckRule(rule, conc[InboundNode], report)
    BY <1>5 DEF Admits
  <2>4. conc[InboundNode] \in Int /\ Cardinality(F) <= conc[InboundNode] + Cardinality(panicked)
    BY SMTT(30), <1>2, <1>3, DriftBound
  <2>5. conc[InboundNode] + 1 <= Limit(rule, Max(Readings))
    BY ZenonT(40), <1>0, <2>3, <2>4, RuleLimits, RuleTypes
  <2>6. SystemLimit \in Int /\ Limit(rule, Max(Readings)) <= SystemLimit
    BY <1>0, LimitIsMax
  <2>7. conc[InboundNode] + 1 <= SystemLimit
    <3>1. Limit(rule, Max(Readings)) \in Int
      <4>1. Max(Readings) \in Int
        <5>1. Readings \in SUBSET Int
          BY SMT, ReadingsAssumption
        <5> QED
          BY <5>1, HasMax, ReadingsAssumption
      <4>2. rule.trigger \in Int
        BY SMTT(30), <1>0, RuleTypes
      <4> QED
        BY SMT, <4>1, <4>2 DEF Limit
    <3> QED
      BY SMTT(30), <2>4, <2>5, <2>6, <3>1
  <2>8. setup.rules # {} /\ panicked' = panicked
    BY <1>5, <2>3 DEF Admits
  <2> QED
    BY SMTT(30), <1>0, <1>2, <1>3, <2>2, <2>4, <2>6, <2>7, <2>8
<1> QED
  BY <1>4, <1>5, OnlyAdmits

LEMMA OvershootInit == AdaptersInit => OvershootInv
<1> SUFFICES ASSUME AdaptersInit PROVE OvershootInv
  BY SMT
<1>1. setup.threshold \in Nat \ {0} /\ setup.parallel \in Nat \ {0}
  BY TypeInit, SetupFacts
<1>2. Cardinality(Inside) = 0
  <2>1. Inside = {}
    BY DEF AdaptersInit, Init, Inside, Entering
  <2> QED
    BY <2>1, FS_EmptySet
<1>3. ASSUME NEW n \in Ent
      PROVE  conc[n] + Cardinality(PassedOn(n)) <= setup.threshold + setup.parallel - 1
  <2>1. PassedOn(n) = {} /\ conc[n] = 0
    BY DEF AdaptersInit, Init, PassedOn
  <2> QED
    BY SMTT(30), <1>1, <2>1, FS_EmptySet
<1>4. limited = {} /\ Cardinality(Inside) <= setup.parallel
  BY SMTT(30), <1>1, <1>2 DEF AdaptersInit, Init
<1> QED
  BY <1>3, <1>4 DEF OvershootInv

LEMMA OvershootNext ==
    EntryInv /\ DriftInv /\ OvershootInv /\ [AdaptersNext]_adapterVars => OvershootInv'
<1> SUFFICES ASSUME EntryInv, DriftInv, OvershootInv, [AdaptersNext]_adapterVars
    PROVE  OvershootInv'
  BY SMT
<1>1. CASE UNCHANGED <<setup, core>>
  <2>1. Inside' = Inside /\ InFlight(InboundNode)' = InFlight(InboundNode) /\ SystemLimit' = SystemLimit
    BY <1>1 DEF Inside, InFlight, SystemLimit, Bound, Nodes, My, core, entries, exits
  <2>2. Admitted' = Admitted /\ \A n : PassedOn(n)' = PassedOn(n)
    BY <1>1, <2>1 DEF Admitted, PassedOn, My, core, entries, history
  <2> QED
    BY <1>1, <2>1, <2>2 DEF OvershootInv, core, history
<1>2. ASSUME setup' = setup, NEW e \in Ent, StepOf(e), Worked(e)',
             \A f \in Ent \ {e} : work'[f] = work[f], work' \in [Ent -> Results]
      PROVE  OvershootInv'
  <2>1. \A f \in Ent \ {e} : Unnoticed(f)
    BY <1>2, EntryStepOf
  <2>2. Cardinality(Inside') <= setup.parallel
    BY ZenonT(40), <1>2, <2>1, InsideBound
  <2>3. \A n \in Ent : conc'[n] + Cardinality(PassedOn(n)') <= setup.threshold + setup.parallel - 1
    BY <1>2, <2>1, ThresholdStep
  <2>4. limited' # {} =>
           /\ setup.rules # {}
           /\ Cardinality(Admitted') <= SystemLimit + setup.parallel - 1 + Cardinality(panicked')
    BY <1>2, <2>1, LimitStep
  <2>5. SystemLimit' = SystemLimit
    BY <1>2 DEF SystemLimit
  <2> QED
    BY ZenonT(40), <1>2, <2>2, <2>3, <2>4, <2>5 DEF OvershootInv
<1> QED
  BY ZenonT(40), <1>1, <1>2, Steps

\* Checks that run at the same time exceed the threshold of an isolation rule, and
\* the limit of a system rule, by one less than there are goroutines inside
\* api.Entry, and the latter by one more for each panic.
THEOREM OvershootIsBounded == AdaptersSpec => []AdmissionOvershoot
<1>1. EntryInv /\ OvershootInv => AdmissionOvershoot
  <2> SUFFICES ASSUME EntryInv, OvershootInv PROVE AdmissionOvershoot
    BY SMT
  <2>0. TypeOK /\ setup.threshold \in Nat /\ setup.parallel \in Nat
    BY SMT, SetupFacts DEF EntryInv
  <2>1. ASSUME NEW n \in Ent PROVE conc[n] <= setup.threshold + setup.parallel - 1
    <3>1. Cardinality(PassedOn(n)) \in Nat
      <4>1. PassedOn(n) \subseteq Ent
        BY DEF PassedOn
      <4> QED
        BY ZenonT(40), <4>1, EntryAssumption, FS_Subset, FS_CardinalityType
    <3>2. conc[n] \in Int /\ conc[n] + Cardinality(PassedOn(n)) <= setup.threshold + setup.parallel - 1
      BY <2>0, RecordedAt DEF OvershootInv
    <3> QED
      BY SMTT(30), <2>0, <3>1, <3>2
  <2>2. ASSUME limited # {}
        PROVE  Cardinality(limited \cap InFlight(InboundNode)) <=
                  SystemLimit + setup.parallel - 1 + Cardinality(panicked)
    <3>1. IsFiniteSet(Admitted) /\ limited \cap InFlight(InboundNode) \subseteq Admitted
      <4>1. Admitted \subseteq Ent
        BY <2>0 DEF Admitted, TypeOK
      <4>2. limited \cap InFlight(InboundNode) \subseteq Admitted
        BY DEF Admitted
      <4> QED
        BY ZenonT(40), <4>1, <4>2, EntryAssumption, FS_Subset
    <3>2. /\ Cardinality(limited \cap InFlight(InboundNode)) \in Nat /\ Cardinality(Admitted) \in Nat
          /\ Cardinality(limited \cap InFlight(InboundNode)) <= Cardinality(Admitted)
      BY ZenonT(40), <3>1, FS_Subset, FS_CardinalityType
    <3>3. /\ setup.rules # {}
          /\ Cardinality(Admitted) <= SystemLimit + setup.parallel - 1 + Cardinality(panicked)
      BY <2>2 DEF OvershootInv
    <3>4. SystemLimit \in Int /\ Cardinality(panicked) \in Nat
      BY ZenonT(40), <2>0, <3>3, LimitIsMax, Finite
    <3> QED
      BY SMTT(30), <2>0, <3>2, <3>3, <3>4
  <2> QED
    BY <2>1, <2>2 DEF AdmissionOvershoot, SystemLimit
<1> QED
  BY <1>1, EntryInit, EntryNext, DriftInit, DriftNext, OvershootInit, OvershootNext, PTL DEF AdaptersSpec
=============================================================================
