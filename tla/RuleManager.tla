---------------------------- MODULE RuleManager ----------------------------
(* The rule managers of flow control, isolation, hotspot parameters, circuit  *)
(* breaking, system protection and the token rate limiter                     *)
(* (core/<package>/rule_manager.go).  They share a shape:                     *)
(* LoadRules replaces all rules, LoadRulesOfResource those of one resource,   *)
(* both under updateRuleMux, and requests look up what is in force.  Three    *)
(* of them bind a rule to a controller with a statistic and keep controllers  *)
(* and statistics across a reload.  Flow control and isolation also have      *)
(* regular expressions, matched against a resource when it is first seen and  *)
(* cached until the next load; the token rate limiter matches every time.     *)
(* The resource of a system rule is its metric type.                          *)
(*                                                                           *)
(* A load computes outside the lock of the maps, but only the holder of       *)
(* updateRuleMux writes them, so it takes effect at the swap: one step.  A    *)
(* lookup has two: the part under the read lock, and for a resource not yet   *)
(* cached the part under the write lock.                                     *)
EXTENDS Naturals, Sequences, FiniteSets, SequencesExt, TokenRules

CONSTANTS
    Kinds,      \* the managers to check; one is chosen in Init
    Resource,   \* resource names, which are also the patterns of regex rules
    Match,      \* the pairs <<pattern, resource>> that match
    Rules,      \* for each kind, the rules an application may load
    Readers,    \* goroutines that look rules up
    Asked,      \* the resources they ask for
    MaxLoads, MaxLen

\* A rule: its resource, the key its statistic depends on ("none": it needs
\* none), the limit and all else that isEqualsTo compares, the Regex flag,
\* whether IsValidRule accepts it and a generator exists, and whether the map
\* SpecificItems of a hotspot rule is nil.
Rule == [resource : Resource, stat : {"s", "t", "none"}, limit : Nat, regex : BOOLEAN,
         form : {"ok", "invalid", "unsupported", "nil"}, items : {"nil", "empty"}]

ASSUME RuleAssumption ==
    /\ Kinds \subseteq {"flow", "isolation", "hotspot", "breaker", "system", "token"}
    /\ Match \subseteq Resource \X Resource
    /\ Malformed \subseteq Resource
    /\ \A k \in Kinds \ {"token"} : Rules[k] \subseteq Rule
    /\ \A k \in Kinds : k \in {"hotspot", "breaker", "system"} => \A r \in Rules[k] : ~r.regex
    /\ DefaultPattern \in Resource /\ Asked \subseteq Resource

VARIABLES
    kind,          \* the manager
    current,       \* currentRules: what was loaded last, by resource
    plain,         \* tcMap, breakers, ruleMap
    regex,         \* tcRegexMap, regexRuleMap
    breakerRules,  \* breakerRules of the circuit breakers
    cache,         \* tcRegexCacheMap, regexCacheRuleMap: at most one set each
    holder,        \* who left the lock of the maps locked in a panic
    reader,        \* the lookups
    stamp,         \* how often controllers were made, for their identity
    loads,         \* how many loads took place
    handed,        \* the sets of regex controllers given to requests since
    overwritten    \* resources whose cache entry a query replaced

vars == <<kind, current, plain, regex, breakerRules, cache, holder, reader, stamp,
          loads, handed, overwritten>>

Empty == [res \in Resource |-> <<>>]
Uncached == [res \in Resource |-> {}]
Cached(res) == CHOOSE cs \in cache[res] : TRUE
Idle == [pc |-> "idle", res |-> CHOOSE res \in Resource : TRUE, request |-> TRUE,
         got |-> {}, may |-> {}, must |-> {}]

Controller(r, id, stat) == [rule |-> r, id |-> id, stat |-> stat]
RulesIn(cs) == {c.rule : c \in cs}

\* What holds for a request to res.  A rule counts whatever its Regex flag
\* says: the map it is in decides.
Plainly(r) == [r EXCEPT !.regex = FALSE]
Enforced(p, x, res) ==
    LET patterns == {pat \in Resource \ Malformed : <<pat, res>> \in Match}
    IN  RulesIn(Range(p[res])) \cup UNION {RulesIn(Range(x[pat])) : pat \in patterns}

\* The same with the map each rule is found in.
By(where, rules) == {<<where, r>> : r \in rules}
Found(p, x, res) ==
    By("name", Enforced(p, Empty, res)) \cup By("pattern", Enforced(Empty, x, res))

----------------------------------------------------------------------------
(* Validation                                                               *)

FlowIsValidRule(r) == r.form \in {"ok", "unsupported"}
HotspotIsValidRule(r) == r.form \in {"ok", "unsupported"}
BreakerIsValidRule(r) == r.form \in {"ok", "unsupported"}
IsolationIsValidRule(r) == r.form = "ok"
IsValidSystemRule(r) == r.form = "ok"

----------------------------------------------------------------------------
(* Reuse: controllers of rules that stay, statistics of rules that change    *)

FlowIsEqualsTo(old, r) == Plainly(old) = Plainly(r)
FlowIsStatReusable(old, r) ==
    /\ old.resource = r.resource
    /\ old.stat = r.stat
    /\ r.stat # "none"
HotspotEquals(old, r) == old = r
HotspotIsStatReusable(old, r) == old.resource = r.resource /\ old.stat = r.stat
BreakerIsEqualsTo(old, r) == old = r
BreakerIsStatReusable(old, r) == old.resource = r.resource /\ old.stat = r.stat

\* The first equal controller, else the first whose statistic fits.
ReuseIndexFor(r, old, Equal(_, _), Reusable(_, _)) ==
    LET equalIdx == SelectInSeq(old, LAMBDA c : Equal(c.rule, r))
    IN  [equal |-> equalIdx,
         reuse |-> IF equalIdx > 0 THEN 0
                   ELSE SelectInSeq(old, LAMBDA c : Reusable(c.rule, r))]

FlowReuse(r, old) == ReuseIndexFor(r, old, FlowIsEqualsTo, FlowIsStatReusable)
HotspotReuse(r, old) == ReuseIndexFor(r, old, HotspotEquals, HotspotIsStatReusable)

BreakerReuseMutant(r, old) ==
    [equal |-> 0, reuse |-> SelectInSeq(old, LAMBDA c : BreakerIsStatReusable(c.rule, r))]

BreakerReuse(r, old) == ReuseIndexFor(r, old, BreakerIsEqualsTo, BreakerIsStatReusable)

----------------------------------------------------------------------------
(* Building controllers; reuse is the statistic to take over, or none        *)

NoStat == <<>>
StatOr(reuse, id) == IF reuse = NoStat THEN id ELSE reuse

FlowGenerate(r, id, reuse) ==
    Controller(r, id, IF r.stat = "none" THEN NoStat ELSE StatOr(reuse, id))
HotspotGenerate(r, id, reuse) ==
    Controller([r EXCEPT !.items = "empty"], id, StatOr(reuse, id))
BreakerGenerate(r, id, reuse) == Controller(r, id, StatOr(reuse, id))

\* One rule of the list; made is the controller to add for a rule without an
\* equal one.  An equal controller goes to the plain ones whatever the Regex
\* flag of its rule.
BuildOne(res, acc, r, idx, made) ==
    IF r.resource # res THEN acc
    ELSE IF idx.equal > 0
    THEN [acc EXCEPT !.old = RemoveAt(@, idx.equal), !.plain = Append(@, acc.old[idx.equal])]
    ELSE IF r.form = "unsupported" THEN acc
    ELSE LET rest == IF idx.reuse > 0 THEN RemoveAt(acc.old, idx.reuse) ELSE acc.old
         IN  IF r.regex THEN [acc EXCEPT !.old = rest, !.regex = Append(@, made)]
             ELSE [acc EXCEPT !.old = rest, !.plain = Append(@, made)]

Build(res, rules, old, Reuse(_, _), Generate(_, _, _)) ==
    LET Add(acc, r) ==
            LET idx == Reuse(r, acc.old)
                reuse == IF idx.reuse > 0 THEN acc.old[idx.reuse].stat ELSE NoStat
                id == <<stamp, res, Len(acc.plain) + Len(acc.regex)>>
            IN  BuildOne(res, acc, r, idx, Generate(r, id, reuse))
    IN  FoldLeft(Add, [old |-> old, plain |-> <<>>, regex |-> <<>>], rules)

FlowBuild(res, rules, old) == Build(res, rules, old, FlowReuse, FlowGenerate)
HotspotBuild(res, rules, old) == Build(res, rules, old, HotspotReuse, HotspotGenerate)
BreakerBuild(res, rules, old) == Build(res, rules, old, BreakerReuse, BreakerGenerate)

----------------------------------------------------------------------------
(* Updates: what a load makes of the maps                                    *)

Maps(cur, p, x, b) == [current |-> cur, plain |-> p, regex |-> x, breakerRules |-> b]
Unchanged == Maps(current, plain, regex, breakerRules)
WithRes(res, raw, p, x, b) ==
    Maps([current EXCEPT ![res] = raw], [plain EXCEPT ![res] = p],
         [regex EXCEPT ![res] = x], [breakerRules EXCEPT ![res] = b])
Cleared(res) == WithRes(res, <<>>, <<>>, <<>>, <<>>)

\* The clone of the old controllers holds the regex ones where there are any.
FlowOnRuleUpdate(raw) ==
    LET clone == [res \in Resource |-> IF regex[res] # <<>> THEN regex[res] ELSE plain[res]]
        built == [res \in Resource |->
                    FlowBuild(res, SelectSeq(raw[res], FlowIsValidRule), clone[res])]
    IN  Maps(raw, [res \in Resource |-> built[res].plain],
             [res \in Resource |-> built[res].regex], breakerRules)

FlowOnResourceRuleUpdate(res, raw) ==
    LET built == FlowBuild(res, SelectSeq(raw, FlowIsValidRule), plain[res] \o regex[res])
    IN  WithRes(res, raw, built.plain, built.regex, <<>>)

\* An isolation rule has no controller: it stands for itself.
Itself(r) == Controller(r, <<>>, NoStat)
Split(rules, rx) ==
    LET chosen == SelectSeq(rules, LAMBDA r : IsolationIsValidRule(r) /\ r.regex = rx)
    IN  [i \in 1..Len(chosen) |-> Itself(chosen[i])]

IsolationOnRuleUpdate(raw) ==
    Maps(raw, [res \in Resource |-> Split(raw[res], FALSE)],
         [res \in Resource |-> Split(raw[res], TRUE)], breakerRules)

IsolationOnResourceRuleUpdateMutant(res, raw) ==
    LET some == Split(raw, TRUE) # <<>>
    IN  WithRes(res, raw, IF some THEN Split(raw, FALSE) ELSE <<>>, Split(raw, TRUE), <<>>)

\* Without a plain rule the regex rules are dropped as well.
IsolationOnResourceRuleUpdate(res, raw) ==
    LET some == Split(raw, FALSE) # <<>>
    IN  WithRes(res, raw, Split(raw, FALSE), IF some THEN Split(raw, TRUE) ELSE <<>>, <<>>)

\* Making a controller gives the loaded rule an empty map for a nil one.
HotspotMade(res, rules) ==
    [i \in 1..Len(rules) |->
        IF rules[i].form = "ok" /\ rules[i].resource = res
        THEN [rules[i] EXCEPT !.items = "empty"] ELSE rules[i]]

HotspotOnRuleUpdate(raw) ==
    Maps([res \in Resource |-> HotspotMade(res, raw[res])],
         [res \in Resource |->
            HotspotBuild(res, SelectSeq(raw[res], HotspotIsValidRule), plain[res]).plain],
         regex, breakerRules)

HotspotOnResourceRuleUpdate(res, raw) ==
    WithRes(res, HotspotMade(res, raw),
            HotspotBuild(res, SelectSeq(raw, HotspotIsValidRule), plain[res]).plain, <<>>, <<>>)

BreakerOnRuleUpdate(raw) ==
    LET valid == [res \in Resource |-> SelectSeq(raw[res], BreakerIsValidRule)]
    IN  Maps(raw, [res \in Resource |-> BreakerBuild(res, valid[res], plain[res]).plain],
             regex, valid)

\* The breakers are built from the raw rules: invalid ones get a breaker, and a
\* nil one panics, which is recovered and leaves everything as it was.
BreakerOnResourceRuleUpdate(res, raw) ==
    LET built == BreakerBuild(res, raw, plain[res]).plain
        valid == SelectSeq(raw, BreakerIsValidRule)
    IN  IF \E i \in 1..Len(raw) : raw[i].form = "nil" THEN Unchanged
        ELSE WithRes(res, raw, built, <<>>, IF built = <<>> THEN <<>> ELSE valid)

BuildRuleMap(raw) ==
    LET Of(rules) == [i \in DOMAIN rules |-> Itself(rules[i])]
    IN  Maps(raw, [res \in Resource |-> Of(SelectSeq(raw[res], IsValidSystemRule))], regex, breakerRules)

\* The rules of the token limiter have been filtered.  Their resource is a pattern, and
\* a list for one resource is in force for that one, whatever its rules name.
TokenOnRuleUpdate(raw) ==
    Maps(raw, plain, [res \in Resource |-> [i \in DOMAIN raw[res] |-> Itself(raw[res][i])]], breakerRules)

TokenOnResourceRuleUpdate(res, raw) ==
    WithRes(res, raw, <<>>, [i \in DOMAIN raw |-> Itself(raw[i])], <<>>)

----------------------------------------------------------------------------
(* Loading                                                                   *)

\* Lookups in progress may see what now holds; answers given are forgotten.
Observe(p, x) ==
    [q \in Readers |->
        IF reader[q].pc # "miss" THEN Idle
        ELSE [reader[q] EXCEPT !.may = @ \cup Found(p, x, reader[q].res),
                               !.must = @ \cap Found(p, x, reader[q].res)]]

InstallMutant(new) ==
    /\ current' = new.current
    /\ plain' = new.plain
    /\ regex' = new.regex
    /\ breakerRules' = new.breakerRules
    /\ UNCHANGED cache
    /\ reader' = Observe(new.plain, new.regex)
    /\ handed' = [res \in Resource |-> {}]
    /\ overwritten' = {}
    /\ stamp' = stamp + 1
    /\ UNCHANGED <<kind, holder>>

Install(new) ==
    /\ current' = new.current
    /\ plain' = new.plain
    /\ regex' = new.regex
    /\ breakerRules' = new.breakerRules
    /\ cache' = Uncached
    /\ reader' = Observe(new.plain, new.regex)
    /\ handed' = [res \in Resource |-> {}]
    /\ overwritten' = {}
    /\ stamp' = stamp + 1
    /\ UNCHANGED <<kind, holder>>

ByResource(rules) ==
    [res \in Resource |-> SelectSeq(rules, LAMBDA r : r.resource = res)]

\* A list equal to the current rules is ignored.  One with a nil rule panics in
\* the caller before it takes the lock.
LoadRules(k, rules, OnRuleUpdate(_)) ==
    /\ kind = k
    /\ holder = "nobody"
    /\ ByResource(rules) # current
    /\ \A i \in 1..Len(rules) : rules[i].form # "nil"
    /\ loads' = loads + 1
    /\ Install(OnRuleUpdate(ByResource(rules)))

LoadRulesOfResource(k, res, rules, OnResourceRuleUpdate(_, _)) ==
    /\ kind = k
    /\ holder = "nobody"
    /\ rules = <<>> \/ rules # current[res]
    /\ loads' = loads + 1
    /\ Install(IF rules = <<>> THEN Cleared(res) ELSE OnResourceRuleUpdate(res, rules))

\* A nil rule is not valid, and no panic.
SystemLoadRules(rules) ==
    /\ kind = "system"
    /\ ByResource(rules) # current
    /\ loads' = loads + 1
    /\ Install(BuildRuleMap(ByResource(rules)))

TokenLoadRules(rules) ==
    LET filtered == ByResource(SetToSeq(FilterRules(rules)))
    IN  /\ kind = "token"
        /\ filtered # current
        /\ loads' = loads + 1
        /\ Install(TokenOnRuleUpdate(filtered))

\* The filter leaves the rules in the order of a map.
TokenLoadRulesOfResource(res, rules) ==
    kind = "token" /\ \E filtered \in SetToSeqs(FilterRules(rules)) :
        LoadRulesOfResource("token", res, filtered, TokenOnResourceRuleUpdate)

FlowLoadRules(rules) == LoadRules("flow", rules, FlowOnRuleUpdate)
FlowLoadRulesOfResource(res, rules) ==
    LoadRulesOfResource("flow", res, rules, FlowOnResourceRuleUpdate)
IsolationLoadRules(rules) == LoadRules("isolation", rules, IsolationOnRuleUpdate)
IsolationLoadRulesOfResource(res, rules) ==
    LoadRulesOfResource("isolation", res, rules, IsolationOnResourceRuleUpdate)
HotspotLoadRules(rules) == LoadRules("hotspot", rules, HotspotOnRuleUpdate)
HotspotLoadRulesOfResource(res, rules) ==
    LoadRulesOfResource("hotspot", res, rules, HotspotOnResourceRuleUpdate)
BreakerLoadRules(rules) == LoadRules("breaker", rules, BreakerOnRuleUpdate)
BreakerLoadRulesOfResource(res, rules) ==
    LoadRulesOfResource("breaker", res, rules, BreakerOnResourceRuleUpdate)

----------------------------------------------------------------------------
(* Looking up                                                                *)

\* The answer of reader q, and nothing kept of the answers of others.
Answer(q, res, request, got) ==
    [p \in Readers |->
        IF p # q THEN IF reader[p].pc = "miss" THEN reader[p] ELSE Idle
        ELSE LET fresh == Found(plain, regex, res)
                 waited == reader[q].pc = "miss"
             IN  [pc |-> "done", res |-> res, request |-> request, got |-> got,
                  may |-> IF waited THEN reader[q].may ELSE fresh,
                  must |-> IF waited THEN reader[q].must ELSE fresh]]

Named(res) == By("name", RulesIn(Range(plain[res])))
Matched(cs) == By("pattern", RulesIn(cs))

\* The regex controllers a request works with, for OneSetOfControllers.
Hand(res, request, cs) ==
    handed' = IF kind = "flow" /\ request THEN [handed EXCEPT ![res] = @ \cup {cs}] ELSE handed

\* getTrafficControllerListFor, getRulesOfResource: under the read lock.
Lookup(q, res, request) ==
    /\ kind \in {"flow", "isolation"}
    /\ reader[q].pc # "miss"
    /\ holder = "nobody"
    /\ \/ /\ cache[res] # {}
          /\ reader' = Answer(q, res, request, Named(res) \cup Matched(Cached(res)))
          /\ Hand(res, request, Cached(res))
       \/ /\ cache[res] = {}
          /\ reader' = [Answer(q, res, request, Named(res)) EXCEPT ![q].pc = "miss"]
          /\ UNCHANGED handed
    /\ UNCHANGED <<kind, current, plain, regex, breakerRules, cache, holder, stamp, loads, overwritten>>

\* Copies of the matching regex controllers, each with a statistic of its own.
RegexTcMatches(res) ==
    UNION {{FlowGenerate(regex[pat][i].rule, <<stamp, res, pat, i>>, NoStat) : i \in DOMAIN regex[pat]} :
           pat \in {p \in Resource : <<p, res>> \in Match}}

RegexRuleMatches(res) ==
    UNION {Range(regex[pat]) : pat \in {p \in Resource : <<p, res>> \in Match}}

\* Every pattern is compiled for every lookup; MustCompile panics.
Panics == \E pat \in Malformed : regex[pat] # <<>>

Fill(q, cs) ==
    LET r == reader[q]
    IN  /\ cache' = [cache EXCEPT ![r.res] = {cs}]
        /\ overwritten' = IF cache[r.res] = {} \/ r.request THEN overwritten
                           ELSE overwritten \cup {r.res}
        /\ reader' = Answer(q, r.res, r.request, r.got \cup Matched(cs))
        /\ Hand(r.res, r.request, cs)
        /\ UNCHANGED <<kind, current, plain, regex, breakerRules, holder, loads>>

\* The second look, under the write lock.
FromCache(q) ==
    LET r == reader[q]
    IN  /\ cache[r.res] # {}
        /\ reader' = Answer(q, r.res, r.request, r.got \cup Matched(Cached(r.res)))
        /\ Hand(r.res, r.request, Cached(r.res))
        /\ UNCHANGED <<kind, current, plain, regex, breakerRules, cache, holder, stamp, loads, overwritten>>

\* The caller recovers; left says who leaves the lock locked.
Panic(q, left) ==
    /\ Panics
    /\ holder' = left
    /\ reader' = [reader EXCEPT ![q] = Idle]
    /\ UNCHANGED <<kind, current, plain, regex, breakerRules, cache, stamp, loads,
                   handed, overwritten>>

Waits(q, k, request) ==
    /\ kind = k
    /\ reader[q].pc = "miss"
    /\ reader[q].request = request
    /\ holder = "nobody"

GetTrafficControllerListForMutant(q) ==
    /\ Waits(q, "flow", TRUE)
    /\ \/ Panic(q, "request")
       \/ /\ ~Panics
          /\ stamp' = stamp + 1
          /\ Fill(q, RegexTcMatches(reader[q].res))

GetTrafficControllerListFor(q) ==
    /\ Waits(q, "flow", TRUE)
    /\ \/ FromCache(q)
       \/ cache[reader[q].res] = {} /\ Panic(q, "nobody")
       \/ /\ cache[reader[q].res] = {}
          /\ ~Panics
          /\ stamp' = stamp + 1
          /\ Fill(q, RegexTcMatches(reader[q].res))

\* The query API does not look again, and unlocks only when nothing panics.
FlowGetRulesOfResource(q) ==
    /\ Waits(q, "flow", FALSE)
    /\ \/ Panic(q, "query")
       \/ /\ ~Panics
          /\ stamp' = stamp + 1
          /\ Fill(q, RegexTcMatches(reader[q].res))

IsolationGetRulesOfResource(q) ==
    /\ \E request \in BOOLEAN : Waits(q, "isolation", request)
    /\ \/ FromCache(q)
       \/ /\ cache[reader[q].res] = {}
          /\ Panic(q, IF reader[q].request THEN "request" ELSE "query")
       \/ /\ cache[reader[q].res] = {}
          /\ ~Panics
          /\ UNCHANGED stamp
          /\ Fill(q, RegexRuleMatches(reader[q].res))

\* One step for the managers without patterns.
Snapshot(q, res, request, found) ==
    /\ reader' = Answer(q, res, request, found)
    /\ UNCHANGED <<kind, current, plain, regex, breakerRules, cache, holder, stamp, loads, handed, overwritten>>

GetTrafficControllersFor(q, res) ==
    kind = "hotspot" /\ Snapshot(q, res, TRUE, Named(res))
GetBreakersOfResource(q, res) ==
    kind = "breaker" /\ Snapshot(q, res, TRUE, Named(res))
BreakerGetRulesOfResource(q, res) ==
    kind = "breaker" /\ Snapshot(q, res, FALSE, By("name", Range(breakerRules[res])))
SystemGetRules(q, res) ==
    kind = "system" /\ Snapshot(q, res, TRUE, Named(res))
TokenGetRulesOfResource(q, res) ==
    /\ kind = "token"
    /\ LET patterns == {pat \in Resource \ Malformed : <<pat, res>> \in Match}
       IN  Snapshot(q, res, TRUE, Matched(UNION {Range(regex[pat]) : pat \in patterns}))

----------------------------------------------------------------------------
Lists == UNION {[1..n -> Rules[kind]] : n \in 0..MaxLen}

\* A rule of another resource in a list for one is ignored, or not, on its own.
ListsOf(res) == {rules \in Lists : Len(rules) = 1 \/ \A i \in 1..Len(rules) : rules[i].resource = res}

Init ==
    /\ kind \in Kinds
    /\ current = Empty /\ plain = Empty /\ regex = Empty /\ breakerRules = Empty
    /\ cache = Uncached
    /\ holder = "nobody"
    /\ reader = [q \in Readers |-> Idle]
    /\ stamp = 0 /\ loads = 0
    /\ handed = [res \in Resource |-> {}]
    /\ overwritten = {}

Load(rules) ==
    \/ FlowLoadRules(rules) \/ IsolationLoadRules(rules)
    \/ HotspotLoadRules(rules) \/ BreakerLoadRules(rules)
    \/ SystemLoadRules(rules) \/ TokenLoadRules(rules)

LoadOfResource(res, rules) ==
    \/ FlowLoadRulesOfResource(res, rules) \/ IsolationLoadRulesOfResource(res, rules)
    \/ HotspotLoadRulesOfResource(res, rules) \/ BreakerLoadRulesOfResource(res, rules)
    \/ TokenLoadRulesOfResource(res, rules)

Next ==
    \/ /\ loads < MaxLoads
       /\ \/ \E rules \in Lists : Load(rules)
          \/ \E res \in Resource : \E rules \in ListsOf(res) : LoadOfResource(res, rules)
    \/ \E q \in Readers :
         \/ GetTrafficControllerListFor(q) \/ FlowGetRulesOfResource(q)
         \/ IsolationGetRulesOfResource(q)
         \/ \E res \in Asked :
              \/ \E request \in BOOLEAN : Lookup(q, res, request)
              \/ GetTrafficControllersFor(q, res) \/ GetBreakersOfResource(q, res)
              \/ BreakerGetRulesOfResource(q, res)
              \/ SystemGetRules(q, res) \/ TokenGetRulesOfResource(q, res)

Spec == Init /\ [][Next]_vars

----------------------------------------------------------------------------
(* Properties                                                                *)

Usable(r, res) == r.form = "ok" /\ r.resource = res

\* LoadRules and LoadRulesOfResource of every manager: each valid plain rule of
\* the last load is in force for its resource, however the controllers before
\* it were reused, and so is each rule of the token limiter; and nothing is in
\* force that is not among the rules loaded last, so no limit outlives its rule.
LoadedIsEnforced ==
    \A res \in Resource :
        LET inForce == Range(plain[res]) \cup Range(regex[res]) IN
        /\ \A r \in Range(current[res]) :
              IF kind = "token" THEN r \in RulesIn(Range(regex[res]))
              ELSE Usable(r, res) /\ ~r.regex =>
                       \E e \in Enforced(plain, Empty, res) : FlowIsEqualsTo(e, r)
        /\ \A c \in inForce : \E r \in Range(current[res]) : FlowIsEqualsTo(c.rule, r)

Places(r) == {p \in (1..MaxLen) \X (1..MaxLen) :
                 p[1] \in DOMAIN r.specificItems /\ p[2] \in DOMAIN r.specificItems[p[1]].keyItems}
LimitAt(r, p) ==
    LET s == r.specificItems[p[1]] IN [for |-> Identity(s, s.keyItems[p[2]]), number |-> s.keyItems[p[2]].number]
Later(p, o) == p[1] > o[1] \/ (p[1] = o[1] /\ p[2] > o[2])

\* FilterRules and filterDuplicatedItem: whatever list is loaded, a resource pattern
\* has the limits of its last valid rule, each exactly once, and where the rule has
\* several limits for the same requests and time it is the last one that counts.
\* (The lists do not depend on the state: the first one suffices.)
LatestLimitCounts ==
    kind = "token" /\ loads = 0 => \A rules \in Lists :
        LET last == LastValid(rules)
            filtered == FilterRules(rules)
        IN  /\ {r.resource : r \in filtered} = {r.resource : r \in last}
            /\ \A r \in last : \E f \in filtered :
                 /\ f.resource = r.resource
                 /\ \A p, o \in Places(f) : LimitAt(f, p).for = LimitAt(f, o).for => p = o
                 /\ {LimitAt(f, p) : p \in Places(f)} =
                    {LimitAt(r, p) : p \in {p \in Places(r) :
                        \A o \in Places(r) : Later(o, p) => LimitAt(r, o).for # LimitAt(r, p).for}}

BuildFor(res, rules) ==
    CASE kind = "flow" -> FlowBuild(res, rules, plain[res])
      [] kind = "hotspot" -> HotspotBuild(res, rules, plain[res])
      [] OTHER -> BreakerBuild(res, rules, plain[res])

\* buildResource...: a list that keeps some of the rules in force, in any order,
\* before the new ones, keeps their controllers and with them the state of an
\* open breaker or of a warmed-up rule.  (A new rule put before an old one may
\* take its statistic; names that are also patterns are left out.  Lookups do
\* not matter here, so states without one suffice.)
ReloadKeepsControllers ==
    kind \in {"flow", "hotspot", "breaker"} /\ (\A q \in Readers : reader[q] = Idle) =>
        \A res \in Resource : regex[res] = <<>> =>
            \A rules \in ListsOf(res) : \A n \in 0..Len(rules) :
                (\E f \in [1..n -> 1..Len(plain[res])] :
                    /\ \A i, j \in 1..n : f[i] = f[j] => i = j
                    /\ \A i \in 1..n : rules[i] = plain[res][f[i]].rule)
                => \A i \in 1..n : BuildFor(res, rules).plain[i] \in Range(plain[res])

\* getTrafficControllerListFor, getRulesOfResource: the two parts of a lookup
\* may see two loads, but the answer holds only rules in force at some moment of
\* the lookup, and all that were in force throughout by the same map.  (A rule
\* that moves from the patterns to the names during the lookup is missed.)
LookupIsRegular ==
    \A q \in Readers : reader[q].pc = "done" /\ reader[q].request =>
        /\ reader[q].got \subseteq reader[q].may
        /\ reader[q].must \subseteq reader[q].got

\* getRulesOfResource of flow control and isolation: only a pattern that does not
\* compile leaves the lock of the maps locked, and a request that meets one in flow
\* control never does, as it unlocks in a deferred call.
LockSurvives ==
    holder # "nobody" => Panics /\ kind \in {"flow", "isolation"} /\ (kind = "flow" => holder = "query")

\* getTrafficControllerListFor: between two loads all requests for a resource
\* share one set of regex controllers, else each would have a limit of its own;
\* unless GetRulesOfResource replaced the cache in between.
OneSetOfControllers ==
    \A res \in Resource : Cardinality(handed[res]) <= 1 \/ res \in overwritten

=============================================================================
