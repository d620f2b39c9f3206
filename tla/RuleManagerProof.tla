-------------------------- MODULE RuleManagerProof --------------------------
(***************************************************************************)
(* Proofs about RuleManager, for any rules, resources, patterns, number of *)
(* loads and number of goroutines: what a lookup answers while rules are   *)
(* loaded, that requests share the controllers of a pattern, and who can   *)
(* leave the lock of the maps locked.  What a load makes of the lists of   *)
(* rules does not matter for these, only which maps it replaces.           *)
(***************************************************************************)
EXTENDS RuleManager, FiniteSetTheorems, TLAPS

Patterned(res) == Enforced(Empty, regex, res)

\* Without the map of the names, or of the patterns, that map stays empty.
MapsInv ==
    /\ kind \in {"hotspot", "breaker", "system"} => regex = Empty
    /\ kind = "token" => plain = Empty

\* What is cached for a resource is one set of controllers, those of the rules with a
\* matching pattern.
CacheInv ==
    /\ cache = [res \in Resource |-> cache[res]]
    /\ \A res \in Resource : cache[res] # {} =>
          \E cs : cache[res] = {cs} /\ RulesIn(cs) = Patterned(res)

\* Requests have what is cached, unless a query replaced it.
HandedInv ==
    /\ handed = [res \in Resource |-> handed[res]]
    /\ \A res \in Resource : res \in overwritten \/ handed[res] \subseteq cache[res]

Fields == {"pc", "res", "request", "got", "may", "must"}

\* A lookup between its two parts has the names, and of what must and may be in the
\* answer the rest is still to come: the patterns of the maps as they are now.
Regular(p) ==
    /\ DOMAIN p = Fields /\ p.res \in Resource
    /\ p.pc = "miss" =>
          /\ kind \in {"flow", "isolation"}
          /\ p.got \subseteq p.may
          /\ Found(plain, regex, p.res) \subseteq p.may
          /\ p.must \subseteq Found(plain, regex, p.res)
          /\ \A r : <<"name", r>> \in p.must => <<"name", r>> \in p.got
    /\ p.pc = "done" /\ p.request => p.got \subseteq p.may /\ p.must \subseteq p.got

ReadersInv ==
    /\ reader = [q \in Readers |-> reader[q]]
    /\ \A q \in Readers : Regular(reader[q])

IInv == MapsInv /\ LockSurvives /\ CacheInv /\ HandedInv /\ ReadersInv

----------------------------------------------------------------------------
(* What is found.                                                          *)

LEMMA NoRules == RulesIn(Range(<<>>)) = {}
<1>1. DOMAIN <<>> = {}
  BY SMT
<1> QED
  BY <1>1, Zenon DEF RulesIn, Range

\* A lookup by name, and one by the patterns that match.
LEMMA FoundIs ==
    ASSUME NEW p, NEW x, NEW res \in Resource
    PROVE  /\ Enforced(p, Empty, res) = RulesIn(Range(p[res]))
           /\ Found(p, x, res) = By("name", RulesIn(Range(p[res])))
                                    \cup By("pattern", Enforced(Empty, x, res))
           /\ Enforced(Empty, Empty, res) = {}
<1>1. \A pat \in Resource : RulesIn(Range(Empty[pat])) = {}
  BY NoRules, Zenon DEF Empty
<1>2. ASSUME NEW y PROVE Enforced(y, Empty, res) = RulesIn(Range(y[res]))
  BY <1>1, Zenon DEF Enforced
<1> QED
  BY <1>1, <1>2, Zenon DEF Found

LEMMA FoundNow ==
    ASSUME NEW res \in Resource
    PROVE  Found(plain, regex, res) = Named(res) \cup By("pattern", Patterned(res))
<1>1. Found(plain, regex, res) = By("name", RulesIn(Range(plain[res])))
                                    \cup By("pattern", Enforced(Empty, regex, res))
  BY FoundIs
<1> QED
  BY <1>1, Zenon DEF Named, Patterned

LEMMA Bys ==
    /\ By("name", {}) = {} /\ By("pattern", {}) = {}
    /\ \A S, T, r : <<"name", r>> \in By("name", S) \cup By("pattern", T) => <<"name", r>> \in By("name", S)
<1>1. "name" # "pattern"
  BY SMT
<1>2. By("name", {}) = {} /\ By("pattern", {}) = {}
  BY Zenon DEF By
<1>3. \A T, r : <<"name", r>> \notin By("pattern", T)
  BY SMT DEF By
<1> QED
  BY <1>2, <1>3, Zenon

\* Where no pattern panics, the controllers made for a resource are those of the
\* rules with a pattern that matches.
LEMMA Matches ==
    ASSUME NEW res \in Resource, ~Panics
    PROVE  /\ RulesIn(RegexTcMatches(res)) = Patterned(res)
           /\ RulesIn(RegexRuleMatches(res)) = Patterned(res)
<1> DEFINE Pats == {p \in Resource : <<p, res>> \in Match}
           Good == {p \in Resource \ Malformed : <<p, res>> \in Match}
           All == UNION {RulesIn(Range(regex[p])) : p \in Pats}
<1>1. \A p \in Pats : p \notin Good => RulesIn(Range(regex[p])) = {}
  BY NoRules, Zenon DEF Panics
<1>2. All = UNION {RulesIn(Range(regex[p])) : p \in Good}
  <2> DEFINE G(p) == RulesIn(Range(regex[p]))
  <2>1. Good \subseteq Pats /\ \A p \in Pats : p \notin Good => G(p) = {}
    BY <1>1, Zenon
  <2> HIDE DEF G, Pats, Good
  <2>2. UNION {G(p) : p \in Pats} = UNION {G(p) : p \in Good}
    BY <2>1, SMT
  <2> QED
    BY <2>2, Zenon DEF G
<1>3. Patterned(res) = UNION {RulesIn(Range(regex[p])) : p \in Good}
  <2>1. RulesIn(Range(Empty[res])) = {}
    BY NoRules, Zenon DEF Empty
  <2> QED
    BY <2>1, Zenon DEF Patterned, Enforced
<1>4. RulesIn(RegexRuleMatches(res)) = All
  <2> DEFINE G(p) == Range(regex[p])
  <2>1. RegexRuleMatches(res) = UNION {G(p) : p \in Pats}
    BY Zenon DEF RegexRuleMatches
  <2> HIDE DEF G, Pats
  <2>2. RulesIn(UNION {G(p) : p \in Pats}) = UNION {RulesIn(G(p)) : p \in Pats}
    BY SMT DEF RulesIn
  <2> QED
    BY <2>1, <2>2, Zenon DEF G
<1>5. RulesIn(RegexTcMatches(res)) = All
  <2> DEFINE Made(p) == {FlowGenerate(regex[p][i].rule, <<stamp, res, p, i>>, NoStat) : i \in DOMAIN regex[p]}
  <2>1. \A p \in Pats : RulesIn(Made(p)) = RulesIn(Range(regex[p]))
    <3>1. \A r, id, reuse : FlowGenerate(r, id, reuse).rule = r
      BY Zenon DEF FlowGenerate, Controller
    <3> SUFFICES ASSUME NEW p \in Pats PROVE RulesIn(Made(p)) = RulesIn(Range(regex[p]))
      BY Zenon
    <3> DEFINE D == DOMAIN regex[p]
               New(i) == FlowGenerate(regex[p][i].rule, <<stamp, res, p, i>>, NoStat)
               Old(i) == regex[p][i]
    <3>2. \A i \in D : New(i).rule = Old(i).rule
      BY <3>1, Zenon
    <3>3. Made(p) = {New(i) : i \in D} /\ Range(regex[p]) = {Old(i) : i \in D}
      BY Zenon DEF Range
    <3> HIDE DEF New, Old, D, Made
    <3>4. {c.rule : c \in {New(i) : i \in D}} = {c.rule : c \in {Old(i) : i \in D}}
      BY <3>2, SMT
    <3> QED
      BY <3>3, <3>4, Zenon DEF RulesIn
  <2>2. RegexTcMatches(res) = UNION {Made(p) : p \in Pats}
    BY Zenon DEF RegexTcMatches
  <2> HIDE DEF Made, Pats
  <2>3. RulesIn(UNION {Made(p) : p \in Pats}) = UNION {RulesIn(Made(p)) : p \in Pats}
    BY SMT DEF RulesIn
  <2> QED
    BY <2>1, <2>2, <2>3, Zenon
<1> QED
  BY <1>2, <1>3, <1>4, <1>5, Zenon

----------------------------------------------------------------------------
(* The lookups.                                                            *)

LEMMA IdleRegular == Regular(Idle)
<1>1. DOMAIN Idle = Fields /\ Idle.pc = "idle" /\ Idle.res = CHOOSE res \in Resource : TRUE
  BY Zenon DEF Idle, Fields
<1>2. (CHOOSE res \in Resource : TRUE) \in Resource
  BY RuleAssumption, Zenon
<1> QED
  BY <1>1, <1>2, Zenon DEF Regular

\* A load that takes place between the two parts of a lookup adds to what may be in
\* the answer, and takes from what must be.
LEMMA ObserveRegular ==
    ASSUME ReadersInv, UNCHANGED kind, reader' = Observe(plain', regex')
    PROVE  ReadersInv'
<1>1. reader' = [q \in Readers |-> reader'[q]]
  BY Zenon DEF Observe
<1>2. ASSUME NEW q \in Readers PROVE Regular(reader[q])'
  <2> DEFINE p == reader[q]
             F == Found(plain', regex', p.res)
             p2 == [p EXCEPT !.may = @ \cup F, !.must = @ \cap F]
  <2>0. Regular(p)
    BY Zenon DEF ReadersInv
  <2>1. CASE p.pc # "miss"
    <3>1. reader'[q] = Idle
      BY <2>1, Zenon DEF Observe
    <3>2. DOMAIN Idle = Fields /\ Idle.pc = "idle" /\ Idle.res \in Resource
      BY IdleRegular, Zenon DEF Regular, Idle
    <3> QED
      BY <3>1, <3>2, Zenon DEF Regular
  <2>2. CASE p.pc = "miss"
    <3>1. reader'[q] = p2
      BY <2>2, Zenon DEF Observe
    <3> HIDE DEF F
    <3>2. /\ DOMAIN p2 = Fields /\ p2.pc = p.pc /\ p2.res = p.res /\ p2.got = p.got
          /\ p2.may = p.may \cup F /\ p2.must = p.must \cap F
      BY <2>0, Zenon DEF Regular, Fields
    <3>3. F = Found(plain', regex', p2.res)
      BY <3>2, Zenon DEF F
    <3> HIDE DEF p2
    <3>4. /\ kind' \in {"flow", "isolation"}
          /\ p2.got \subseteq p2.may /\ F \subseteq p2.may /\ p2.must \subseteq F
          /\ \A r : <<"name", r>> \in p2.must => <<"name", r>> \in p2.got
      BY <2>0, <2>2, <3>2, Zenon DEF Regular
    <3>5. p2.res \in Resource
      BY <2>0, <3>2, Zenon DEF Regular
    <3> QED
      BY <2>2, <3>1, <3>2, <3>3, <3>4, <3>5, Zenon DEF Regular
  <2> QED
    BY <2>1, <2>2, Zenon
<1> QED
  BY <1>1, <1>2, Zenon DEF ReadersInv

\* The readers other than the one that answers.
LEMMA OthersRegular ==
    ASSUME ReadersInv, UNCHANGED <<kind, plain, regex>>, NEW q \in Readers, NEW p2,
           reader' = [p \in Readers |-> IF p # q THEN IF reader[p].pc = "miss" THEN reader[p] ELSE Idle
                                        ELSE p2],
           Regular(p2)
    PROVE  ReadersInv'
<1>1. \A p \in Readers : Regular(reader'[p])
  BY IdleRegular, Zenon DEF ReadersInv
<1>2. \A p \in Readers : Regular(reader[p])'
  BY <1>1, Zenon DEF Regular
<1> QED
  BY <1>2, Zenon DEF ReadersInv

\* An answer at once.
LEMMA AnswerRegular ==
    ASSUME ReadersInv, UNCHANGED <<kind, plain, regex>>, NEW q \in Readers, NEW res \in Resource,
           NEW request, NEW got, reader[q].pc # "miss",
           request => got = Found(plain, regex, res), reader' = Answer(q, res, request, got)
    PROVE  ReadersInv'
<1> DEFINE F == Found(plain, regex, res)
           p2 == [pc |-> "done", res |-> res, request |-> request, got |-> got, may |-> F, must |-> F]
<1>1. reader' = [p \in Readers |-> IF p # q THEN IF reader[p].pc = "miss" THEN reader[p] ELSE Idle
                                   ELSE p2]
  BY Zenon DEF Answer
<1>2. /\ DOMAIN p2 = Fields /\ p2.res = res /\ p2.pc = "done" /\ p2.got = got /\ p2.may = F
      /\ p2.must = F /\ p2.request = request
  BY Zenon DEF Fields
<1> HIDE DEF p2
<1>3. Regular(p2)
  BY <1>2, Zenon DEF Regular
<1> QED
  BY <1>1, <1>3, OthersRegular, Zenon

\* The first part, where nothing is cached.
LEMMA MissRegular ==
    ASSUME ReadersInv, UNCHANGED <<kind, plain, regex>>, NEW q \in Readers, NEW res \in Resource,
           NEW request, reader[q].pc # "miss", kind \in {"flow", "isolation"},
           reader' = [Answer(q, res, request, Named(res)) EXCEPT ![q].pc = "miss"]
    PROVE  ReadersInv'
<1> DEFINE F == Found(plain, regex, res)
           p1 == [pc |-> "done", res |-> res, request |-> request, got |-> Named(res),
                  may |-> F, must |-> F]
           p2 == [p1 EXCEPT !.pc = "miss"]
           a == Answer(q, res, request, Named(res))
<1>1. a = [p \in Readers |-> IF p # q THEN IF reader[p].pc = "miss" THEN reader[p] ELSE Idle ELSE p1]
  BY Zenon DEF Answer
<1>2. /\ DOMAIN p2 = Fields /\ p2.res = res /\ p2.pc = "miss" /\ p2.got = Named(res)
      /\ p2.may = F /\ p2.must = F
  BY Zenon DEF Fields
<1>3. reader' = [a EXCEPT ![q].pc = "miss"]
  OBVIOUS
<1> HIDE DEF p1, a
<1>4. reader' = [p \in Readers |-> IF p # q THEN IF reader[p].pc = "miss" THEN reader[p] ELSE Idle
                                   ELSE p2]
  BY <1>1, <1>3, Zenon
<1> HIDE DEF p2
<1>5. F = Named(res) \cup By("pattern", Patterned(res))
  BY FoundNow, Zenon
<1>6. \A r : <<"name", r>> \in F => <<"name", r>> \in Named(res)
  BY <1>5, Bys, Zenon DEF Named
<1>7. Regular(p2)
  BY <1>2, <1>5, <1>6, Zenon DEF Regular
<1> QED
  BY <1>4, <1>7, OthersRegular, Zenon

\* The second part adds the patterns.
LEMMA WaitedRegular ==
    ASSUME ReadersInv, UNCHANGED <<kind, plain, regex>>, NEW q \in Readers, reader[q].pc = "miss",
           NEW cs, RulesIn(cs) = Patterned(reader[q].res),
           reader' = Answer(q, reader[q].res, reader[q].request, reader[q].got \cup Matched(cs))
    PROVE  ReadersInv'
<1> DEFINE r == reader[q]
           F == Found(plain, regex, r.res)
           got == r.got \cup Matched(cs)
           p2 == [pc |-> "done", res |-> r.res, request |-> r.request, got |-> got,
                  may |-> r.may, must |-> r.must]
<1>0. Regular(r)
  BY Zenon DEF ReadersInv
<1>1. reader' = [p \in Readers |-> IF p # q THEN IF reader[p].pc = "miss" THEN reader[p] ELSE Idle
                                   ELSE p2]
  BY Zenon DEF Answer
<1>2. /\ DOMAIN p2 = Fields /\ p2.res = r.res /\ p2.pc = "done" /\ p2.got = got /\ p2.may = r.may
      /\ p2.must = r.must
  BY Zenon DEF Fields
<1> HIDE DEF p2
<1>3. F = Named(r.res) \cup Matched(cs) /\ r.res \in Resource
  BY <1>0, FoundNow, Zenon DEF Matched, Regular
<1>4. /\ r.got \subseteq r.may /\ F \subseteq r.may /\ r.must \subseteq F
      /\ \A x : <<"name", x>> \in r.must => <<"name", x>> \in r.got
  BY <1>0, Zenon DEF Regular
<1>5. r.must \subseteq got
  <2> SUFFICES ASSUME NEW e \in r.must PROVE e \in got
    BY Zenon
  <2>1. CASE e \in Matched(cs)
    BY <2>1, Zenon
  <2>2. CASE e \in Named(r.res)
    <3>1. PICK x : e = <<"name", x>>
      BY <2>2, Zenon DEF Named, By
    <3> QED
      BY <1>4, <3>1, Zenon
  <2> QED
    BY <1>3, <1>4, <2>1, <2>2, Zenon
<1>6. got \subseteq r.may
  BY <1>3, <1>4, Zenon
<1>7. Regular(p2)
  BY <1>2, <1>3, <1>5, <1>6, Zenon DEF Regular
<1> QED
  BY <1>1, <1>7, OthersRegular, Zenon

----------------------------------------------------------------------------
(* The loads.                                                              *)

LEMMA InstallKeeps ==
    ASSUME IInv, NEW new, Install(new), holder = "nobody" \/ kind \notin {"flow", "isolation"},
           kind \in {"hotspot", "breaker", "system"} => new.regex = Empty,
           kind = "token" => new.plain = Empty
    PROVE  IInv'
<1>1. MapsInv'
  BY Zenon DEF Install, MapsInv
<1>2. holder' = "nobody"
  BY Zenon DEF Install, IInv, LockSurvives
<1>3. LockSurvives'
  BY <1>2, Zenon DEF LockSurvives
<1>4. cache' = [res \in Resource |-> {}] /\ handed' = [res \in Resource |-> {}]
  BY Zenon DEF Install, Uncached
<1>5. CacheInv' /\ HandedInv'
  BY <1>4, Zenon DEF CacheInv, HandedInv
<1>6. ReadersInv'
  BY ObserveRegular, Zenon DEF Install, IInv
<1> QED
  BY <1>1, <1>3, <1>5, <1>6, Zenon DEF IInv

LEMMA WithResOf ==
    ASSUME NEW res, NEW raw, NEW p, NEW x, NEW b
    PROVE  /\ plain = Empty /\ p = <<>> => WithRes(res, raw, p, x, b).plain = Empty
           /\ regex = Empty /\ x = <<>> => WithRes(res, raw, p, x, b).regex = Empty
<1>1. [Empty EXCEPT ![res] = <<>>] = Empty
  BY Zenon DEF Empty
<1> QED
  BY <1>1, Zenon DEF Maps, WithRes

LEMMA LoadKeeps ==
    ASSUME IInv, NEW rules, Load(rules)
    PROVE  IInv'
<1>0. MapsInv
  BY Zenon DEF IInv
<1>1. CASE FlowLoadRules(rules)
  BY <1>1, InstallKeeps, Zenon DEF FlowLoadRules, LoadRules
<1>2. CASE IsolationLoadRules(rules)
  BY <1>2, InstallKeeps, Zenon DEF IsolationLoadRules, LoadRules
<1>3. CASE HotspotLoadRules(rules)
  <2> DEFINE new == HotspotOnRuleUpdate(ByResource(rules))
  <2>1. kind = "hotspot" /\ holder = "nobody" /\ Install(new)
    BY <1>3, Zenon DEF HotspotLoadRules, LoadRules
  <2>2. new.regex = Empty
    BY <1>0, <2>1, Zenon DEF Maps, HotspotOnRuleUpdate, MapsInv
  <2> HIDE DEF new
  <2> QED
    BY <2>1, <2>2, InstallKeeps, Zenon
<1>4. CASE BreakerLoadRules(rules)
  <2> DEFINE new == BreakerOnRuleUpdate(ByResource(rules))
  <2>1. kind = "breaker" /\ holder = "nobody" /\ Install(new)
    BY <1>4, Zenon DEF BreakerLoadRules, LoadRules
  <2>2. new.regex = Empty
    BY <1>0, <2>1, Zenon DEF Maps, BreakerOnRuleUpdate, MapsInv
  <2> HIDE DEF new
  <2> QED
    BY <2>1, <2>2, InstallKeeps, Zenon
<1>5. CASE SystemLoadRules(rules)
  <2> DEFINE new == BuildRuleMap(ByResource(rules))
  <2>1. kind = "system" /\ Install(new)
    BY <1>5, Zenon DEF SystemLoadRules
  <2>2. new.regex = Empty
    BY <1>0, <2>1, Zenon DEF Maps, BuildRuleMap, MapsInv
  <2> HIDE DEF new
  <2> QED
    BY <2>1, <2>2, InstallKeeps, Zenon
<1>6. CASE TokenLoadRules(rules)
  <2> DEFINE new == TokenOnRuleUpdate(ByResource(SetToSeq(FilterRules(rules))))
  <2>1. kind = "token" /\ Install(new)
    BY <1>6, Zenon DEF TokenLoadRules
  <2>2. new.plain = Empty
    BY <1>0, <2>1, Zenon DEF Maps, TokenOnRuleUpdate, MapsInv
  <2> HIDE DEF new
  <2> QED
    BY <2>1, <2>2, InstallKeeps, Zenon
<1> QED
  BY <1>1, <1>2, <1>3, <1>4, <1>5, <1>6, Zenon DEF Load

LEMMA LoadOfResourceKeeps ==
    ASSUME IInv, NEW res, NEW rules, LoadOfResource(res, rules)
    PROVE  IInv'
<1>0. MapsInv
  BY Zenon DEF IInv
<1>1. CASE FlowLoadRulesOfResource(res, rules)
  BY <1>1, InstallKeeps, Zenon DEF FlowLoadRulesOfResource, LoadRulesOfResource
<1>2. CASE IsolationLoadRulesOfResource(res, rules)
  BY <1>2, InstallKeeps, Zenon DEF IsolationLoadRulesOfResource, LoadRulesOfResource
<1>3. CASE HotspotLoadRulesOfResource(res, rules)
  <2> DEFINE new == IF rules = <<>> THEN Cleared(res) ELSE HotspotOnResourceRuleUpdate(res, rules)
  <2>1. kind = "hotspot" /\ holder = "nobody" /\ Install(new)
    BY <1>3, Zenon DEF HotspotLoadRulesOfResource, LoadRulesOfResource
  <2>2. new.regex = Empty
    BY <1>0, <2>1, WithResOf, Zenon DEF Cleared, HotspotOnResourceRuleUpdate, MapsInv
  <2> HIDE DEF new
  <2> QED
    BY <2>1, <2>2, InstallKeeps, Zenon
<1>4. CASE BreakerLoadRulesOfResource(res, rules)
  <2> DEFINE new == IF rules = <<>> THEN Cleared(res) ELSE BreakerOnResourceRuleUpdate(res, rules)
  <2>1. kind = "breaker" /\ holder = "nobody" /\ Install(new)
    BY <1>4, Zenon DEF BreakerLoadRulesOfResource, LoadRulesOfResource
  <2>2. new.regex = Empty
    <3>1. Unchanged.regex = Empty /\ regex = Empty
      BY <1>0, <2>1, Zenon DEF Maps, Unchanged, MapsInv
    <3> QED
      BY <3>1, WithResOf, Zenon DEF Cleared, BreakerOnResourceRuleUpdate
  <2> HIDE DEF new
  <2> QED
    BY <2>1, <2>2, InstallKeeps, Zenon
<1>5. CASE TokenLoadRulesOfResource(res, rules)
  <2>1. PICK filtered : LoadRulesOfResource("token", res, filtered, TokenOnResourceRuleUpdate)
    BY <1>5, Zenon DEF TokenLoadRulesOfResource
  <2> DEFINE new == IF filtered = <<>> THEN Cleared(res) ELSE TokenOnResourceRuleUpdate(res, filtered)
  <2>2. kind = "token" /\ holder = "nobody" /\ Install(new)
    BY <2>1, Zenon DEF LoadRulesOfResource
  <2>3. new.plain = Empty
    BY <1>0, <2>2, WithResOf, Zenon DEF Cleared, TokenOnResourceRuleUpdate, MapsInv
  <2> HIDE DEF new
  <2> QED
    BY <2>2, <2>3, InstallKeeps, Zenon
<1> QED
  BY <1>1, <1>2, <1>3, <1>4, <1>5, Zenon DEF LoadOfResource

----------------------------------------------------------------------------
(* The steps of a lookup.                                                  *)

LEMMA CachedIs ==
    ASSUME CacheInv, NEW res \in Resource, cache[res] # {}
    PROVE  cache[res] = {Cached(res)} /\ RulesIn(Cached(res)) = Patterned(res)
<1>1. PICK cs : cache[res] = {cs} /\ RulesIn(cs) = Patterned(res)
  BY Zenon DEF CacheInv
<1>2. Cached(res) = cs
  BY <1>1, Zenon DEF Cached
<1> QED
  BY <1>1, <1>2, Zenon

LEMMA SameMaps ==
    ASSUME IInv, UNCHANGED <<kind, plain, regex, holder>>
    PROVE  MapsInv' /\ LockSurvives'
BY Zenon DEF IInv, MapsInv, LockSurvives, Panics

LEMMA SameCache ==
    ASSUME IInv, UNCHANGED <<regex, cache>>
    PROVE  CacheInv'
BY Zenon DEF IInv, CacheInv, Patterned

\* A request is given what is cached.
LEMMA HandCached ==
    ASSUME IInv, NEW res \in Resource, NEW request, Hand(res, request, Cached(res)),
           cache[res] # {}, UNCHANGED <<cache, overwritten>>
    PROVE  HandedInv'
<1>1. cache[res] = {Cached(res)}
  BY CachedIs, Zenon DEF IInv
<1>2. HandedInv
  BY Zenon DEF IInv
<1>3. CASE UNCHANGED handed
  BY <1>2, <1>3, Zenon DEF HandedInv
<1>4. CASE handed' = [handed EXCEPT ![res] = @ \cup {Cached(res)}]
  <2>1. handed' = [s \in Resource |-> handed'[s]]
    BY <1>2, <1>4, Zenon DEF HandedInv
  <2>2. \A s \in Resource : handed'[s] = IF s = res THEN handed[s] \cup {Cached(res)} ELSE handed[s]
    BY <1>2, <1>4, Zenon DEF HandedInv
  <2> QED
    BY <1>1, <1>2, <2>1, <2>2, Zenon DEF HandedInv
<1> QED
  BY <1>3, <1>4, Zenon DEF Hand

LEMMA LookupKeeps ==
    ASSUME IInv, NEW q \in Readers, NEW res \in Resource, NEW request, Lookup(q, res, request)
    PROVE  IInv'
<1>0. /\ UNCHANGED <<kind, plain, regex, cache, holder, overwritten>> /\ reader[q].pc # "miss"
      /\ kind \in {"flow", "isolation"} /\ ReadersInv /\ CacheInv /\ HandedInv
  BY Zenon DEF Lookup, IInv
<1>1. MapsInv' /\ LockSurvives' /\ CacheInv'
  BY <1>0, SameMaps, SameCache, Zenon
<1>2. CASE /\ cache[res] # {} /\ Hand(res, request, Cached(res))
           /\ reader' = Answer(q, res, request, Named(res) \cup Matched(Cached(res)))
  <2>1. HandedInv'
    BY <1>0, <1>2, HandCached, Zenon
  <2>2. Named(res) \cup Matched(Cached(res)) = Found(plain, regex, res)
    BY <1>0, <1>2, CachedIs, FoundNow, Zenon DEF Matched
  <2>3. ReadersInv'
    BY <1>0, <1>2, <2>2, AnswerRegular, Zenon
  <2> QED
    BY <1>1, <2>1, <2>3, Zenon DEF IInv
<1>3. CASE /\ UNCHANGED handed
           /\ reader' = [Answer(q, res, request, Named(res)) EXCEPT ![q].pc = "miss"]
  <2>1. HandedInv'
    BY <1>0, <1>3, Zenon DEF HandedInv
  <2>2. ReadersInv'
    BY <1>0, <1>3, MissRegular, Zenon
  <2> QED
    BY <1>1, <2>1, <2>2, Zenon DEF IInv
<1> QED
  BY <1>2, <1>3, Zenon DEF Lookup

LEMMA FromCacheKeeps ==
    ASSUME IInv, NEW q \in Readers, reader[q].pc = "miss", FromCache(q)
    PROVE  IInv'
<1> DEFINE r == reader[q]
<1>0. /\ UNCHANGED <<kind, plain, regex, cache, holder, overwritten>>
      /\ cache[r.res] # {} /\ Hand(r.res, r.request, Cached(r.res))
      /\ reader' = Answer(q, r.res, r.request, r.got \cup Matched(Cached(r.res)))
  BY Zenon DEF FromCache
<1>1. ReadersInv /\ CacheInv /\ r.res \in Resource
  BY Zenon DEF IInv, ReadersInv, Regular
<1>2. MapsInv' /\ LockSurvives' /\ CacheInv'
  BY <1>0, SameMaps, SameCache, Zenon
<1>3. HandedInv'
  BY <1>0, <1>1, HandCached, Zenon
<1>4. RulesIn(Cached(r.res)) = Patterned(r.res)
  BY <1>0, <1>1, CachedIs, Zenon
<1>5. ReadersInv'
  BY <1>0, <1>1, <1>4, WaitedRegular, Zenon
<1> QED
  BY <1>2, <1>3, <1>5, Zenon DEF IInv

\* Only a query fills a cache that is not empty, and it leaves word of that.
LEMMA FillKeeps ==
    ASSUME IInv, NEW q \in Readers, reader[q].pc = "miss", NEW cs,
           RulesIn(cs) = Patterned(reader[q].res), Fill(q, cs),
           cache[reader[q].res] = {} \/ ~reader[q].request
    PROVE  IInv'
<1> DEFINE r == reader[q]
           res == r.res
<1>0. /\ UNCHANGED <<kind, plain, regex, holder>>
      /\ cache' = [cache EXCEPT ![res] = {cs}] /\ Hand(res, r.request, cs)
      /\ overwritten' = IF cache[res] = {} \/ r.request THEN overwritten ELSE overwritten \cup {res}
      /\ reader' = Answer(q, res, r.request, r.got \cup Matched(cs))
  BY Zenon DEF Fill
<1>1. ReadersInv /\ CacheInv /\ HandedInv /\ res \in Resource
  BY Zenon DEF IInv, ReadersInv, Regular
<1> HIDE DEF res
<1>2. MapsInv' /\ LockSurvives'
  BY <1>0, SameMaps, Zenon
<1>3. /\ cache' = [s \in Resource |-> cache'[s]]
      /\ \A s \in Resource : cache'[s] = IF s = res THEN {cs} ELSE cache[s]
  BY <1>0, <1>1, Zenon DEF CacheInv
<1>4. RulesIn(cs) = Patterned(res)
  BY Zenon DEF res
<1>5. CacheInv'
  BY <1>0, <1>1, <1>3, <1>4, Zenon DEF CacheInv, Patterned
<1>6. ReadersInv'
  BY <1>0, <1>1, WaitedRegular, Zenon DEF res
<1>7. /\ handed' = [s \in Resource |-> handed'[s]]
      /\ \A s \in Resource : s # res => handed'[s] = handed[s]
      /\ handed'[res] = handed[res] \/ (r.request /\ handed'[res] = handed[res] \cup {cs})
  BY <1>0, <1>1, Zenon DEF Hand, HandedInv
<1>8. res \in overwritten' \/ handed'[res] \subseteq {cs}
  <2>1. CASE cache[res] = {}
    BY <1>0, <1>1, <1>7, <2>1, Zenon DEF HandedInv
  <2>2. CASE cache[res] # {} /\ ~r.request
    BY <1>0, <2>2, Zenon
  <2> QED
    BY <2>1, <2>2, Zenon DEF res
<1>9. \A s \in Resource : s # res => s \in overwritten' \/ handed'[s] \subseteq cache'[s]
  BY <1>0, <1>1, <1>3, <1>7, Zenon DEF HandedInv
<1>10. HandedInv'
  BY <1>1, <1>3, <1>7, <1>8, <1>9, Zenon DEF HandedInv
<1> QED
  BY <1>2, <1>5, <1>6, <1>10, Zenon DEF IInv

LEMMA PanicKeeps ==
    ASSUME IInv, NEW q \in Readers, NEW left, Panic(q, left), kind \in {"flow", "isolation"},
           kind = "flow" => left \in {"nobody", "query"}
    PROVE  IInv'
<1>0. /\ UNCHANGED <<kind, plain, regex, cache, handed, overwritten>>
      /\ Panics /\ holder' = left /\ reader' = [reader EXCEPT ![q] = Idle]
      /\ ReadersInv /\ HandedInv /\ MapsInv
  BY Zenon DEF Panic, IInv
<1>1. MapsInv' /\ HandedInv'
  BY <1>0, Zenon DEF MapsInv, HandedInv
<1>2. LockSurvives'
  BY <1>0, Zenon DEF LockSurvives, Panics
<1>3. CacheInv'
  BY <1>0, SameCache, Zenon
<1>4. reader' = [p \in Readers |-> reader'[p]] /\ \A p \in Readers : Regular(reader'[p])
  BY <1>0, IdleRegular, Zenon DEF ReadersInv
<1>5. ReadersInv'
  BY <1>0, <1>4, Zenon DEF ReadersInv, Regular
<1> QED
  BY <1>1, <1>2, <1>3, <1>5, Zenon DEF IInv

\* The managers without a cache answer at once.
LEMMA SnapshotKeeps ==
    ASSUME IInv, NEW q \in Readers, NEW res \in Resource, NEW request, NEW found,
           kind \notin {"flow", "isolation"}, request => found = Found(plain, regex, res),
           Snapshot(q, res, request, found)
    PROVE  IInv'
<1>0. /\ UNCHANGED <<kind, plain, regex, cache, holder, handed, overwritten>>
      /\ reader' = Answer(q, res, request, found) /\ ReadersInv /\ HandedInv
  BY Zenon DEF Snapshot, IInv
<1>1. MapsInv' /\ LockSurvives' /\ CacheInv'
  BY <1>0, SameMaps, SameCache, Zenon
<1>2. HandedInv'
  BY <1>0, Zenon DEF HandedInv
<1>3. reader[q].pc # "miss"
  BY <1>0, Zenon DEF ReadersInv, Regular
<1>4. ReadersInv'
  BY <1>0, <1>3, AnswerRegular, Zenon
<1> QED
  BY <1>1, <1>2, <1>4, Zenon DEF IInv

\* One step for each way to look rules up.
LEMMA ReaderKeeps ==
    ASSUME IInv, NEW q \in Readers,
           \/ GetTrafficControllerListFor(q) \/ FlowGetRulesOfResource(q)
           \/ IsolationGetRulesOfResource(q)
    PROVE  IInv'
<1>0. reader[q].pc = "miss" => reader[q].res \in Resource
  BY Zenon DEF IInv, ReadersInv, Regular
<1>1. CASE GetTrafficControllerListFor(q)
  <2>1. kind = "flow" /\ reader[q].pc = "miss"
    BY <1>1, Zenon DEF GetTrafficControllerListFor, Waits
  <2>2. CASE FromCache(q)
    BY <2>1, <2>2, FromCacheKeeps, Zenon
  <2>3. CASE Panic(q, "nobody")
    BY <2>1, <2>3, PanicKeeps, Zenon
  <2>4. CASE /\ cache[reader[q].res] = {} /\ ~Panics
             /\ Fill(q, RegexTcMatches(reader[q].res))
    BY <1>0, <2>1, <2>4, Matches, FillKeeps, Zenon
  <2> QED
    BY <1>1, <2>2, <2>3, <2>4, Zenon DEF GetTrafficControllerListFor
<1>2. CASE FlowGetRulesOfResource(q)
  <2>1. kind = "flow" /\ reader[q].pc = "miss" /\ reader[q].request = FALSE
    BY <1>2, Zenon DEF FlowGetRulesOfResource, Waits
  <2>2. CASE Panic(q, "query")
    BY <2>1, <2>2, PanicKeeps, Zenon
  <2>3. CASE ~Panics /\ Fill(q, RegexTcMatches(reader[q].res))
    BY <1>0, <2>1, <2>3, Matches, FillKeeps, Zenon
  <2> QED
    BY <1>2, <2>2, <2>3, Zenon DEF FlowGetRulesOfResource
<1>3. CASE IsolationGetRulesOfResource(q)
  <2>1. kind = "isolation" /\ reader[q].pc = "miss"
    BY <1>3, Zenon DEF IsolationGetRulesOfResource, Waits
  <2>2. CASE FromCache(q)
    BY <2>1, <2>2, FromCacheKeeps, Zenon
  <2>3. CASE Panic(q, IF reader[q].request THEN "request" ELSE "query")
    BY <2>1, <2>3, PanicKeeps, Zenon
  <2>4. CASE /\ cache[reader[q].res] = {} /\ ~Panics
             /\ Fill(q, RegexRuleMatches(reader[q].res))
    BY <1>0, <2>1, <2>4, Matches, FillKeeps, Zenon
  <2> QED
    BY <1>3, <2>2, <2>3, <2>4, Zenon DEF IsolationGetRulesOfResource
<1> QED
  BY <1>1, <1>2, <1>3, Zenon

\* The lookups that start with a name: the first part of the two of flow control and
\* isolation, or the whole of a snapshot.
LEMMA AskKeeps ==
    ASSUME IInv, NEW q \in Readers, NEW res \in Asked,
           \/ \E request \in BOOLEAN : Lookup(q, res, request)
           \/ GetTrafficControllersFor(q, res) \/ GetBreakersOfResource(q, res)
           \/ BreakerGetRulesOfResource(q, res)
           \/ SystemGetRules(q, res) \/ TokenGetRulesOfResource(q, res)
    PROVE  IInv'
<1>0. res \in Resource /\ MapsInv
  BY RuleAssumption, Zenon DEF IInv
<1>1. CASE \E request \in BOOLEAN : Lookup(q, res, request)
  BY <1>0, <1>1, LookupKeeps, Zenon
<1>2. CASE kind \in {"hotspot", "breaker", "system"} /\ Snapshot(q, res, TRUE, Named(res))
  <2>1. Patterned(res) = {}
    BY <1>0, <1>2, FoundIs, Zenon DEF MapsInv, Patterned
  <2>2. Named(res) = Found(plain, regex, res)
    BY <1>0, <2>1, FoundNow, Bys, Zenon
  <2> QED
    BY <1>0, <1>2, <2>2, SnapshotKeeps, Zenon
<1>3. CASE BreakerGetRulesOfResource(q, res)
  BY <1>0, <1>3, SnapshotKeeps, Zenon DEF BreakerGetRulesOfResource
<1>4. CASE TokenGetRulesOfResource(q, res)
  <2> DEFINE Good == {pat \in Resource \ Malformed : <<pat, res>> \in Match}
             cs == UNION {Range(regex[pat]) : pat \in Good}
  <2>1. kind = "token" /\ Snapshot(q, res, TRUE, Matched(cs))
    BY <1>4, Zenon DEF TokenGetRulesOfResource
  <2>2. RulesIn(cs) = Patterned(res)
    <3> DEFINE G(p) == Range(regex[p])
    <3>1. RulesIn(Range(Empty[res])) = {}
      BY <1>0, NoRules, Zenon DEF Empty
    <3>2. Patterned(res) = UNION {RulesIn(G(p)) : p \in Good}
      BY <3>1, Zenon DEF Patterned, Enforced
    <3>3. cs = UNION {G(p) : p \in Good}
      BY Zenon
    <3> HIDE DEF G, Good
    <3>4. RulesIn(UNION {G(p) : p \in Good}) = UNION {RulesIn(G(p)) : p \in Good}
      BY SMT DEF RulesIn
    <3> QED
      BY <3>2, <3>3, <3>4, Zenon
  <2>3. Named(res) = {}
    <3>1. plain = Empty
      BY <1>0, <2>1, Zenon DEF MapsInv
    <3>2. RulesIn(Range(plain[res])) = {}
      BY <1>0, <3>1, NoRules, Zenon DEF Empty
    <3> QED
      BY <3>2, Bys, Zenon DEF Named
  <2>4. Matched(cs) = Found(plain, regex, res)
    BY <1>0, <2>2, <2>3, FoundNow, Zenon DEF Matched
  <2> HIDE DEF cs
  <2> QED
    BY <1>0, <2>1, <2>4, SnapshotKeeps, Zenon
<1> QED
  BY <1>1, <1>2, <1>3, <1>4, Zenon DEF GetTrafficControllersFor, GetBreakersOfResource, SystemGetRules

----------------------------------------------------------------------------
LEMMA IInvInit == Init => IInv
<1> SUFFICES ASSUME Init PROVE IInv
  OBVIOUS
<1>1. MapsInv /\ LockSurvives
  BY Zenon DEF Init, MapsInv, LockSurvives
<1>2. CacheInv /\ HandedInv
  BY Zenon DEF Init, CacheInv, HandedInv, Uncached
<1>3. ReadersInv
  BY IdleRegular, Zenon DEF Init, ReadersInv
<1> QED
  BY <1>1, <1>2, <1>3, Zenon DEF IInv

LEMMA IInvNext == IInv /\ [Next]_vars => IInv'
<1> SUFFICES ASSUME IInv, [Next]_vars PROVE IInv'
  OBVIOUS
<1>1. CASE UNCHANGED vars
  <2>1. MapsInv' /\ LockSurvives' /\ CacheInv'
    BY <1>1, SameMaps, SameCache, Zenon DEF vars
  <2>2. HandedInv' /\ ReadersInv'
    BY <1>1, Zenon DEF vars, IInv, HandedInv, ReadersInv, Regular
  <2> QED
    BY <2>1, <2>2, Zenon DEF IInv
<1>2. CASE Next
  BY <1>2, LoadKeeps, LoadOfResourceKeeps, ReaderKeeps, AskKeeps, Zenon DEF Next
<1> QED
  BY <1>1, <1>2, Zenon

\* The two parts of a lookup may see two loads, but the answer holds only rules in
\* force at some moment of the lookup, and all that were in force throughout by the
\* same map: for every manager, any rules and patterns and any number of goroutines.
THEOREM LookupsAreRegular == Spec => []LookupIsRegular
<1>1. IInv => LookupIsRegular
  BY Zenon DEF IInv, ReadersInv, Regular, LookupIsRegular
<1> QED
  BY <1>1, IInvInit, IInvNext, PTL DEF Spec

\* Between two loads all requests for a resource share one set of regex controllers,
\* unless a query of the rules replaced the cache.
THEOREM ControllersAreShared == Spec => []OneSetOfControllers
<1>1. IInv => OneSetOfControllers
  <2> SUFFICES ASSUME IInv, NEW res \in Resource, res \notin overwritten
               PROVE  Cardinality(handed[res]) <= 1
    BY Zenon DEF OneSetOfControllers
  <2>1. handed[res] = {} \/ \E cs : handed[res] = {cs}
    <3>1. handed[res] \subseteq cache[res]
      BY Zenon DEF IInv, HandedInv
    <3>2. cache[res] = {} \/ \E cs : cache[res] = {cs}
      BY Zenon DEF IInv, CacheInv
    <3> QED
      BY <3>1, <3>2, SMT
  <2>2. Cardinality(handed[res]) \in {0, 1}
    BY <2>1, FS_EmptySet, FS_Singleton, Zenon
  <2> QED
    BY <2>2, SMT
<1> QED
  BY <1>1, IInvInit, IInvNext, PTL DEF Spec

\* Only a pattern that does not compile leaves the lock of the maps locked, and in
\* flow control only through a query.
THEOREM LockIsReleased == Spec => []LockSurvives
<1>1. IInv => LockSurvives
  BY Zenon DEF IInv
<1> QED
  BY <1>1, IInvInit, IInvNext, PTL DEF Spec

=============================================================================
