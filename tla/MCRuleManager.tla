--------------------------- MODULE MCRuleManager ---------------------------
(* Two resources, the pattern "a" matching both, and a malformed pattern.    *)
(* Rules of the token limiter have one or two limits, some of them the same.  *)
EXTENDS RuleManager, TLC

A == [resource |-> "a", stat |-> "s", limit |-> 1, regex |-> FALSE, form |-> "ok",
      items |-> "empty"]
A2 == [A EXCEPT !.limit = 2]
AX == [A EXCEPT !.regex = TRUE]
Bad == [A EXCEPT !.form = "invalid"]
Odd == [A EXCEPT !.form = "unsupported"]
NilRule == [A EXCEPT !.form = "nil"]
B == [A EXCEPT !.resource = "ab"]
Broken == [AX EXCEPT !.resource = "("]

MCMatch == {<<"a", "a">>, <<"a", "ab">>, <<"ab", "ab">>}

Key(k, n) == [key |-> k, number |-> n, count |-> "total-tokens", time |-> 1, unit |-> "minute"]
Item(type, keys) == [type |-> type, value |-> "", keyItems |-> keys]
T(res, items) == [resource |-> res, regex |-> TRUE, form |-> "ok", strategy |-> "peta",
                  provider |-> "openai", specificItems |-> items]

MCTokenRules ==
    {T("", <<Item("all", <<Key("", 1)>>)>>),
     T("a", <<Item("all", <<Key("", 1), Key("a", 2)>>), Item("all", <<Key("a", 3)>>)>>),
     T("ab", <<Item("header", <<Key("", 1), Key("", 2)>>), Item("all", <<Key("", 3)>>)>>),
     T("(", <<Item("all", <<Key("", 1)>>)>>),
     T("ab", <<Item("all", <<Key("", -1)>>)>>),
     T("ab", <<Item("all", <<Nil>>), Nil>>),
     [T("a", <<Item("all", <<Key("", 1)>>)>>) EXCEPT !.form = "nil"]}

MCRules ==
    [flow |-> {A, A2, AX, Broken, [B EXCEPT !.stat = "none"]},
     isolation |-> {A, AX, Bad, Broken, B},
     hotspot |-> {A, A2, [A EXCEPT !.items = "nil"], Odd, B},
     breaker |-> {A, A2, Bad, NilRule, [A EXCEPT !.stat = "t"]},
     system |-> {A, A2, Bad, NilRule, B},
     token |-> MCTokenRules]

Symmetry == Permutations(Readers)
=============================================================================
