-------------------------- MODULE RuleConverters --------------------------
(* What the converters and updaters of ext/datasource/helper.go make of a     *)
(* list of rules: a "null" of the source is a nil pointer, or a rule without  *)
(* any field when the converter makes values, which no manager puts in force. *)
EXTENDS Naturals, Sequences, SequencesExt

NonNull(rules) == SelectSeq(rules, LAMBDA r : r # "null")

HasNull(rules) == \E i \in DOMAIN rules : rules[i] = "null"

\* outcome: the rules are "loaded", the call "failed" with an error, or it "panicked".
Loaded(rules) == [outcome |-> "loaded", rules |-> NonNull(rules)]
NotLoaded(outcome) == [outcome |-> outcome, rules |-> <<>>]

\* Given values, an updater takes the address of the loop variable: all pointers
\* are the same and lead to the last rule.
Pointers(converter, rules) ==
    IF converter = "pointers" THEN rules ELSE [i \in DOMAIN rules |-> rules[Len(rules)]]

\* LoadRules of flow, of hotspot and of isolation dereference a nil pointer.
FlowRulesUpdater(converter, rules) ==
    IF converter = "pointers" /\ HasNull(rules) THEN NotLoaded("panicked")
    ELSE Loaded(Pointers(converter, rules))

\* LoadRules of system, and of the token rate limiter, skip a nil pointer.
SystemRulesUpdater(converter, rules) == Loaded(Pointers(converter, rules))

\* The only updater that refuses values.
CircuitBreakerRulesUpdater(converter, rules) ==
    IF converter = "values" THEN NotLoaded("failed")
    ELSE IF HasNull(rules) THEN NotLoaded("panicked") ELSE Loaded(rules)

Updated(updater, converter, rules) ==
    CASE updater = "circuitbreaker"                   -> CircuitBreakerRulesUpdater(converter, rules)
      [] updater \in {"system", "llm"}                -> SystemRulesUpdater(converter, rules)
      [] updater \in {"flow", "hotspot", "isolation"} -> FlowRulesUpdater(converter, rules)

\* The parser of hotspot rules copies their fields and so dereferences a nil pointer
\* itself, before the property is remembered.
HotSpotParamRuleJsonArrayParserPanics(updater, converter, rules) ==
    updater = "hotspot" /\ converter = "pointers" /\ HasNull(rules)
=============================================================================
