---------------------------- MODULE TokenRules ----------------------------
(* What the rule manager of the token rate limiter makes of the rules it is   *)
(* given: defaults, validation, one rule for each resource pattern and one    *)
(* limit for each combination of identifier, key, count strategy and time.    *)
EXTENDS Integers, Sequences, SequencesExt

CONSTANTS
    Malformed,      \* patterns that do not compile
    DefaultPattern  \* what an empty pattern becomes

Nil == [nil |-> TRUE]

----------------------------------------------------------------------------
OrDefault(pattern) == IF pattern = "" THEN DefaultPattern ELSE pattern

SetDefaultRuleOption(r) ==
    LET Key(k) == IF k = Nil THEN k ELSE [k EXCEPT !.key = OrDefault(@)]
        Item(s) == IF s = Nil THEN s
                   ELSE [s EXCEPT !.value = OrDefault(@),
                                  !.keyItems = [i \in DOMAIN s.keyItems |-> Key(s.keyItems[i])]]
    IN  [r EXCEPT !.resource = OrDefault(@),
                  !.specificItems = [i \in DOMAIN r.specificItems |-> Item(r.specificItems[i])]]

----------------------------------------------------------------------------
ValidateResource(pattern) == pattern # "" /\ pattern \notin Malformed

ValidateStrategy(strategy) == strategy \in {"fixed-window", "peta"}

ValidateEncoding(provider) == provider = "openai"

ValidateIdentifier(s) ==
    s.type \in {"all", "header"} /\ s.value # "" /\ s.value \notin Malformed

\* Zero is accepted.
ValidateToken(k) == k.number >= 0 /\ k.count \in {"total-tokens", "input-tokens", "output-tokens"}

ValidateTime(k) == k.unit \in {"second", "minute", "hour", "day"} /\ k.time >= 0

ValidateKeyItem(k) ==
    /\ k # Nil
    /\ k.key # "" /\ k.key \notin Malformed
    /\ ValidateToken(k) /\ ValidateTime(k)

ValidateSpecificItem(s) ==
    /\ s # Nil
    /\ ValidateIdentifier(s)
    /\ s.keyItems # <<>>
    /\ \A i \in DOMAIN s.keyItems : ValidateKeyItem(s.keyItems[i])

TokenIsValidRule(r) ==
    /\ ValidateResource(r.resource) /\ ValidateStrategy(r.strategy) /\ ValidateEncoding(r.provider)
    /\ r.specificItems # <<>>
    /\ \A i \in DOMAIN r.specificItems : ValidateSpecificItem(r.specificItems[i])

----------------------------------------------------------------------------
Identity(s, k) == <<s.type, s.value, k.key, k.count, k.time, k.unit>>

\* The first of several is kept.
KeptKeysMutant(s, seen) ==
    FoldLeft(LAMBDA acc, k : IF Identity(s, k) \in acc.seen THEN acc
                             ELSE [seen |-> acc.seen \cup {Identity(s, k)},
                                   keyItems |-> Append(acc.keyItems, k)],
             [seen |-> seen, keyItems |-> <<>>], s.keyItems)

\* The key items from the last to the first, without those that occurred.
KeptKeys(s, seen) ==
    FoldRight(LAMBDA k, acc : IF Identity(s, k) \in acc.seen THEN acc
                              ELSE [seen |-> acc.seen \cup {Identity(s, k)},
                                    keyItems |-> Append(acc.keyItems, k)],
              s.keyItems, [seen |-> seen, keyItems |-> <<>>])

\* The rule is valid, so nothing in it is nil.
FilterDuplicatedItem(r) ==
    LET Add(s, acc) ==
            LET kept == KeptKeys(s, acc.seen)
            IN  [seen |-> kept.seen,
                 items |-> IF kept.keyItems = <<>> THEN acc.items
                           ELSE Append(acc.items, [s EXCEPT !.keyItems = kept.keyItems])]
    IN  [r EXCEPT !.specificItems = FoldRight(Add, @, [seen |-> {}, items |-> <<>>]).items]

\* The last valid rule of each resource pattern.
LastValid(rules) ==
    LET given == SelectSeq(rules, LAMBDA r : r.form # "nil")
        valid == SelectSeq([i \in DOMAIN given |-> SetDefaultRuleOption(given[i])], TokenIsValidRule)
    IN  {valid[SelectLastInSeq(valid, LAMBDA r : r.resource = res)] : res \in {r.resource : r \in Range(valid)}}

FilterRules(rules) == {FilterDuplicatedItem(r) : r \in LastValid(rules)}
=============================================================================
