----------------------------- MODULE MCHotspot -----------------------------
EXTENDS Hotspot, TLC

R(behavior, x, y, burst, maxQueue, capacity) ==
    [behavior |-> behavior, limit |-> [a \in Args |-> IF a = "x" THEN x ELSE y],
     burst |-> burst, duration |-> 2, maxQueue |-> maxQueue, capacity |-> capacity]

MCRules ==
    {R("Concurrency", 1, 0, 0, 0, 2), R("Concurrency", 1, 0, 0, 0, 1),
     R("Reject", 1, 0, 1, 0, 2), R("Reject", 1, 1, 0, 0, 1),
     R("Throttling", 1, 2, 0, 3, 2), R("Throttling", 2, 0, 0, 3, 1), R("Throttling", 3, 0, 0, 3, 2)}

Symmetric == Permutations(Req)
=============================================================================
