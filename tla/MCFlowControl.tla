--------------------------- MODULE MCFlowControl ---------------------------
(* Small rules for FlowControl: every calculator with every checker.         *)
EXTENDS FlowControl, TLC

Base == [calc |-> "Direct", check |-> "Reject", threshold |-> 2, maxQueue |-> 2,
         period |-> 1, cold |-> 2, floor |-> 1, lowMark |-> 1, highMark |-> 3]
WarmUp == [Base EXCEPT !.calc = "WarmUp", !.threshold = 4]
Memory == [Base EXCEPT !.calc = "MemoryAdaptive"]

MCRules ==
    {Base, WarmUp, Memory,
     [Base EXCEPT !.check = "Throttling"], [WarmUp EXCEPT !.check = "Throttling"]}

MCMems == {-1, 1, 2, 3}

Symmetry == Permutations(Req)
=============================================================================
