---------------------------- MODULE MCTokenLimit ----------------------------
(* A fixed window for both resources and a PETA limit for one of them.        *)
EXTENDS TokenLimit

MCRules == [chat |-> {{"fixed"}, {"peta"}}, embed |-> {{"fixed"}}]
MCStrategy == [k \in {"fixed", "peta"} |-> k]
MCCountStrategy == [fixed |-> "total", peta |-> "input"]
MCTokenSize == [fixed |-> 1, peta |-> 2]
MCTimeWindow == [fixed |-> 1, peta |-> 2]
MCUsages == {[input |-> 1, output |-> 0], [input |-> 4, output |-> 0]}
Symmetry == Permutations(Request)
=============================================================================
