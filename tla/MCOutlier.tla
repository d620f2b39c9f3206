----------------------------- MODULE MCOutlier -----------------------------
EXTENDS Outlier

CONSTANTS n1, n2, q1, q2

MCNode == {n1, n2}

\* A rule with and one without active recovery, for breakers of different rules.
Rule(active) == [active |-> active, percent |-> 50, breaker |-> active, valid |-> TRUE]
MCRules == {Rule(TRUE), Rule(FALSE)}

\* All nodes may be left out at once.
NoneKept == [Rule(TRUE) EXCEPT !.percent = 100]

From(r, nodes, up, senders, again, l, f) ==
    [rule |-> r, registry |-> nodes, up |-> up, clients |-> senders, retries |-> again,
     loads |-> l, flips |-> f]

\* Two nodes, one of them down, with one change of health; a client that retries; one node
\* that is down and probed; loads and clears while requests are under way; two requests at once.
MCStart ==
    {From(Rule(FALSE), {n1, n2}, {n1}, {q1}, FALSE, 0, 1),
     From(Rule(FALSE), {n1, n2}, {n2}, {q1}, TRUE, 0, 0),
     From(NoneKept, {n1}, {}, {q1}, FALSE, 0, 1),
     From(Rule(FALSE), {n1}, {n1}, {q1, q2}, FALSE, 1, 0),
     From(Rule(FALSE), {n1}, {n1}, {q1, q2}, FALSE, 0, 1)}
    \cup {From(Rule(a), {n1}, {n1}, {q1}, FALSE, 1, 1) : a \in BOOLEAN}
    \cup {From(Rule(FALSE), {n1}, {n1}, {q1}, FALSE, 2, 0)}
=============================================================================
