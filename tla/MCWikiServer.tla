---------------------------- MODULE MCWikiServer ----------------------------
(* WikiServer for TLC: two people who want the same name.                   *)
EXTENDS WikiServer, TLC

CONSTANTS n, e1, e2, p1, p2

MCSignups == {[name |-> n, email |-> e1, password |-> p1],
              [name |-> n, email |-> e2, password |-> p2]}

\* Bound: one session ends, the other goes on.
OneEnds == \A s \in expired \cup ended : expired \cup ended = {s}

Symmetry == Permutations(Tabs) \cup Permutations(UserIds)
            \cup Permutations(SessionIds) \cup Permutations(PageIds)
=============================================================================
