---------------------------- MODULE MCSqlStorage ----------------------------
(* SqlStorage for TLC: which adapters, which rows callers write, symmetry.  *)
EXTENDS SqlStorage, TLC

CONSTANTS k, v, a    \* a unique column, an ordinary one, and a value

\* Each write leaves one column alone or clears it, so that replacing a row
\* and merging into it differ; two objects with k = a collide.
MCWrites == {[x \in {k} |-> a], [x \in {v} |-> a], [x \in {k, v} |-> IF x = k THEN Null ELSE a]}

\* What a call returned decides nothing that happens later: without this view,
\* each state is there once for every return that can lead to it. TLC does not
\* look at a step that changes nothing, a call that returns what the state has
\* in last; of the two states that are told apart here, one shows each call.
MCView == <<db, rows, ws, tx, pend, last # None /\ last.call = "Begin">>

MCSymmetry == Permutations(Callers) \cup Permutations(Ids)
=============================================================================
