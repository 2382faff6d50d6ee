----------------------------- MODULE MCS3Storage -----------------------------
(* S3Storage for TLC: the objects callers store.                            *)
EXTENDS S3Storage

CONSTANTS v, w, a, b    \* two columns and two values

\* Objects whose Fields repeat their ID under "id": one with a value in both
\* columns, and one that leaves a column out.
MCWhole   == [f |-> [x \in {v, w} |-> a], named |-> TRUE]
MCPartial == [f |-> [x \in {v} |-> b], named |-> TRUE]
MCWrites  == {MCWhole, MCPartial}

\* For two callers: one column, one value.
MCShared == {[f |-> [x \in {v} |-> a], named |-> TRUE]}
=============================================================================
