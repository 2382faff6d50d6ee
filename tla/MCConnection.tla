----------------------------- MODULE MCConnection -----------------------------
(* Instances of Connection: Main and two callers that hold transactions.     *)
EXTENDS Connection

CONSTANTS main, c1, c2

MCCallers  == {main, c1, c2}
MCStorages == SqlAdapters
=============================================================================
