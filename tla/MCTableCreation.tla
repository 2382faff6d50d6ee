--------------------------- MODULE MCTableCreation ---------------------------
(* TableCreation for TLC: two programs, three tables.                       *)
EXTENDS TableCreation, TLC

CONSTANTS p1, p2, t1, t2, t3

MCPrograms == {p1, p2}
MCTables   == {t1, t2, t3}
MCAdapters == AllAdapters

\* SQL Server and Oracle cannot index the unique column of t3.
MixedUnique == (t1 :> "integer") @@ (t2 :> "none") @@ (t3 :> "varchar")
=============================================================================
