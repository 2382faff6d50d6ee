-------------------------- MODULE MCSchemaEvolution --------------------------
(* SchemaEvolution for TLC: an older program and a newer one.               *)
EXTENDS SchemaEvolution, TLC

CONSTANTS old, new, name, mail

Text(nullable)   == [type |-> "text", nullable |-> nullable, unique |-> FALSE, default |-> None]
UniqueName       == [type |-> "varchar", nullable |-> FALSE, unique |-> TRUE, default |-> None]
DefaultedMail    == [type |-> "varchar", nullable |-> FALSE, unique |-> FALSE, default |-> "plain"]

MCDeclared ==
  (old :> (name :> UniqueName)) @@ (new :> (name :> UniqueName @@ mail :> DefaultedMail))

MCAltered ==
  {Text(TRUE), Text(FALSE),
   [type |-> "boolean", nullable |-> TRUE, unique |-> FALSE, default |-> None]}
MCAdapters == AllAdapters
=============================================================================
