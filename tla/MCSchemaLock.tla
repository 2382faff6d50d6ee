----------------------------- MODULE MCSchemaLock -----------------------------
(* SchemaLock for TLC. Neither goroutines nor tables are made symmetric, for *)
(* both runs check liveness.                                                 *)
EXTENDS SchemaLock
=============================================================================
