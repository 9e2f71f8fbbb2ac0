-------------------------- MODULE MCSchemaCache --------------------------
(***************************************************************************)
(* A small instance of SchemaCache: two schemas, so that an edit can fall  *)
(* between the reads of two files, and two lookups at once.                *)
(***************************************************************************)
EXTENDS SchemaCache, TLC

Interchangeable == Permutations(Readers) \union Permutations(Uris)
=============================================================================
