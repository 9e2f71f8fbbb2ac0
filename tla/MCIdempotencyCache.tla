----------------------- MODULE MCIdempotencyCache ------------------------
(***************************************************************************)
(* Small instances of IdempotencyCache: the clock passes the in-flight     *)
(* limit several times and the life of an entry twice.                     *)
(***************************************************************************)
EXTENDS IdempotencyCache, TLC

Interchangeable == Permutations(Tasks) \union Permutations(Bodies)
=============================================================================
