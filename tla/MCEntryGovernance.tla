------------------------ MODULE MCEntryGovernance ------------------------
(***************************************************************************)
(* Small instances of EntryGovernance.                                     *)
(***************************************************************************)
EXTENDS EntryGovernance, TLC

\* Handlers differ in nothing but their name, and so do contents.
Interchangeable == Permutations(Handlers) \union Permutations(Contents)
=============================================================================
