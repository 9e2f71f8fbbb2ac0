----------------------- MODULE MCDatasetGovernance -----------------------
(***************************************************************************)
(* Small instances of DatasetGovernance.                                   *)
(***************************************************************************)
EXTENDS DatasetGovernance, TLC

\* Handlers differ in nothing but their name.
Interchangeable == Permutations(Handlers)
=============================================================================
