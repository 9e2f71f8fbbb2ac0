-------------------------- MODULE MCWriteback --------------------------
(***************************************************************************)
(* Small instances of Writeback: two events, one of them without failure   *)
(* details, two target datasets, and three deliveries, so that one event   *)
(* is delivered again while its first task is still at work.               *)
(***************************************************************************)
EXTENDS Writeback, TLC

CONSTANTS e1, e2

MCFailureType == (e1 :> "enforce_violation") @@ (e2 :> None)
=============================================================================
