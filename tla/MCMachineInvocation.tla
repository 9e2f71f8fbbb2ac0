----------------------- MODULE MCMachineInvocation -----------------------
(***************************************************************************)
(* A small instance of MachineInvocation: two tenants, whose LLM           *)
(* operations go on side by side, an entry of the first, a quota of one,   *)
(* two handlers.                                                           *)
(***************************************************************************)
EXTENDS MachineInvocation, TLC

CONSTANTS t1, t2, e1

OwnerOf == e1 :> t1

Interchangeable == Permutations(Handlers)
=============================================================================
