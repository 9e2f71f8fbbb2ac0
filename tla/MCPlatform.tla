--------------------------- MODULE MCPlatform ---------------------------
(***************************************************************************)
(* A small instance of Platform: two organisations, the one of the start   *)
(* and one that is created; two names, either of which a start may ask for *)
(* as that of the administrator; two official services.                    *)
(***************************************************************************)
EXTENDS Platform, TLC

Interchangeable ==
    Permutations(Handlers) \union Permutations(Secrets) \union Permutations(Names)
=============================================================================
