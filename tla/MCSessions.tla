--------------------------- MODULE MCSessions ---------------------------
(***************************************************************************)
(* Small instances of Sessions: time passes the life of an access token    *)
(* several times and that of a refresh token once.                         *)
(***************************************************************************)
EXTENDS Sessions, TLC

Interchangeable == Permutations(Handlers) \union Permutations(Roles) \union Permutations(Users)
=============================================================================
