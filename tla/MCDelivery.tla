---------------------------- MODULE MCDelivery ----------------------------
(* A small instance of Delivery: three entries in pages of one, two        *)
(* versions of the dataset and of each entry.                              *)
EXTENDS Delivery

Ids == 1..3
=============================================================================
