------------------------------ MODULE MCUpkeep ------------------------------
(* Upkeep for TLC: the clients are interchangeable. *)
EXTENDS Upkeep, TLC

ClientSymmetry == Permutations(Clients)
=============================================================================
