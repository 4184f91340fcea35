------------------------------- MODULE MCDBPT -------------------------------
(* Model-checking instance of DBPT. *)
EXTENDS DBPT, TLC

Symmetry == Permutations(User) \cup Permutations(Mig) \cup Permutations(Shard)

=============================================================================
