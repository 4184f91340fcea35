------------------------------ MODULE MCShard ------------------------------
(* Instances of Shard for TLC. *)
EXTENDS Shard, TLC

Symmetry == Permutations(Writer) \union Permutations(Key)
=============================================================================
