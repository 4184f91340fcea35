--------------------------- MODULE MCPtMigration ---------------------------
(* Model-checking instances of PtMigration. *)
EXTENDS PtMigration, TLC

Symmetry == Permutations(Node)

=============================================================================
