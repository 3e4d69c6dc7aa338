------------------------------ MODULE MCMyHash ------------------------------
(* my_hash with a small memory, whose cells differ in nothing. *)
EXTENDS MyHash, TLC

Symmetry == Permutations(Cells)
=============================================================================
