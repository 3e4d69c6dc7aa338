----------------------------- MODULE MCDynHash -----------------------------
(* my_dyn_hash with few records, which are interchangeable. *)
EXTENDS DynHash, TLC

Symmetry == Permutations(Records)
=============================================================================
