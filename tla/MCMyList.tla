------------------------------ MODULE MCMyList ------------------------------
(* my_list with a small memory. *)
EXTENDS MyList

(* The cells of memory differ in nothing. *)
Symmetry == Permutations(Cells)
=============================================================================
