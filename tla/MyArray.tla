------------------------------ MODULE MyArray ------------------------------
(***************************************************************************)
(* my_array (my_array.c), as far as my_dyn_hash uses it: a buffer that     *)
(* grows by increment elements when it is full, or stays as it is when     *)
(* there is no memory for that.  It never shrinks.  What the elements hold *)
(* is up to the user of the array.                                         *)
(***************************************************************************)
EXTENDS Integers

CONSTANTS InitialNumber, Increment

ASSUME MyArrayAssumption == InitialNumber \in Nat /\ Increment \in Nat \ {0}

VARIABLES elements,     \* how many are in use
          number        \* for how many there is memory

arrayVars == <<elements, number>>

(* my_array_init.  Without memory the array has none, but is usable.        *)
ArrayInit(e, n) == /\ e = 0
                   /\ n \in {0, IF InitialNumber = 0 THEN Increment ELSE InitialNumber}

(* Whether my_array_alloc depends on more memory. *)
Full == elements = number

(* my_array_alloc, and my_array_pop *)
Alloc == /\ elements' = elements + 1
         /\ number' = IF Full THEN number + Increment ELSE number

Pop == /\ elements' = IF elements > 0 THEN elements - 1 ELSE elements
       /\ UNCHANGED number

(* my_array_reset, and my_array_uninit, which frees the buffer if it has one. *)
Reset == elements' = 0 /\ UNCHANGED number

Uninit == /\ number' = 0
          /\ elements' = IF number > 0 THEN 0 ELSE elements
=============================================================================
