------------------------------ MODULE MCRbTree ------------------------------
(* my_rbtree with a handful of keys. *)
EXTENDS RbTree

(* A tree that only grows and shrinks, one with little memory, and one whose *)
(* elements live in a memory root and that takes every key once.             *)
MCOptions == {
    [is_delete |-> TRUE,  free |-> TRUE,  no_duplicates |-> FALSE, memory_limit |-> 0],
    [is_delete |-> TRUE,  free |-> TRUE,  no_duplicates |-> FALSE, memory_limit |-> 3],
    [is_delete |-> FALSE, free |-> FALSE, no_duplicates |-> TRUE,  memory_limit |-> 0]}
=============================================================================
