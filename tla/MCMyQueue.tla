----------------------------- MODULE MCMyQueue -----------------------------
(* my_queue with few keys and small arrays. *)
EXTENDS MyQueue
=============================================================================
