---------------------------- MODULE MCAnyRwLock ----------------------------
(* my_rw_lock_t with a small set of threads. *)
EXTENDS AnyRwLock
=============================================================================
