----------------------------- MODULE MCPrRwLock -----------------------------
(* rw_pr_lock_t with a small set of threads. *)
EXTENDS PrRwLock
=============================================================================
