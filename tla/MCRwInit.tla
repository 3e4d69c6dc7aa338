------------------------------ MODULE MCRwInit ------------------------------
(* my_rw_init and my_pthread_once with a few threads and each Windows. *)
EXTENDS RwInit
=============================================================================
