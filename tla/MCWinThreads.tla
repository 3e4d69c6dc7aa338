---------------------------- MODULE MCWinThreads ----------------------------
(* Two users and up to two threads, for which there are two ids. *)
EXTENDS WinThreads
=============================================================================
