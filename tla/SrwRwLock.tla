----------------------------- MODULE SrwRwLock -----------------------------
(***************************************************************************)
(* my_rw_lock_t (my_rwlock.c) on top of a slim reader/writer lock of       *)
(* Windows.  A slim lock must be released in the mode it is held in, but   *)
(* my_rw_unlock does not say which: srw_unlock looks it up in              *)
(* have_exclusive_srwlock, a field that only the slim lock protects.       *)
(***************************************************************************)
EXTENDS Integers, FiniteSets

CONSTANT Threads

VARIABLES srwlock,                 \* the system's lock: -1 exclusive, else sharers
          have_exclusive_srwlock,
          pc

vars == <<srwlock, have_exclusive_srwlock, pc>>

ReaderPCs == {"reading", "release_shared"}
WriterPCs == {"set_flag", "writing", "clear_flag", "release_exclusive"}
PCs == ReaderPCs \cup WriterPCs \cup
       {"idle", "rdlock", "tryrdlock", "wrlock", "trywrlock"}

At(P) == {t \in Threads : pc[t] \in P}

TypeOK == /\ srwlock \in -1 .. Cardinality(Threads)
          /\ have_exclusive_srwlock \in BOOLEAN
          /\ pc \in [Threads -> PCs]

Goto(t, from, to) == pc[t] = from /\ pc' = [pc EXCEPT ![t] = to]

-----------------------------------------------------------------------------
(* The system's slim lock, through its function pointers.  It does not      *)
(* check how it is released: in the wrong mode its state goes wrong.        *)
AcquireShared    == srwlock >= 0 /\ srwlock' = srwlock + 1
AcquireExclusive == srwlock = 0  /\ srwlock' = -1
ReleaseShared    == srwlock' = srwlock - 1
ReleaseExclusive == srwlock' = srwlock + 1

(* srw_init *)
Init == /\ srwlock = 0
        /\ have_exclusive_srwlock = FALSE
        /\ pc = [t \in Threads |-> "idle"]

(* my_rw_rdlock, my_rw_tryrdlock, my_rw_wrlock and my_rw_trywrlock call     *)
(* their slim counterparts.                                                 *)
Call(t) == /\ \E f \in {"rdlock", "tryrdlock", "wrlock", "trywrlock"} : Goto(t, "idle", f)
           /\ UNCHANGED <<srwlock, have_exclusive_srwlock>>

SrwRdLock(t) == /\ Goto(t, "rdlock", "reading")
                /\ AcquireShared
                /\ UNCHANGED have_exclusive_srwlock

SrwTryRdLock(t) == /\ Goto(t, "tryrdlock", "reading")
                   /\ AcquireShared
                   /\ UNCHANGED have_exclusive_srwlock

(* The flag is set after the lock has been acquired. *)
SrwWrLock(t) == /\ Goto(t, "wrlock", "set_flag")
                /\ AcquireExclusive
                /\ UNCHANGED have_exclusive_srwlock

SrwTryWrLock(t) == /\ Goto(t, "trywrlock", "set_flag")
                   /\ AcquireExclusive
                   /\ UNCHANGED have_exclusive_srwlock

SetFlag(t) == /\ Goto(t, "set_flag", "writing")
              /\ have_exclusive_srwlock' = TRUE
              /\ UNCHANGED srwlock

(* EBUSY *)
SrwTryBusy(t) == /\ \/ srwlock = -1 /\ Goto(t, "tryrdlock", "idle")
                    \/ srwlock # 0  /\ Goto(t, "trywrlock", "idle")
                 /\ UNCHANGED <<srwlock, have_exclusive_srwlock>>

-----------------------------------------------------------------------------
(* srw_unlock: the test of the flag, and one branch or the other. *)
SrwUnlock(t) ==
    /\ pc[t] \in {"reading", "writing"}
    /\ Goto(t, pc[t], IF have_exclusive_srwlock THEN "clear_flag" ELSE "release_shared")
    /\ UNCHANGED <<srwlock, have_exclusive_srwlock>>

(* Fault: the flag outlives the exclusive lock. *)
ClearFlagForgotten(t) == /\ Goto(t, "clear_flag", "release_exclusive")
                         /\ UNCHANGED <<srwlock, have_exclusive_srwlock>>

ClearFlag(t) == /\ Goto(t, "clear_flag", "release_exclusive")
                /\ have_exclusive_srwlock' = FALSE
                /\ UNCHANGED srwlock

SrwReleaseExclusive(t) == /\ Goto(t, "release_exclusive", "idle")
                          /\ ReleaseExclusive
                          /\ UNCHANGED have_exclusive_srwlock

SrwReleaseShared(t) == /\ Goto(t, "release_shared", "idle")
                       /\ ReleaseShared
                       /\ UNCHANGED have_exclusive_srwlock

Next == \E t \in Threads :
            \/ Call(t)
            \/ SrwRdLock(t) \/ SrwTryRdLock(t) \/ SrwWrLock(t) \/ SrwTryWrLock(t)
            \/ SetFlag(t)   \/ SrwTryBusy(t)
            \/ SrwUnlock(t) \/ ClearFlag(t)
            \/ SrwReleaseExclusive(t) \/ SrwReleaseShared(t)

Spec == Init /\ [][Next]_vars
=============================================================================
