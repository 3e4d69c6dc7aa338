------------------------------- MODULE RWLock -------------------------------
(***************************************************************************)
(* What every read/write lock of the library promises its callers: any     *)
(* number of readers or one writer.  rw_pr_lock_t, the portable            *)
(* my_rw_lock_t and the slim (SRW) my_rw_lock_t are each shown to          *)
(* implement this specification.  How a lock chooses between waiting       *)
(* threads is not part of it.                                              *)
(***************************************************************************)
CONSTANT Threads

VARIABLES readers,   \* the threads that hold the lock for reading
          writers    \* the threads that hold the lock for writing

lockVars == <<readers, writers>>

LockTypeOK == /\ readers \subseteq Threads
              /\ writers \subseteq Threads

LockInit == readers = {} /\ writers = {}

AcquireRead(t) ==
    /\ t \notin readers
    /\ writers = {}
    /\ readers' = readers \cup {t}
    /\ UNCHANGED writers

AcquireWrite(t) ==
    /\ readers = {}
    /\ writers = {}
    /\ writers' = {t}
    /\ UNCHANGED readers

ReleaseRead(t) ==
    /\ t \in readers
    /\ readers' = readers \ {t}
    /\ UNCHANGED writers

ReleaseWrite(t) ==
    /\ writers = {t}
    /\ writers' = {}
    /\ UNCHANGED readers

LockNext == \E t \in Threads : \/ AcquireRead(t)
                               \/ AcquireWrite(t)
                               \/ ReleaseRead(t)
                               \/ ReleaseWrite(t)

LockSpec == LockInit /\ [][LockNext]_lockVars
=============================================================================
