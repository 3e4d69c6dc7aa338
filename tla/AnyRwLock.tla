----------------------------- MODULE AnyRwLock -----------------------------
(***************************************************************************)
(* my_rw_lock_t (my_rwlock.c) as its callers see it on Windows: each of    *)
(* my_rw_rdlock, my_rw_tryrdlock, my_rw_wrlock, my_rw_trywrlock and        *)
(* my_rw_unlock tests have_srwlock and goes on with the slim lock          *)
(* (SrwRwLock) or with the portable one (MyRwLock).  have_srwlock has been *)
(* decided before the lock was made and stays (RwInit).  The two share a   *)
(* union in the code; here each has variables of its own.                  *)
(***************************************************************************)
EXTENDS MyRwLock

VARIABLES srwlock, have_exclusive_srwlock, have_srwlock

Slim == INSTANCE SrwRwLock

slimFields     == <<srwlock, have_exclusive_srwlock>>
portableFields == <<mutex, state, waiters, exists>>
anyVars        == <<pc, portableFields, slimFields, have_srwlock>>

AnyTypeOK == /\ have_srwlock \in BOOLEAN
             /\ IF have_srwlock THEN Slim!TypeOK ELSE TypeOK

AnyInit == /\ have_srwlock \in BOOLEAN
           /\ Init
           /\ Slim!Init

OnPortable == /\ ~have_srwlock
              /\ Next
              /\ UNCHANGED <<slimFields, have_srwlock>>

OnSlim == /\ have_srwlock
          /\ Slim!Next
          /\ UNCHANGED <<portableFields, have_srwlock>>

AnySpec == AnyInit /\ [][OnPortable \/ OnSlim]_anyVars

(* Every call of the portable lock keeps running and every holder unlocks.  *)
(* Of the system's slim lock nothing is known but that it excludes.         *)
AnyLiveSpec == AnySpec /\ \A t \in Threads :
                              /\ WF_vars(~have_srwlock /\ Inner(t))
                              /\ WF_vars(~have_srwlock /\ Unlock(t))
-----------------------------------------------------------------------------
(* Whichever lock it is, it excludes as promised: any number of readers or  *)
(* one writer, each grant and each release of rdlock, tryrdlock, wrlock,    *)
(* trywrlock and unlock being one step of RWLock.                           *)
Lock == INSTANCE RWLock WITH readers <- At(ReaderPCs \cup Slim!ReaderPCs),
                             writers <- At(WriterPCs \cup Slim!WriterPCs)

ImplementsRWLock == Lock!LockSpec

(* The variables have their types, and a thread about to release the slim   *)
(* lock releases it in the mode the lock is in: releasing the other way is  *)
(* undefined.  In particular a flag left set, or set too early, would make  *)
(* a reader release exclusively.                                            *)
ReleasesHeldMode ==
    /\ AnyTypeOK
    /\ \A t \in Threads :
           /\ pc[t] = "release_shared" => srwlock > 0
           /\ pc[t] \in {"clear_flag", "release_exclusive"} => srwlock = -1
=============================================================================
