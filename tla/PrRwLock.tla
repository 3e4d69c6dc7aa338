------------------------------ MODULE PrRwLock ------------------------------
(***************************************************************************)
(* rw_pr_lock_t (my_pr_rwlock.c): the read/write lock that prefers         *)
(* readers.  One mutex guards the fields and doubles as the write lock: a  *)
(* writer keeps it from rw_pr_wrlock to rw_pr_unlock.  Writers that find   *)
(* readers sleep on one condition variable.                                *)
(*                                                                         *)
(* pc[t] names the statement thread t executes next.  Everything between   *)
(* two statements another thread could observe is one step: the mutex is   *)
(* taken in a step of its own, active_writer is read without it.           *)
(***************************************************************************)
EXTENDS Integers, FiniteSets

CONSTANTS Threads, NoThread

ASSUME ThreadsAssumption == IsFiniteSet(Threads) /\ NoThread \notin Threads

VARIABLES mutex,                    \* owner of rwlock->lock, or NoThread
          active_readers,
          writers_waiting_readers,
          active_writer,
          pc,
          retirer,                  \* the thread that is about to destroy the lock
          exists                    \* FALSE from rw_pr_destroy to rw_pr_init

fields == <<active_readers, writers_waiting_readers, active_writer>>
life   == <<retirer, exists>>
vars   == <<mutex, active_readers, writers_waiting_readers, active_writer,
            pc, retirer, exists>>

\* The statements a thread executes while it owns the mutex.
OwnerPCs == {"rd_count", "rd_uncount", "wr_test", "wr_loop", "wr_wait",
             "writing", "wr_unlock", "release"}
\* The other ones: idle, in the caller, or waiting for mutex or condition.
FreePCs  == {"idle", "rd_lock", "reading", "rd_unlock", "wr_lock",
             "wr_sleep", "wr_relock"}
PCs      == OwnerPCs \cup FreePCs

(* The threads that hold the lock are those at ReaderPCs and WriterPCs. *)
ReaderPCs  == {"reading", "rd_unlock", "rd_uncount"}
WriterPCs  == {"writing", "wr_unlock"}
WaiterPCs  == {"wr_loop", "wr_wait", "wr_sleep", "wr_relock"}
LeavingPCs == {"idle", "rd_unlock", "rd_uncount", "wr_unlock", "release"}

At(P) == {t \in Threads : pc[t] \in P}
Sleepers == At({"wr_sleep"})

TypeOK == /\ mutex \in Threads \cup {NoThread}
          /\ active_readers \in Nat
          /\ writers_waiting_readers \in Nat
          /\ active_writer \in BOOLEAN
          /\ pc \in [Threads -> PCs]
          /\ retirer \in Threads \cup {NoThread}
          /\ exists \in BOOLEAN
-----------------------------------------------------------------------------
Goto(t, l) == pc' = [pc EXCEPT ![t] = l]

(* rw_pr_init: a fresh mutex and condition variable, nobody active. *)
Init == /\ mutex = NoThread
        /\ active_readers = 0
        /\ writers_waiting_readers = 0
        /\ active_writer = FALSE
        /\ pc = [t \in Threads |-> "idle"]
        /\ retirer = NoThread
        /\ exists = TRUE

(* pthread_mutex_lock and pthread_mutex_unlock. *)
Acquire(t, from, to) == /\ pc[t] = from
                        /\ mutex = NoThread
                        /\ mutex' = t
                        /\ Goto(t, to)
                        /\ UNCHANGED <<fields, life>>

Release(t) == /\ pc[t] = "release"
              /\ mutex' = NoThread
              /\ Goto(t, "idle")
              /\ UNCHANGED <<fields, life>>

(* Thread t goes on to l; if signal holds it first calls                   *)
(* pthread_cond_signal, which moves one sleeping writer, if there is one,  *)
(* to where it takes the mutex again.                                      *)
GotoSignalling(t, l, signal) ==
    IF signal /\ Sleepers # {}
      THEN \E s \in Sleepers : pc' = [pc EXCEPT ![t] = l, ![s] = "wr_relock"]
      ELSE Goto(t, l)

(* A condition wait may also return although nobody signalled. *)
SpuriousWakeup(t) == /\ pc[t] = "wr_sleep"
                     /\ Goto(t, "wr_relock")
                     /\ UNCHANGED <<mutex, fields, life>>

(* The callers' side of the contract: nobody asks for a lock that is being *)
(* destroyed or does not exist.                                            *)
MayCall == exists /\ retirer = NoThread

-----------------------------------------------------------------------------
(* rw_pr_rdlock *)
RdLock(t) == /\ pc[t] = "idle"
             /\ MayCall
             /\ Goto(t, "rd_lock")
             /\ UNCHANGED <<mutex, fields, life>>

(* Fault: new readers queue behind the writers that wait. *)
RdAcquireBehindWriters(t) == /\ writers_waiting_readers = 0
                             /\ Acquire(t, "rd_lock", "rd_count")

RdAcquire(t) == Acquire(t, "rd_lock", "rd_count")

RdCount(t) == /\ pc[t] = "rd_count"
              /\ active_readers' = active_readers + 1
              /\ mutex' = NoThread
              /\ Goto(t, "reading")
              /\ UNCHANGED <<writers_waiting_readers, active_writer, life>>

(* rw_pr_wrlock *)
WrLock(t) == /\ pc[t] = "idle"
             /\ MayCall
             /\ Goto(t, "wr_lock")
             /\ UNCHANGED <<mutex, fields, life>>

WrAcquire(t) == Acquire(t, "wr_lock", "wr_test")

(* The lock is granted with the mutex kept. *)
Grant(t) == /\ active_writer' = TRUE
            /\ Goto(t, "writing")
            /\ UNCHANGED <<mutex, active_readers, life>>

(* Fault: a writer that never waited leaves the waiting writers all the same. *)
WrTestFreeUncounts(t) == /\ pc[t] = "wr_test"
                         /\ active_readers = 0
                         /\ Grant(t)
                         /\ writers_waiting_readers' = writers_waiting_readers - 1

WrTestFree(t) == /\ pc[t] = "wr_test"
                 /\ active_readers = 0
                 /\ Grant(t)
                 /\ UNCHANGED writers_waiting_readers

WrTestBusy(t) == /\ pc[t] = "wr_test"
                 /\ active_readers # 0
                 /\ writers_waiting_readers' = writers_waiting_readers + 1
                 /\ Goto(t, "wr_loop")
                 /\ UNCHANGED <<mutex, active_readers, active_writer, life>>

(* Fault: "if" in place of "while", the condition is not tested again. *)
WrLoopDoneUntested(t) == /\ pc[t] = "wr_loop"
                         /\ writers_waiting_readers' = writers_waiting_readers - 1
                         /\ Grant(t)

WrLoopDone(t) == /\ pc[t] = "wr_loop"
                 /\ active_readers = 0
                 /\ writers_waiting_readers' = writers_waiting_readers - 1
                 /\ Grant(t)

WrLoopBusy(t) == /\ pc[t] = "wr_loop"
                 /\ active_readers # 0
                 /\ Goto(t, "wr_wait")
                 /\ UNCHANGED <<mutex, fields, life>>

(* pthread_cond_wait gives the mutex up and sleeps in one step. *)
WrWait(t) == /\ pc[t] = "wr_wait"
             /\ mutex' = NoThread
             /\ Goto(t, "wr_sleep")
             /\ UNCHANGED <<fields, life>>

WrReacquire(t) == Acquire(t, "wr_relock", "wr_loop")

-----------------------------------------------------------------------------
(* rw_pr_unlock: which lock is released is read from active_writer, without *)
(* the mutex.                                                               *)
Unlock(t) == /\ pc[t] \in {"reading", "writing"}
             /\ Goto(t, IF active_writer THEN "wr_unlock" ELSE "rd_unlock")
             /\ UNCHANGED <<mutex, fields, life>>

(* Fault: active_writer outlives the write lock. *)
WrUnlockKeepsFlag(t) ==
    /\ pc[t] = "wr_unlock"
    /\ GotoSignalling(t, "release", writers_waiting_readers # 0)
    /\ UNCHANGED <<mutex, fields, life>>

(* Fault: the end of a write lock wakes no writer. *)
WrUnlockSilent(t) ==
    /\ pc[t] = "wr_unlock"
    /\ active_writer' = FALSE
    /\ Goto(t, "release")
    /\ UNCHANGED <<mutex, active_readers, writers_waiting_readers, life>>

WrUnlock(t) == /\ pc[t] = "wr_unlock"
               /\ active_writer' = FALSE
               /\ GotoSignalling(t, "release", writers_waiting_readers # 0)
               /\ UNCHANGED <<mutex, active_readers, writers_waiting_readers, life>>

RdUnlockAcquire(t) == Acquire(t, "rd_unlock", "rd_uncount")

(* Fault: the mutex is released before the waiting writers are looked at. *)
RdUncountEarlyRelease(t) ==
    /\ pc[t] = "rd_uncount"
    /\ active_readers' = active_readers - 1
    /\ mutex' = NoThread
    /\ Goto(t, "release")
    /\ UNCHANGED <<writers_waiting_readers, active_writer, life>>

(* Fault: the last reader wakes no writer. *)
RdUncountSilent(t) ==
    /\ pc[t] = "rd_uncount"
    /\ active_readers' = active_readers - 1
    /\ Goto(t, "release")
    /\ UNCHANGED <<mutex, writers_waiting_readers, active_writer, life>>

RdUncount(t) ==
    /\ pc[t] = "rd_uncount"
    /\ active_readers' = active_readers - 1
    /\ GotoSignalling(t, "release",
                      active_readers = 1 /\ writers_waiting_readers # 0)
    /\ UNCHANGED <<mutex, writers_waiting_readers, active_writer, life>>

-----------------------------------------------------------------------------
(* A thread that holds the write lock decides to destroy the lock once it   *)
(* has released it.  By then no request may be pending (the callers'       *)
(* guarantee), but other threads may still be inside rw_pr_unlock.          *)
Retire(t) == /\ pc[t] = "writing"
             /\ MayCall
             /\ \A u \in Threads \ {t} : pc[u] \in LeavingPCs
             /\ retirer' = t
             /\ UNCHANGED <<mutex, fields, pc, exists>>

(* rw_pr_destroy, and rw_pr_init on the same memory later. *)
Destroy(t) == /\ retirer = t
              /\ pc[t] = "idle"
              /\ exists
              /\ exists' = FALSE
              /\ UNCHANGED <<mutex, fields, pc, retirer>>

ReInit(t) == /\ ~exists
             /\ retirer = t
             /\ mutex' = NoThread
             /\ active_readers' = 0
             /\ writers_waiting_readers' = 0
             /\ active_writer' = FALSE
             /\ retirer' = NoThread
             /\ exists' = TRUE
             /\ UNCHANGED pc

-----------------------------------------------------------------------------
(* The steps of a call that has begun: the scheduler runs them. *)
Inner(t) == \/ RdAcquire(t)       \/ RdCount(t)
            \/ WrAcquire(t)       \/ WrTestFree(t) \/ WrTestBusy(t)
            \/ WrLoopDone(t)      \/ WrLoopBusy(t) \/ WrWait(t) \/ WrReacquire(t)
            \/ WrUnlock(t)        \/ RdUnlockAcquire(t)
            \/ RdUncount(t)       \/ Release(t)

Next == \E t \in Threads : \/ Inner(t)
                           \/ RdLock(t) \/ WrLock(t) \/ Unlock(t)
                           \/ SpuriousWakeup(t)
                           \/ Retire(t) \/ Destroy(t) \/ ReInit(t)

Spec == Init /\ [][Next]_vars

(* Every call keeps running.  Whether a holder unlocks is the caller's      *)
(* choice: no fairness makes him do so.                                     *)
LiveSpec == Spec /\ \A t \in Threads : WF_vars(Inner(t))

HoldersUnlock == \A t \in Threads : WF_vars(Unlock(t))
-----------------------------------------------------------------------------
(* The lock excludes as promised: any number of readers or one writer, each *)
(* grant and each release being one step of RWLock (rw_pr_rdlock,           *)
(* rw_pr_wrlock and rw_pr_unlock together).  A thread holds the lock from   *)
(* the moment its call has recorded that until its unlock has undone it.    *)
Lock == INSTANCE RWLock WITH readers <- At(ReaderPCs), writers <- At(WriterPCs)

ImplementsRWLock == Lock!LockSpec

(* Never a reader beside a writer, nor two writers. *)
Exclusion == \A t, u \in Threads :
                 pc[t] \in WriterPCs /\ u # t => pc[u] \notin ReaderPCs \cup WriterPCs

(* rw_pr_unlock decides from active_writer, read without the mutex, which   *)
(* lock it releases: the reading of it is never stale, so that only the     *)
(* owner of the mutex unlocks it and only a reader takes it again.          *)
UnlockOwnsMutex == \A t \in Threads :
                       pc[t] \in {"wr_unlock", "release"} => mutex = t

(* A writer never sleeps on no_active_readers with nobody left to wake it:  *)
(* some reader or writer still holds the lock, or a writer already woken    *)
(* will take it (and signal in turn when it unlocks).                       *)
NoLostWakeup == Sleepers # {} => \/ At(ReaderPCs \cup WriterPCs) # {}
                                 \/ At({"wr_relock", "wr_loop"}) # {}

(* "The unlock operation should not access rwlock data after changing its   *)
(* state to unlocked": when the last user destroys the lock no other thread *)
(* has a step left in it, although it may have returned from nothing yet.   *)
DestroySafe == (retirer # NoThread /\ pc[retirer] = "idle")
                   => /\ \A t \in Threads : pc[t] = "idle"
                      /\ mutex = NoThread

-----------------------------------------------------------------------------
(* From some moment on callers ask for no more locks and conditions wake    *)
(* only who is signalled.  A mutex need not be fair, so that the steps of a *)
(* call are promised only that much: a waiting thread gets the mutex once   *)
(* nobody competes for it for ever.                                         *)
Quiescent == <>[][\A t \in Threads : /\ ~RdLock(t)
                                     /\ ~WrLock(t)
                                     /\ ~SpuriousWakeup(t)]_vars

(* Every writer that has called rw_pr_wrlock gets the lock, whatever number *)
(* of readers and writers it sleeps behind, when holders unlock.            *)
WritersGetIn == Quiescent /\ HoldersUnlock
                    => \A t \in Threads : pc[t] = "wr_lock" ~> pc[t] = "writing"

(* "They do not allow situations in which rwlock is rd-locked and there is  *)
(* a pending rd-lock which is blocked": a reader that asks while others     *)
(* read gets in, even if nobody ever unlocks and however many writers wait. *)
PendingReaderGetsIn ==
    Quiescent => \A t \in Threads :
        (pc[t] = "rd_lock" /\ active_readers > 0)
            ~> (pc[t] = "reading" \/ active_readers = 0)
=============================================================================
