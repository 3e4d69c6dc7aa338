------------------------------ MODULE MyRwLock ------------------------------
(***************************************************************************)
(* my_rw_lock_t (my_rwlock.c), the portable implementation: used when the  *)
(* slim locks of Windows are not available (have_srwlock is FALSE).  It    *)
(* prefers writers.  A mutex guards the fields and is never kept between   *)
(* calls; readers and writers sleep on a condition variable each.          *)
(*                                                                         *)
(* pc[t] names the statement thread t executes next.  The mutex is taken   *)
(* in a step of its own; the last statement under it includes its release, *)
(* since no field is read without it.                                      *)
(***************************************************************************)
EXTENDS Integers, FiniteSets

CONSTANTS Threads, NoThread

ASSUME ThreadsAssumption == IsFiniteSet(Threads) /\ NoThread \notin Threads

VARIABLES mutex,      \* owner of rwlock->lock, or NoThread
          state,      \* -1: a writer, 0: free, > 0: so many readers
          waiters,    \* the number of waiting writers
          pc,
          exists      \* FALSE from my_rw_destroy to my_rw_init

vars == <<mutex, state, waiters, pc, exists>>

(* The statements executed with the mutex held. *)
OwnerPCs == {"rd_loop", "rd_wait", "tryrd_test", "wr_count", "wr_loop", "wr_wait",
             "trywr_test", "rd_release", "wr_release"}
FreePCs  == {"idle", "rd_lock", "rd_sleep", "rd_relock", "reading", "tryrd_lock",
             "wr_lock", "wr_sleep", "wr_relock", "writing", "trywr_lock",
             "rd_unlock", "wr_unlock"}
PCs      == OwnerPCs \cup FreePCs

(* The threads that hold the lock, and the writers counted in waiters. *)
ReaderPCs == {"reading", "rd_unlock", "rd_release"}
WriterPCs == {"writing", "wr_unlock", "wr_release"}
WaiterPCs == {"wr_loop", "wr_wait", "wr_sleep", "wr_relock"}

At(P) == {t \in Threads : pc[t] \in P}

TypeOK == /\ mutex \in Threads \cup {NoThread}
          /\ state \in Nat \cup {-1}
          /\ waiters \in Nat
          /\ pc \in [Threads -> PCs]
          /\ exists \in BOOLEAN
-----------------------------------------------------------------------------
Goto(t, l) == pc' = [pc EXCEPT ![t] = l]

(* my_rw_init *)
Init == /\ mutex = NoThread
        /\ state = 0
        /\ waiters = 0
        /\ pc = [t \in Threads |-> "idle"]
        /\ exists = TRUE

(* pthread_mutex_lock *)
Acquire(t, from, to) == /\ pc[t] = from
                        /\ mutex = NoThread
                        /\ mutex' = t
                        /\ Goto(t, to)
                        /\ UNCHANGED <<state, waiters, exists>>

(* pthread_cond_wait gives the mutex up and sleeps in one step. *)
Wait(t, from, sleep) == /\ pc[t] = from
                        /\ mutex' = NoThread
                        /\ Goto(t, sleep)
                        /\ UNCHANGED <<state, waiters, exists>>

(* Thread t returns from its call, having signalled nobody, one sleeping   *)
(* writer if there is one, or all the sleeping readers.                    *)
Return(t) == Goto(t, "idle")

ReturnSignallingWriter(t) ==
    IF At({"wr_sleep"}) = {}
      THEN Return(t)
      ELSE \E w \in At({"wr_sleep"}) :
               pc' = [pc EXCEPT ![t] = "idle", ![w] = "wr_relock"]

(* Fault: readers are signalled one at a time, or not at all. *)
ReturnSignallingReader(t) ==
    IF At({"rd_sleep"}) = {}
      THEN Return(t)
      ELSE \E r \in At({"rd_sleep"}) :
               pc' = [pc EXCEPT ![t] = "idle", ![r] = "rd_relock"]

ReturnWakingReaders(t) ==
    pc' = [u \in Threads |-> CASE u = t              -> "idle"
                               [] pc[u] = "rd_sleep" -> "rd_relock"
                               [] OTHER              -> pc[u]]

(* A condition wait may also return although nobody signalled. *)
SpuriousWakeup(t) == /\ \/ pc[t] = "rd_sleep" /\ Goto(t, "rd_relock")
                        \/ pc[t] = "wr_sleep" /\ Goto(t, "wr_relock")
                     /\ UNCHANGED <<mutex, state, waiters, exists>>

Call(t, from, to) == /\ pc[t] = from
                     /\ exists
                     /\ Goto(t, to)
                     /\ UNCHANGED <<mutex, state, waiters, exists>>

-----------------------------------------------------------------------------
(* my_rw_rdlock *)
RdLock(t)      == Call(t, "idle", "rd_lock")
RdAcquire(t)   == Acquire(t, "rd_lock", "rd_loop")
RdReacquire(t) == Acquire(t, "rd_relock", "rd_loop")
RdWait(t)      == Wait(t, "rd_wait", "rd_sleep")

(* Fault: queued writers do not keep readers out. *)
ReadersStayOutIfWritten == state < 0

(* Fault: an active writer does not keep readers out. *)
ReadersStayOutIfQueued == waiters # 0

(* A reader stays out while there is an active or a queued writer. *)
ReadersStayOut == state < 0 \/ waiters # 0

RdLoopBusy(t) == /\ pc[t] = "rd_loop"
                 /\ ReadersStayOut
                 /\ Goto(t, "rd_wait")
                 /\ UNCHANGED <<mutex, state, waiters, exists>>

GrantRead(t) == /\ state' = state + 1
                /\ mutex' = NoThread
                /\ Goto(t, "reading")
                /\ UNCHANGED <<waiters, exists>>

RdLoopDone(t) == pc[t] = "rd_loop" /\ ~ReadersStayOut /\ GrantRead(t)

(* my_rw_tryrdlock *)
TryRdLock(t)    == Call(t, "idle", "tryrd_lock")
TryRdAcquire(t) == Acquire(t, "tryrd_lock", "tryrd_test")
TryRdDone(t)    == pc[t] = "tryrd_test" /\ ~ReadersStayOut /\ GrantRead(t)

(* EBUSY *)
TryRdBusy(t) == /\ pc[t] = "tryrd_test"
                /\ ReadersStayOut
                /\ mutex' = NoThread
                /\ Return(t)
                /\ UNCHANGED <<state, waiters, exists>>

-----------------------------------------------------------------------------
(* my_rw_wrlock *)
WrLock(t)      == Call(t, "idle", "wr_lock")
WrAcquire(t)   == Acquire(t, "wr_lock", "wr_count")
WrReacquire(t) == Acquire(t, "wr_relock", "wr_loop")
WrWait(t)      == Wait(t, "wr_wait", "wr_sleep")

WrCount(t) == /\ pc[t] = "wr_count"
              /\ waiters' = waiters + 1
              /\ Goto(t, "wr_loop")
              /\ UNCHANGED <<mutex, state, exists>>

WrLoopBusy(t) == /\ pc[t] = "wr_loop"
                 /\ state # 0
                 /\ Goto(t, "wr_wait")
                 /\ UNCHANGED <<mutex, state, waiters, exists>>

GrantWrite(t) == /\ state' = -1
                 /\ mutex' = NoThread
                 /\ Goto(t, "writing")
                 /\ UNCHANGED exists

WrLoopDone(t) == /\ pc[t] = "wr_loop"
                 /\ state = 0
                 /\ waiters' = waiters - 1
                 /\ GrantWrite(t)

(* my_rw_trywrlock *)
TryWrLock(t)    == Call(t, "idle", "trywr_lock")
TryWrAcquire(t) == Acquire(t, "trywr_lock", "trywr_test")

(* Fault: readers do not keep a trylock for writing out. *)
TryWrDoneDespiteReaders(t) == /\ pc[t] = "trywr_test"
                              /\ state >= 0
                              /\ GrantWrite(t)
                              /\ UNCHANGED waiters

TryWrDone(t) == /\ pc[t] = "trywr_test"
                /\ state = 0
                /\ GrantWrite(t)
                /\ UNCHANGED waiters

(* EBUSY *)
TryWrBusy(t) == /\ pc[t] = "trywr_test"
                /\ state # 0
                /\ mutex' = NoThread
                /\ Return(t)
                /\ UNCHANGED <<state, waiters, exists>>

-----------------------------------------------------------------------------
(* my_rw_unlock.  Reader and writer execute the same statements: which lock *)
(* is released is read from state, the pc only remembers what the caller    *)
(* holds.                                                                   *)
Unlock(t) == Call(t, "reading", "rd_unlock") \/ Call(t, "writing", "wr_unlock")

UnlockAcquire(t) == \/ Acquire(t, "rd_unlock", "rd_release")
                    \/ Acquire(t, "wr_unlock", "wr_release")

Releasing(t) == pc[t] \in {"rd_release", "wr_release"}

UnlockWriter(t) == /\ Releasing(t)
                   /\ state = -1
                   /\ state' = 0
                   /\ IF waiters # 0 THEN ReturnSignallingWriter(t)
                                     ELSE ReturnWakingReaders(t)
                   /\ mutex' = NoThread
                   /\ UNCHANGED <<waiters, exists>>

(* Fault: state is compared with 0 before it is decremented. *)
UnlockReaderTestsFirst(t) ==
    /\ Releasing(t)
    /\ state # -1
    /\ state' = state - 1
    /\ IF state = 0 /\ waiters # 0 THEN ReturnSignallingWriter(t)
                                   ELSE Return(t)
    /\ mutex' = NoThread
    /\ UNCHANGED <<waiters, exists>>

UnlockReader(t) == /\ Releasing(t)
                   /\ state # -1
                   /\ state' = state - 1
                   /\ IF state = 1 /\ waiters # 0 THEN ReturnSignallingWriter(t)
                                                  ELSE Return(t)
                   /\ mutex' = NoThread
                   /\ UNCHANGED <<waiters, exists>>

-----------------------------------------------------------------------------
(* my_rw_destroy, called when nobody uses the lock any more, and my_rw_init *)
(* on the same memory later.                                                *)
Destroy == /\ exists
           /\ \A t \in Threads : pc[t] = "idle"
           /\ exists' = FALSE
           /\ UNCHANGED <<mutex, state, waiters, pc>>

ReInit == /\ ~exists
          /\ mutex' = NoThread
          /\ state' = 0
          /\ waiters' = 0
          /\ exists' = TRUE
          /\ UNCHANGED pc

-----------------------------------------------------------------------------
(* The steps of a call that has begun: the scheduler runs them. *)
Inner(t) == \/ RdAcquire(t)     \/ RdReacquire(t)  \/ RdWait(t)
            \/ RdLoopBusy(t)    \/ RdLoopDone(t)
            \/ TryRdAcquire(t)  \/ TryRdDone(t)    \/ TryRdBusy(t)
            \/ WrAcquire(t)     \/ WrReacquire(t)  \/ WrWait(t)
            \/ WrCount(t)       \/ WrLoopBusy(t)   \/ WrLoopDone(t)
            \/ TryWrAcquire(t)  \/ TryWrDone(t)    \/ TryWrBusy(t)
            \/ UnlockAcquire(t) \/ UnlockWriter(t) \/ UnlockReader(t)

Next == \/ \E t \in Threads : \/ Inner(t)
                              \/ RdLock(t) \/ TryRdLock(t) \/ WrLock(t) \/ TryWrLock(t)
                              \/ Unlock(t) \/ SpuriousWakeup(t)
        \/ Destroy
        \/ ReInit

Spec == Init /\ [][Next]_vars
-----------------------------------------------------------------------------
(* The asserts on state hold.  my_rw_unlock finds the lock its caller holds  *)
(* (state # 0), and once every call has returned the lock is as my_rw_init  *)
(* left it: my_rw_destroy asserts state = 0, and no writer is left over in  *)
(* the count to keep readers out for ever.                                  *)
AssertsHold == /\ \A t \in Threads : /\ pc[t] = "rd_release" => state > 0
                                     /\ pc[t] = "wr_release" => state = -1
               /\ At({"idle"}) = Threads => state = 0 /\ waiters = 0 /\ mutex = NoThread

(* Nobody sleeps with nobody left to wake him.  For a writer the lock is    *)
(* held, or a writer that is awake will take it and signal when it unlocks; *)
(* for a reader there is a writer, active or queued, the last of which      *)
(* wakes all readers.                                                       *)
NobodyStranded ==
    /\ At({"wr_sleep"}) # {} => state # 0 \/ At({"wr_relock", "wr_loop"}) # {}
    /\ At({"rd_sleep"}) # {} => ReadersStayOut

-----------------------------------------------------------------------------
(* Conditions wake only who is signalled, and callers stop competing for    *)
(* the mutex: it need not be fair.                                          *)
Calm(t) == ~TryRdLock(t) /\ ~TryWrLock(t) /\ ~SpuriousWakeup(t)

(* A writer that has queued gets the lock although readers keep coming: it  *)
(* is enough that no further writer and no trylock arrives.                 *)
QueuedWriterGetsIn ==
    <>[][\A t \in Threads : Calm(t) /\ ~WrLock(t)]_vars
        => \A t \in Threads : pc[t] \in WaiterPCs ~> pc[t] = "writing"

(* Everybody who asked gets the lock when no more requests come.            *)
EverybodyGetsIn ==
    <>[][\A t \in Threads : Calm(t) /\ ~WrLock(t) /\ ~RdLock(t)]_vars
        => \A t \in Threads : /\ pc[t] = "rd_lock" ~> pc[t] = "reading"
                              /\ pc[t] = "wr_lock" ~> pc[t] = "writing"
=============================================================================
