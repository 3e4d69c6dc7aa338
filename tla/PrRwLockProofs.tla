--------------------------- MODULE PrRwLockProofs ---------------------------
(***************************************************************************)
(* rw_pr_lock_t for every set of threads: its safety invariants hold and   *)
(* it implements RWLock.  All of it rests on one inductive invariant,      *)
(* IInv, which says who owns the mutex, what the two counters count and    *)
(* what the fields mean for the threads.                                   *)
(***************************************************************************)
EXTENDS PrRwLock, ProofLemmas

-----------------------------------------------------------------------------
(* The inductive invariant. *)

(* The mutex is owned by the thread that is in a critical section. *)
MutexInv == \A t \in Threads : pc[t] \in OwnerPCs <=> mutex = t

(* The counters count the readers and the writers that wait. *)
CountInv == /\ active_readers = Cardinality(At(ReaderPCs))
            /\ writers_waiting_readers = Cardinality(At(WaiterPCs))

(* active_writer says whether there is a writer, and then nobody reads; a  *)
(* writer goes to sleep because somebody does.                             *)
WriterInv == /\ active_writer <=> \E t \in Threads : pc[t] \in WriterPCs
             /\ active_writer => active_readers = 0
             /\ \A t \in Threads : pc[t] = "wr_wait" => active_readers # 0

(* A lock that is being destroyed has one user left. *)
LifeInv == /\ retirer # NoThread =>
                 /\ pc[retirer] \in {"writing", "wr_unlock", "release", "idle"}
                 /\ \A u \in Threads \ {retirer} : pc[u] = "idle"
           /\ ~exists => retirer # NoThread /\ pc[retirer] = "idle"

IInv == TypeOK /\ MutexInv /\ CountInv /\ WriterInv /\ LifeInv /\ NoLostWakeup

-----------------------------------------------------------------------------
(* A step of t to l, with or without a signal, moves t; the signalled       *)
(* writer goes on waiting, from one statement of its wait to the next.      *)
LEMMA Signalled ==
    ASSUME TypeOK, NEW t \in Threads, NEW l \in PCs, NEW signal,
           GotoSignalling(t, l, signal), pc[t] # "wr_sleep"
    PROVE  /\ pc' \in [Threads -> PCs]
           /\ pc'[t] = l
           /\ \A u \in Threads \ {t} :
                 \/ pc'[u] = pc[u]
                 \/ pc[u] = "wr_sleep" /\ pc'[u] = "wr_relock"
           /\ signal => \/ \A u \in Threads \ {t} : pc[u] # "wr_sleep"
                        \/ \E u \in Threads : pc'[u] = "wr_relock"
<1>1. pc \in [Threads -> PCs]
  BY DEF TypeOK
<1>2. CASE signal /\ Sleepers # {}
  <2>1. PICK s \in Sleepers : pc' = [pc EXCEPT ![t] = l, ![s] = "wr_relock"]
    BY <1>2 DEF GotoSignalling
  <2>2. s \in Threads /\ s # t /\ pc[s] = "wr_sleep"
    BY <2>1 DEF Sleepers, At
  <2> QED
    BY <1>1, <2>1, <2>2 DEF PCs, FreePCs
<1>3. CASE ~(signal /\ Sleepers # {})
  <2>1. pc' = [pc EXCEPT ![t] = l]
    BY <1>3 DEF GotoSignalling, Goto
  <2>2. signal => \A u \in Threads : pc[u] # "wr_sleep"
    BY <1>3 DEF Sleepers, At
  <2> QED
    BY <1>1, <2>1, <2>2
<1> QED
  BY <1>2, <1>3
-----------------------------------------------------------------------------
(* What IInv says of the counters, thread by thread. *)
LEMMA CountMeaning ==
    ASSUME CountInv
    PROVE  /\ active_readers \in Nat
           /\ writers_waiting_readers \in Nat
           /\ active_readers = 0 <=> \A t \in Threads : pc[t] \notin ReaderPCs
           /\ writers_waiting_readers = 0 <=> \A t \in Threads : pc[t] \notin WaiterPCs
BY WhereCount, ThreadsAssumption DEF CountInv, At, Where

(* The initial state. *)
LEMMA InitIInv == Init => IInv
<1> SUFFICES ASSUME Init PROVE IInv
  OBVIOUS
<1>1. TypeOK /\ MutexInv /\ WriterInv /\ LifeInv /\ NoLostWakeup
  BY ThreadsAssumption
     DEF Init, TypeOK, MutexInv, WriterInv, LifeInv, NoLostWakeup, Sleepers, At,
         PCs, OwnerPCs, FreePCs, WriterPCs
<1>2. CountInv
  <2>1. At(ReaderPCs) = {} /\ At(WaiterPCs) = {}
    BY DEF Init, At, ReaderPCs, WaiterPCs
  <2> QED
    BY <2>1, FS_EmptySet DEF CountInv, Init
<1> QED
  BY <1>1, <1>2 DEF IInv
-----------------------------------------------------------------------------
(* Every step is the step of one thread t: the others stay where they are,  *)
(* but for a sleeping writer that t has signalled.                          *)
Moved(t) == /\ pc' \in [Threads -> PCs]
            /\ \A u \in Threads \ {t} :
                  \/ pc'[u] = pc[u]
                  \/ pc[u] = "wr_sleep" /\ pc'[u] = "wr_relock"

Caller(t) == \/ RdLock(t) \/ WrLock(t) \/ Unlock(t) \/ SpuriousWakeup(t)

(* Moved holds of every step: the thread that takes it moves, and nobody    *)
(* else but a sleeping writer it signals.                                   *)
LEMMA StepMoves ==
    ASSUME TypeOK, NEW t \in Threads, Inner(t) \/ Caller(t)
    PROVE  Moved(t)
<1> USE DEF Moved
<1>1. ASSUME NEW l \in PCs, Goto(t, l) PROVE Moved(t)
  BY <1>1 DEF TypeOK, Goto
<1>2. ASSUME NEW l \in PCs, NEW sig, GotoSignalling(t, l, sig), pc[t] # "wr_sleep"
      PROVE  Moved(t)
  BY <1>2, Signalled
<1>3. CASE RdAcquire(t) \/ WrAcquire(t) \/ WrReacquire(t) \/ RdUnlockAcquire(t)
  BY <1>1, <1>3 DEF RdAcquire, WrAcquire, WrReacquire, RdUnlockAcquire, Acquire,
                    PCs, OwnerPCs
<1>4. CASE RdCount(t) \/ WrTestBusy(t) \/ WrLoopBusy(t) \/ WrWait(t) \/ Release(t)
  BY <1>1, <1>4 DEF RdCount, WrTestBusy, WrLoopBusy, WrWait, Release,
                    PCs, OwnerPCs, FreePCs
<1>5. CASE WrTestFree(t) \/ WrLoopDone(t)
  BY <1>1, <1>5 DEF WrTestFree, WrLoopDone, Grant, PCs, OwnerPCs
<1>6. CASE WrUnlock(t)
  BY <1>2, <1>6 DEF WrUnlock, PCs, OwnerPCs
<1>7. CASE RdUncount(t)
  BY <1>2, <1>7 DEF RdUncount, PCs, OwnerPCs
<1>8. CASE Caller(t)
  <2>1. "wr_unlock" \in PCs /\ "rd_unlock" \in PCs
    BY DEF PCs, OwnerPCs, FreePCs
  <2>2. CASE Unlock(t)
    BY <1>1, <2>1, <2>2 DEF Unlock
  <2>3. CASE RdLock(t) \/ WrLock(t) \/ SpuriousWakeup(t)
    BY <1>1, <2>3 DEF RdLock, WrLock, SpuriousWakeup, PCs, FreePCs
  <2> QED
    BY <1>8, <2>2, <2>3 DEF Caller
<1> QED
  BY <1>3, <1>4, <1>5, <1>6, <1>7, <1>8 DEF Inner

(* What such a step does to the counts. *)
LEMMA StepCounts ==
    ASSUME CountInv, NEW t \in Threads, Moved(t)
    PROVE  /\ Cardinality(At(ReaderPCs)') =
                IF pc'[t] \in ReaderPCs
                  THEN IF pc[t] \in ReaderPCs THEN active_readers
                                              ELSE active_readers + 1
                  ELSE IF pc[t] \in ReaderPCs THEN active_readers - 1
                                              ELSE active_readers
           /\ Cardinality(At(WaiterPCs)') =
                IF pc'[t] \in WaiterPCs
                  THEN IF pc[t] \in WaiterPCs THEN writers_waiting_readers
                                              ELSE writers_waiting_readers + 1
                  ELSE IF pc[t] \in WaiterPCs THEN writers_waiting_readers - 1
                                              ELSE writers_waiting_readers
<1>1. \A u \in Threads \ {t} : /\ pc'[u] \in ReaderPCs <=> pc[u] \in ReaderPCs
                               /\ pc'[u] \in WaiterPCs <=> pc[u] \in WaiterPCs
  BY DEF Moved, ReaderPCs, WaiterPCs
<1>2. At(ReaderPCs)' = Where(Threads, pc', ReaderPCs) /\ At(ReaderPCs) = Where(Threads, pc, ReaderPCs)
  BY DEF At, Where
<1>3. At(WaiterPCs)' = Where(Threads, pc', WaiterPCs) /\ At(WaiterPCs) = Where(Threads, pc, WaiterPCs)
  BY DEF At, Where
<1>4. /\ active_readers = Cardinality(At(ReaderPCs))
      /\ writers_waiting_readers = Cardinality(At(WaiterPCs))
  BY DEF CountInv
<1>5. Cardinality(Where(Threads, pc', ReaderPCs)) =
           IF pc'[t] \in ReaderPCs
             THEN IF pc[t] \in ReaderPCs THEN Cardinality(Where(Threads, pc, ReaderPCs))
                                         ELSE Cardinality(Where(Threads, pc, ReaderPCs)) + 1
             ELSE IF pc[t] \in ReaderPCs THEN Cardinality(Where(Threads, pc, ReaderPCs)) - 1
                                         ELSE Cardinality(Where(Threads, pc, ReaderPCs))
  BY <1>1, MoveCount, ThreadsAssumption
<1>6. Cardinality(Where(Threads, pc', WaiterPCs)) =
           IF pc'[t] \in WaiterPCs
             THEN IF pc[t] \in WaiterPCs THEN Cardinality(Where(Threads, pc, WaiterPCs))
                                         ELSE Cardinality(Where(Threads, pc, WaiterPCs)) + 1
             ELSE IF pc[t] \in WaiterPCs THEN Cardinality(Where(Threads, pc, WaiterPCs)) - 1
                                         ELSE Cardinality(Where(Threads, pc, WaiterPCs))
  BY <1>1, MoveCount, ThreadsAssumption
<1> QED
  BY <1>2, <1>3, <1>4, <1>5, <1>6

-----------------------------------------------------------------------------
(* The counters keep counting: one case per step that moves a thread into   *)
(* or out of the readers or the waiting writers, one for all the others.    *)
LEMMA CountStep ==
    ASSUME TypeOK, CountInv, WriterInv, NEW t \in Threads, Inner(t) \/ Caller(t)
    PROVE  CountInv'
<1> USE DEF ReaderPCs, WaiterPCs
<1>1. Moved(t)
  BY StepMoves
<1>2. pc \in [Threads -> PCs] /\ active_readers \in Nat /\ writers_waiting_readers \in Nat
  BY DEF TypeOK
<1> SUFFICES /\ active_readers' = Cardinality(At(ReaderPCs)')
             /\ writers_waiting_readers' = Cardinality(At(WaiterPCs)')
  BY DEF CountInv
<1>3. CASE RdCount(t)
  BY <1>1, <1>2, <1>3, StepCounts DEF RdCount, Goto
<1>4. CASE RdUncount(t)
  <2>1. pc[t] = "rd_uncount" /\ pc'[t] = "release"
    BY <1>2, <1>4, Signalled DEF RdUncount, PCs, OwnerPCs
  <2> QED
    BY <1>1, <1>2, <1>4, <2>1, StepCounts DEF RdUncount
<1>5. CASE WrTestBusy(t)
  BY <1>1, <1>2, <1>5, StepCounts DEF WrTestBusy, Goto
<1>6. CASE WrLoopDone(t)
  BY <1>1, <1>2, <1>6, StepCounts DEF WrLoopDone, Grant, Goto
<1>7. CASE WrUnlock(t)
  <2>1. pc[t] = "wr_unlock" /\ pc'[t] = "release"
    BY <1>2, <1>7, Signalled DEF WrUnlock, PCs, OwnerPCs
  <2> QED
    BY <1>1, <1>2, <1>7, <2>1, StepCounts DEF WrUnlock
<1>8. CASE RdAcquire(t) \/ WrAcquire(t) \/ WrReacquire(t) \/ RdUnlockAcquire(t)
  BY <1>1, <1>2, <1>8, StepCounts
     DEF RdAcquire, WrAcquire, WrReacquire, RdUnlockAcquire, Acquire, Goto, fields
<1>9. CASE WrTestFree(t)
  BY <1>1, <1>2, <1>9, StepCounts DEF WrTestFree, Grant, Goto
<1>10. CASE WrLoopBusy(t) \/ WrWait(t) \/ Release(t)
  BY <1>1, <1>2, <1>10, StepCounts DEF WrLoopBusy, WrWait, Release, Goto, fields
<1>11. CASE Unlock(t)
  <2>1. Cardinality(At(ReaderPCs)') = active_readers
    <3>1. CASE pc[t] = "reading" /\ ~active_writer
      BY <1>1, <1>2, <1>11, <3>1, StepCounts DEF Unlock, Goto
    <3>2. CASE pc[t] = "writing" /\ active_writer
      BY <1>1, <1>2, <1>11, <3>2, StepCounts DEF Unlock, Goto
    <3>3. pc[t] \in ReaderPCs => ~active_writer
      BY CountMeaning DEF WriterInv
    <3>4. pc[t] = "writing" => active_writer
      BY DEF WriterInv, WriterPCs
    <3> QED
      BY <1>11, <3>1, <3>2, <3>3, <3>4 DEF Unlock
  <2> QED
    BY <1>1, <1>2, <1>11, <2>1, StepCounts DEF Unlock, Goto, fields
<1>12. CASE RdLock(t) \/ WrLock(t) \/ SpuriousWakeup(t)
  BY <1>1, <1>2, <1>12, StepCounts DEF RdLock, WrLock, SpuriousWakeup, Goto, fields
<1> QED
  BY <1>3, <1>4, <1>5, <1>6, <1>7, <1>8, <1>9, <1>10, <1>11, <1>12 DEF Inner, Caller

(* CountMeaning, of the state after a step.                                 *)
LEMMA CountMeaningNext ==
    ASSUME CountInv'
    PROVE  /\ active_readers' \in Nat
           /\ writers_waiting_readers' \in Nat
           /\ active_readers' = 0 <=> \A t \in Threads : pc'[t] \notin ReaderPCs
           /\ writers_waiting_readers' = 0 <=> \A t \in Threads : pc'[t] \notin WaiterPCs
BY WhereCount, ThreadsAssumption DEF CountInv, At, Where

(* A step keeps every variable in its type.                                 *)
LEMMA TypeStep ==
    ASSUME TypeOK, NEW t \in Threads, Inner(t) \/ Caller(t), CountInv'
    PROVE  TypeOK'
<1>1. pc' \in [Threads -> PCs] /\ active_readers' \in Nat /\ writers_waiting_readers' \in Nat
  BY StepMoves, CountMeaningNext DEF Moved
<1>2. UNCHANGED life
  BY DEF Inner, Caller, RdAcquire, WrAcquire, WrReacquire, RdUnlockAcquire, Acquire,
         RdCount, RdUncount, WrTestFree, WrTestBusy, WrLoopDone, WrLoopBusy, WrWait,
         WrUnlock, Grant, Release, RdLock, WrLock, Unlock, SpuriousWakeup, life
<1>3. mutex' \in Threads \cup {NoThread} /\ active_writer' \in BOOLEAN
  BY DEF TypeOK, Inner, Caller, RdAcquire, WrAcquire, WrReacquire, RdUnlockAcquire,
         Acquire, RdCount, RdUncount, WrTestFree, WrTestBusy, WrLoopDone, WrLoopBusy,
         WrWait, WrUnlock, Grant, Release, RdLock, WrLock, Unlock, SpuriousWakeup, fields
<1> QED
  BY <1>1, <1>2, <1>3 DEF TypeOK, life

(* A step keeps the mutex with the thread whose statement needs it.         *)
LEMMA MutexStep ==
    ASSUME TypeOK, CountInv, WriterInv, MutexInv,
           NEW t \in Threads, Inner(t) \/ Caller(t)
    PROVE  MutexInv'
<1> USE DEF OwnerPCs
<1>1. Moved(t) /\ NoThread \notin Threads /\ pc \in [Threads -> PCs]
  BY StepMoves, ThreadsAssumption DEF TypeOK
<1>2. \A u \in Threads \ {t} : pc'[u] \in OwnerPCs <=> pc[u] \in OwnerPCs
  BY <1>1 DEF Moved
<1> SUFFICES ASSUME NEW u \in Threads PROVE pc'[u] \in OwnerPCs <=> mutex' = u
  BY DEF MutexInv
<1>3. CASE RdAcquire(t) \/ WrAcquire(t) \/ WrReacquire(t) \/ RdUnlockAcquire(t)
  BY <1>1, <1>2, <1>3
     DEF RdAcquire, WrAcquire, WrReacquire, RdUnlockAcquire, Acquire, Goto, MutexInv
<1>4. CASE RdCount(t) \/ WrWait(t) \/ Release(t)
  BY <1>1, <1>2, <1>4 DEF RdCount, WrWait, Release, Goto, MutexInv
<1>5. CASE WrTestFree(t) \/ WrTestBusy(t) \/ WrLoopDone(t) \/ WrLoopBusy(t)
  BY <1>1, <1>2, <1>5
     DEF WrTestFree, WrTestBusy, WrLoopDone, WrLoopBusy, Grant, Goto, MutexInv
<1>6. CASE WrUnlock(t) \/ RdUncount(t)
  <2>1. pc[t] \in OwnerPCs /\ pc'[t] = "release" /\ mutex' = mutex
    BY <1>6, Signalled DEF WrUnlock, RdUncount, PCs
  <2> QED
    BY <1>1, <1>2, <2>1 DEF MutexInv
<1>7. CASE Caller(t)
  <2>1. CASE Unlock(t)
    <3>1. pc[t] = "reading" => ~active_writer
      BY CountMeaning DEF WriterInv, ReaderPCs
    <3>2. pc[t] = "writing" => active_writer
      BY DEF WriterInv, WriterPCs
    <3> QED
      BY <1>1, <1>2, <2>1, <3>1, <3>2 DEF Unlock, Goto, MutexInv
  <2>2. CASE RdLock(t) \/ WrLock(t) \/ SpuriousWakeup(t)
    BY <1>1, <1>2, <2>2 DEF RdLock, WrLock, SpuriousWakeup, Goto, MutexInv
  <2> QED
    BY <1>7, <2>1, <2>2 DEF Caller
<1> QED
  BY <1>3, <1>4, <1>5, <1>6, <1>7 DEF Inner

(* A step keeps active_writer true exactly while a writer has the lock, and *)
(* then no reader has it.                                                   *)
LEMMA WriterStep ==
    ASSUME TypeOK, CountInv, WriterInv, MutexInv, CountInv',
           NEW t \in Threads, Inner(t) \/ Caller(t)
    PROVE  WriterInv'
<1> USE DEF WriterPCs
<1>1. Moved(t) /\ pc \in [Threads -> PCs] /\ active_readers \in Nat
  BY StepMoves DEF TypeOK
<1>2. \A u \in Threads \ {t} : /\ pc'[u] \in WriterPCs <=> pc[u] \in WriterPCs
                               /\ pc'[u] = "wr_wait" <=> pc[u] = "wr_wait"
  BY <1>1 DEF Moved
<1>3. \A u \in Threads : pc[u] \in WriterPCs \cup {"wr_wait"} => mutex = u
  BY DEF MutexInv, OwnerPCs
<1>4. mutex = t => (active_writer <=> pc[t] \in WriterPCs)
  BY <1>3 DEF WriterInv
<1>5. CASE RdAcquire(t) \/ WrAcquire(t) \/ WrReacquire(t) \/ RdUnlockAcquire(t)
  BY <1>1, <1>2, <1>5
     DEF RdAcquire, WrAcquire, WrReacquire, RdUnlockAcquire, Acquire, Goto, fields, WriterInv
<1>6. CASE RdCount(t)
  BY <1>1, <1>2, <1>3, <1>4, <1>6 DEF RdCount, Goto, WriterInv, MutexInv, OwnerPCs
<1>7. CASE RdUncount(t)
  <2>1. pc[t] = "rd_uncount" /\ pc'[t] = "release" /\ mutex = t
    BY <1>7, Signalled DEF RdUncount, PCs, OwnerPCs, MutexInv
  <2> QED
    BY <1>1, <1>2, <1>3, <1>4, <1>7, <2>1 DEF RdUncount, WriterInv
<1>8. CASE WrTestFree(t) \/ WrLoopDone(t)
  BY <1>1, <1>2, <1>3, <1>8
     DEF WrTestFree, WrLoopDone, Grant, Goto, WriterInv, MutexInv, OwnerPCs
<1>9. CASE WrTestBusy(t) \/ WrLoopBusy(t) \/ WrWait(t) \/ Release(t)
  BY <1>1, <1>2, <1>9
     DEF WrTestBusy, WrLoopBusy, WrWait, Release, Goto, fields, WriterInv
<1>10. CASE WrUnlock(t)
  <2>1. pc[t] = "wr_unlock" /\ pc'[t] = "release" /\ mutex = t
    BY <1>10, Signalled DEF WrUnlock, PCs, OwnerPCs, MutexInv
  <2> QED
    BY <1>1, <1>2, <1>3, <1>4, <1>10, <2>1 DEF WrUnlock, WriterInv
<1>11. CASE Caller(t)
  <2>1. CASE Unlock(t)
    <3>1. pc[t] = "reading" => ~active_writer
      BY CountMeaning DEF WriterInv, ReaderPCs
    <3> QED
      BY <1>1, <1>2, <2>1, <3>1 DEF Unlock, Goto, fields, WriterInv
  <2>2. CASE RdLock(t) \/ WrLock(t) \/ SpuriousWakeup(t)
    BY <1>1, <1>2, <2>2 DEF RdLock, WrLock, SpuriousWakeup, Goto, fields, WriterInv
  <2> QED
    BY <1>11, <2>1, <2>2 DEF Caller
<1> QED
  BY <1>5, <1>6, <1>7, <1>8, <1>9, <1>10, <1>11 DEF Inner

(* While the lock is being retired no thread enters it, and the last user   *)
(* goes on through rw_pr_unlock alone.                                      *)
LEMMA LifeStep ==
    ASSUME IInv, NEW t \in Threads, Inner(t) \/ Caller(t)
    PROVE  LifeInv'
<1>1. Moved(t) /\ pc \in [Threads -> PCs] /\ NoThread \notin Threads
  BY StepMoves, ThreadsAssumption DEF IInv, TypeOK
<1>2. UNCHANGED life
  BY DEF Inner, Caller, RdAcquire, WrAcquire, WrReacquire, RdUnlockAcquire, Acquire,
         RdCount, RdUncount, WrTestFree, WrTestBusy, WrLoopDone, WrLoopBusy, WrWait,
         WrUnlock, Grant, Release, RdLock, WrLock, Unlock, SpuriousWakeup, life
<1> SUFFICES ASSUME retirer # NoThread
             PROVE  /\ pc'[retirer] \in {"writing", "wr_unlock", "release", "idle"}
                    /\ \A u \in Threads \ {retirer} : pc'[u] = "idle"
                    /\ ~exists => pc'[retirer] = "idle"
  BY <1>1, <1>2 DEF LifeInv, IInv, life
<1>3. /\ retirer \in Threads
      /\ pc[retirer] \in {"writing", "wr_unlock", "release", "idle"}
      /\ \A u \in Threads \ {retirer} : pc[u] = "idle"
      /\ ~exists => pc[retirer] = "idle"
  BY DEF IInv, LifeInv, TypeOK
<1>4. t = retirer /\ pc[t] # "idle" /\ (Unlock(t) \/ WrUnlock(t) \/ Release(t))
  BY <1>3 DEF Inner, Caller, RdAcquire, WrAcquire, WrReacquire, RdUnlockAcquire, Acquire,
         RdCount, RdUncount, WrTestFree, WrTestBusy, WrLoopDone, WrLoopBusy, WrWait,
         WrUnlock, Release, RdLock, WrLock, Unlock, SpuriousWakeup, MayCall
<1>5. pc'[t] \in {"wr_unlock", "release", "idle"}
  <2>1. CASE Unlock(t)
    <3>1. pc[t] = "writing" => active_writer
      BY DEF IInv, WriterInv, WriterPCs
    <3> QED
      BY <1>1, <1>3, <1>4, <2>1, <3>1 DEF Unlock, Goto
  <2>2. CASE WrUnlock(t)
    BY <2>2, Signalled DEF WrUnlock, PCs, OwnerPCs, IInv
  <2>3. CASE Release(t)
    BY <1>1, <2>3 DEF Release, Goto
  <2> QED
    BY <1>4, <2>1, <2>2, <2>3
<1> QED
  BY <1>1, <1>3, <1>4, <1>5 DEF Moved

(* Sleeping writers: whoever leaves the lock empty signals, because the     *)
(* counter of waiting writers tells that they are there.                    *)
WakeInv == (\E s \in Threads : pc[s] = "wr_sleep") =>
               \E u \in Threads : pc[u] \in ReaderPCs \cup WriterPCs \cup {"wr_relock", "wr_loop"}

(* WakeInv says the same, thread by thread.                                 *)
LEMMA WakeMeaning == NoLostWakeup <=> WakeInv
BY DEF NoLostWakeup, WakeInv, Sleepers, At

(* A step leaves no sleeping writer without somebody who will signal it.    *)
LEMMA WakeStep ==
    ASSUME IInv, NEW t \in Threads, Inner(t) \/ Caller(t), CountInv'
    PROVE  WakeInv'
<1> USE DEF ReaderPCs, WriterPCs
<1>1. Moved(t) /\ pc \in [Threads -> PCs]
  BY StepMoves DEF IInv, TypeOK
<1> SUFFICES ASSUME NEW s \in Threads, pc'[s] = "wr_sleep"
             PROVE  \E u \in Threads : pc'[u] \in ReaderPCs \cup WriterPCs \cup {"wr_relock", "wr_loop"}
  BY DEF WakeInv
<1>2. WakeInv
  BY WakeMeaning DEF IInv
<1>3. s # t => pc[s] = "wr_sleep" /\ writers_waiting_readers # 0
  BY <1>1, CountMeaning DEF Moved, WaiterPCs, IInv
<1>4. CASE RdAcquire(t) \/ WrAcquire(t) \/ WrReacquire(t) \/ RdUnlockAcquire(t)
  BY <1>1, <1>2, <1>3, <1>4
     DEF RdAcquire, WrAcquire, WrReacquire, RdUnlockAcquire, Acquire, Goto, WakeInv
<1>5. CASE RdCount(t) \/ WrTestFree(t) \/ WrTestBusy(t) \/ WrLoopDone(t)
  BY <1>1, <1>2, <1>3, <1>5
     DEF RdCount, WrTestFree, WrTestBusy, WrLoopDone, Grant, Goto, WakeInv
<1>6. CASE WrLoopBusy(t) \/ WrWait(t)
  <2>1. active_readers # 0 /\ UNCHANGED active_readers
    BY <1>6 DEF WrLoopBusy, WrWait, fields, IInv, WriterInv
  <2>2. \E u \in Threads : pc'[u] \in ReaderPCs
    BY <2>1, CountMeaningNext
  <2> QED
    BY <2>2
<1>7. CASE WrUnlock(t)
  <2>1. t # s /\ GotoSignalling(t, "release", writers_waiting_readers # 0)
             /\ pc[t] = "wr_unlock"
    BY <1>7, Signalled DEF WrUnlock, PCs, OwnerPCs, IInv
  <2> QED
    BY <1>3, <2>1, Signalled DEF PCs, OwnerPCs, IInv
<1>8. CASE RdUncount(t)
  <2>1. /\ pc[t] = "rd_uncount"
        /\ GotoSignalling(t, "release", active_readers = 1 /\ writers_waiting_readers # 0)
        /\ active_readers' = active_readers - 1
        /\ active_readers \in Nat
    BY <1>8 DEF RdUncount, IInv, TypeOK
  <2>2. t # s
    BY <2>1, Signalled DEF PCs, OwnerPCs, IInv
  <2>3. CASE active_readers = 1
    BY <1>3, <2>1, <2>2, <2>3, Signalled DEF PCs, OwnerPCs, IInv
  <2>4. CASE active_readers # 1
    <3>1. active_readers' # 0
      BY <2>1, <2>4
    <3> QED
      BY <3>1, CountMeaningNext
  <2> QED
    BY <2>3, <2>4
<1>9. CASE Release(t)
  BY <1>1, <1>2, <1>3, <1>9 DEF Release, Goto, WakeInv
<1>10. CASE Caller(t)
  <2>1. pc[t] = "writing" => active_writer
    BY DEF IInv, WriterInv
  <2> QED
    BY <1>1, <1>2, <1>3, <1>10, <2>1
       DEF Caller, RdLock, WrLock, Unlock, SpuriousWakeup, Goto, WakeInv
<1> QED
  BY <1>4, <1>5, <1>6, <1>7, <1>8, <1>9, <1>10 DEF Inner

-----------------------------------------------------------------------------
(* Destroying the lock: its last user is alone, so nothing can go wrong.    *)
LEMMA LifecycleStep ==
    ASSUME IInv, NEW t \in Threads, Retire(t) \/ Destroy(t) \/ ReInit(t)
    PROVE  IInv'
<1> USE DEF IInv
<1>1. CASE Retire(t)
  <2>1. pc[t] = "writing" /\ active_writer /\ active_readers = 0 /\ mutex = t
    BY <1>1 DEF Retire, WriterInv, WriterPCs, MutexInv, OwnerPCs
  <2>2. \A u \in Threads \ {t} : pc[u] \notin OwnerPCs /\ pc[u] \notin ReaderPCs
    BY <2>1, CountMeaning DEF MutexInv
  <2>3. \A u \in Threads \ {t} : pc[u] = "idle"
    BY <1>1, <2>2 DEF Retire, LeavingPCs, OwnerPCs, ReaderPCs
  <2>4. LifeInv'
    BY <1>1, <2>1, <2>3 DEF Retire, LifeInv, MayCall
  <2> QED
    BY <1>1, <2>4 DEF Retire, fields, TypeOK, MutexInv, CountInv, WriterInv,
                      NoLostWakeup, Sleepers, At
<1>2. CASE Destroy(t)
  <2>1. LifeInv'
    BY <1>2, ThreadsAssumption DEF Destroy, LifeInv
  <2> QED
    BY <1>2, <2>1 DEF Destroy, fields, TypeOK, MutexInv, CountInv, WriterInv,
                      NoLostWakeup, Sleepers, At
<1>3. CASE ReInit(t)
  <2>1. \A u \in Threads : pc[u] = "idle"
    BY <1>3, ThreadsAssumption DEF ReInit, LifeInv
  <2>2. At(ReaderPCs)' = {} /\ At(WaiterPCs)' = {}
    BY <1>3, <2>1 DEF ReInit, At, ReaderPCs, WaiterPCs
  <2>3. CountInv'
    BY <1>3, <2>2, FS_EmptySet DEF ReInit, CountInv
  <2>4. TypeOK'
    BY <1>3 DEF ReInit, TypeOK
  <2> QED
    BY <1>3, <2>1, <2>3, <2>4, ThreadsAssumption
       DEF ReInit, MutexInv, WriterInv, LifeInv, NoLostWakeup, Sleepers, At,
           OwnerPCs, WriterPCs
<1> QED
  BY <1>1, <1>2, <1>3

(* IInv is inductive. *)
LEMMA NextIInv == IInv /\ [Next]_vars => IInv'
<1> SUFFICES ASSUME IInv, [Next]_vars PROVE IInv'
  OBVIOUS
<1>1. CASE UNCHANGED vars
  BY <1>1 DEF vars, IInv, TypeOK, MutexInv, CountInv, WriterInv, LifeInv,
              NoLostWakeup, Sleepers, At
<1>2. ASSUME NEW t \in Threads, Inner(t) \/ Caller(t) PROVE IInv'
  <2>1. CountInv'
    BY <1>2, CountStep DEF IInv
  <2>2. TypeOK' /\ MutexInv' /\ WriterInv'
    BY <1>2, <2>1, TypeStep, MutexStep, WriterStep DEF IInv
  <2>3. LifeInv' /\ WakeInv'
    BY <1>2, <2>1, LifeStep, WakeStep
  <2>4. NoLostWakeup'
    BY <2>3 DEF NoLostWakeup, WakeInv, Sleepers, At
  <2> QED
    BY <2>1, <2>2, <2>3, <2>4 DEF IInv
<1>3. ASSUME NEW t \in Threads, Retire(t) \/ Destroy(t) \/ ReInit(t) PROVE IInv'
  BY <1>3, LifecycleStep
<1> QED
  BY <1>1, <1>2, <1>3 DEF Next, Caller

(* IInv holds in every reachable state, for every set of threads.           *)
THEOREM InductiveInvariant == Spec => []IInv
BY InitIInv, NextIInv, PTL DEF Spec

-----------------------------------------------------------------------------
(* Every variable keeps its type; in particular neither counter, unsigned   *)
(* in the code, is ever decremented below zero.                             *)
THEOREM TypeCorrect == Spec => []TypeOK
<1>1. IInv => TypeOK
  BY DEF IInv
<1> QED
  BY <1>1, InductiveInvariant, PTL

(* One writer or any number of readers, for every number of threads.        *)
THEOREM MutualExclusion == Spec => []Exclusion
<1>1. IInv => Exclusion
  <2> SUFFICES ASSUME IInv, NEW t \in Threads, NEW u \in Threads,
                      pc[t] \in WriterPCs, u # t
               PROVE  pc[u] \notin ReaderPCs \cup WriterPCs
    BY DEF Exclusion
  <2>1. active_readers = 0
    BY DEF IInv, WriterInv
  <2>2. pc[u] \notin ReaderPCs
    BY <2>1, CountMeaning DEF IInv
  <2>3. pc[u] \notin WriterPCs
    BY DEF IInv, MutexInv, WriterPCs, OwnerPCs
  <2> QED
    BY <2>2, <2>3
<1> QED
  BY <1>1, InductiveInvariant, PTL

(* The unprotected reading of active_writer in rw_pr_unlock never sends a   *)
(* thread to unlock a mutex it does not own.                                *)
THEOREM UnlockByOwner == Spec => []UnlockOwnsMutex
<1>1. IInv => UnlockOwnsMutex
  BY DEF IInv, MutexInv, UnlockOwnsMutex, OwnerPCs
<1> QED
  BY <1>1, InductiveInvariant, PTL

(* No writer sleeps for ever for want of a signal: see NoLostWakeup.        *)
THEOREM WritersAreWoken == Spec => []NoLostWakeup
<1>1. IInv => NoLostWakeup
  BY DEF IInv
<1> QED
  BY <1>1, InductiveInvariant, PTL

(* The lock may be destroyed by its last writer right after it unlocked.    *)
THEOREM SafeToDestroy == Spec => []DestroySafe
<1>1. IInv => DestroySafe
  BY ThreadsAssumption DEF IInv, LifeInv, MutexInv, TypeOK, DestroySafe, OwnerPCs
<1> QED
  BY <1>1, InductiveInvariant, PTL

-----------------------------------------------------------------------------
(* rw_pr_lock_t implements RWLock.  Four steps change who holds the lock;   *)
(* every other one is a stuttering step of RWLock.                          *)
LEMMA HoldersUnchanged ==
    ASSUME TypeOK, NEW t \in Threads, Moved(t),
           pc[t] \in ReaderPCs <=> pc'[t] \in ReaderPCs,
           pc[t] \in WriterPCs <=> pc'[t] \in WriterPCs
    PROVE  UNCHANGED <<At(ReaderPCs), At(WriterPCs)>>
BY DEF Moved, At, ReaderPCs, WriterPCs

(* Each step inside the functions is a step of RWLock, or changes nothing   *)
(* that RWLock sees.                                                        *)
LEMMA RefinesInner ==
    ASSUME IInv, NEW t \in Threads, Inner(t) \/ Caller(t)
    PROVE  [Lock!LockNext]_(Lock!lockVars)
<1> USE DEF ReaderPCs, WriterPCs
<1>1. Moved(t) /\ pc \in [Threads -> PCs] /\ TypeOK
  BY StepMoves DEF IInv, TypeOK
<1>2. \A u \in Threads : pc[u] \in WriterPCs => active_writer /\ mutex = u
  BY DEF IInv, WriterInv, MutexInv, OwnerPCs
<1>3. /\ active_writer => active_readers = 0
      /\ active_writer <=> \E u \in Threads : pc[u] \in WriterPCs
      /\ active_readers = 0 <=> \A u \in Threads : pc[u] \notin ReaderPCs
  BY CountMeaning DEF IInv, WriterInv
<1>4. mutex = t /\ pc[t] \notin WriterPCs => ~active_writer
  BY <1>2, <1>3
<1>5. pc[t] \in OwnerPCs => mutex = t
  BY DEF IInv, MutexInv
<1>6. CASE RdCount(t)
  <2>1. pc[t] = "rd_count" /\ pc'[t] = "reading" /\ ~active_writer
    BY <1>1, <1>4, <1>5, <1>6 DEF RdCount, Goto, OwnerPCs
  <2>2. Lock!AcquireRead(t)
    BY <1>1, <1>3, <2>1 DEF Lock!AcquireRead, At, Moved
  <2> QED
    BY <2>2 DEF Lock!LockNext
<1>7. CASE WrTestFree(t) \/ WrLoopDone(t)
  <2>1. /\ pc[t] \in {"wr_test", "wr_loop"} /\ pc'[t] = "writing"
        /\ active_readers = 0 /\ ~active_writer
    BY <1>1, <1>4, <1>5, <1>7 DEF WrTestFree, WrLoopDone, Grant, Goto, OwnerPCs
  <2>2. Lock!AcquireWrite(t)
    BY <1>1, <1>3, <2>1 DEF Lock!AcquireWrite, At, Moved
  <2> QED
    BY <2>2 DEF Lock!LockNext
<1>8. CASE RdUncount(t)
  <2>1. pc[t] = "rd_uncount" /\ pc'[t] = "release"
    BY <1>8, <1>1, Signalled DEF RdUncount, PCs, OwnerPCs
  <2>2. Lock!ReleaseRead(t)
    BY <1>1, <2>1 DEF Lock!ReleaseRead, At, Moved
  <2> QED
    BY <2>2 DEF Lock!LockNext
<1>9. CASE WrUnlock(t)
  <2>1. pc[t] = "wr_unlock" /\ pc'[t] = "release"
    BY <1>9, <1>1, Signalled DEF WrUnlock, PCs, OwnerPCs
  <2>2. Lock!ReleaseWrite(t)
    BY <1>1, <1>2, <2>1 DEF Lock!ReleaseWrite, At, Moved
  <2> QED
    BY <2>2 DEF Lock!LockNext
<1>10. CASE \/ RdAcquire(t) \/ WrAcquire(t) \/ WrReacquire(t) \/ RdUnlockAcquire(t)
            \/ WrTestBusy(t) \/ WrLoopBusy(t) \/ WrWait(t) \/ Release(t)
            \/ RdLock(t) \/ WrLock(t) \/ SpuriousWakeup(t)
  <2>1. /\ pc[t] \in ReaderPCs <=> pc'[t] \in ReaderPCs
        /\ pc[t] \in WriterPCs <=> pc'[t] \in WriterPCs
    BY <1>1, <1>10 DEF RdAcquire, WrAcquire, WrReacquire, RdUnlockAcquire, Acquire,
       WrTestBusy, WrLoopBusy, WrWait, Release, RdLock, WrLock, SpuriousWakeup, Goto
  <2> QED
    BY <1>1, <2>1, HoldersUnchanged DEF Lock!lockVars
<1>11. CASE Unlock(t)
  <2>1. /\ pc[t] \in ReaderPCs <=> pc'[t] \in ReaderPCs
        /\ pc[t] \in WriterPCs <=> pc'[t] \in WriterPCs
    <3>1. pc[t] = "reading" => ~active_writer
      BY <1>3
    <3>2. pc[t] = "writing" => active_writer
      BY <1>2
    <3> QED
      BY <1>1, <1>11, <3>1, <3>2 DEF Unlock, Goto
  <2> QED
    BY <1>1, <2>1, HoldersUnchanged DEF Lock!lockVars
<1> QED
  BY <1>6, <1>7, <1>8, <1>9, <1>10, <1>11 DEF Inner, Caller

(* Every behaviour of rw_pr_lock_t is one of RWLock, for every set of       *)
(* threads: the step lemmas above, put together.                            *)
THEOREM Refinement == Spec => ImplementsRWLock
<1>1. Init => Lock!LockInit
  BY DEF Init, Lock!LockInit, At, ReaderPCs, WriterPCs
<1>2. IInv /\ [Next]_vars => [Lock!LockNext]_(Lock!lockVars)
  <2> SUFFICES ASSUME IInv, [Next]_vars PROVE [Lock!LockNext]_(Lock!lockVars)
    OBVIOUS
  <2>1. CASE UNCHANGED pc
    BY <2>1 DEF Lock!lockVars, At
  <2>2. ASSUME NEW t \in Threads, Inner(t) \/ Caller(t)
        PROVE  [Lock!LockNext]_(Lock!lockVars)
    BY <2>2, RefinesInner
  <2> QED
    BY <2>1, <2>2 DEF Next, Caller, Retire, Destroy, ReInit, vars
<1> QED
  BY <1>1, <1>2, InductiveInvariant, PTL DEF Spec, ImplementsRWLock, Lock!LockSpec
=============================================================================
