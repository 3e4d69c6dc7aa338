--------------------------- MODULE AnyRwLockProofs ---------------------------
(***************************************************************************)
(* my_rw_lock_t of Windows for every set of threads.                       *)
(*                                                                         *)
(* First the portable lock: no assert of it fails and nobody sleeps with   *)
(* nobody left to wake him.  Both rest on the inductive invariant IInv,    *)
(* which says who owns the mutex, what state and waiters mean for the      *)
(* threads, and why a thread goes to sleep.                                *)
(*                                                                         *)
(* Then the slim lock, which is released in the mode it is held in, and    *)
(* my_rw_lock_t as whichever of the two have_srwlock has chosen: what      *)
(* holds of the portable lock still does, and both implement RWLock.       *)
(***************************************************************************)
EXTENDS AnyRwLock, ProofLemmas

-----------------------------------------------------------------------------
(* The inductive invariant. *)

(* The mutex is owned by the thread that is at a statement under it. *)
MutexInv == \A t \in Threads : pc[t] \in OwnerPCs <=> mutex = t

(* state counts the readers while there is no writer ... *)
ReadersInv == state # -1 => /\ state = Cardinality(At(ReaderPCs))
                            /\ \A t \in Threads : pc[t] \notin WriterPCs

(* ... and is -1 while there is one, who is alone. *)
WriterInv == state = -1 => \E t \in Threads : /\ pc[t] \in WriterPCs
                                              /\ \A u \in Threads \ {t} :
                                                    pc[u] \notin WriterPCs \cup ReaderPCs

(* waiters counts the writers from wr_count to the grant. *)
WaitersInv == waiters = Cardinality(At(WaiterPCs))

(* A thread goes to sleep because it has to: what its loop found still     *)
(* holds, for it has kept the mutex.                                       *)
LoopInv == \A t \in Threads : /\ pc[t] = "rd_wait" => ReadersStayOut
                              /\ pc[t] = "wr_wait" => state # 0

(* A lock that is destroyed is not used. *)
LifeInv == ~exists => \A t \in Threads : pc[t] = "idle"

IInv == /\ TypeOK /\ MutexInv /\ ReadersInv /\ WriterInv /\ WaitersInv
        /\ LoopInv /\ LifeInv /\ NobodyStranded
-----------------------------------------------------------------------------
(* What IInv says of the fields, thread by thread. *)
LEMMA CountMeaning ==
    ASSUME TypeOK, ReadersInv, WriterInv, WaitersInv
    PROVE  /\ state = 0 <=> \A t \in Threads : pc[t] \notin ReaderPCs \cup WriterPCs
           /\ state > 0 => \A t \in Threads : pc[t] \notin WriterPCs
           /\ \A t \in Threads : /\ pc[t] \in WriterPCs => state = -1
                                 /\ pc[t] \in ReaderPCs => state > 0
           /\ \A t, u \in Threads : pc[t] \in WriterPCs /\ u # t =>
                                       pc[u] \notin WriterPCs \cup ReaderPCs
           /\ waiters = 0 <=> \A t \in Threads : pc[t] \notin WaiterPCs
<1>1. /\ Cardinality(At(ReaderPCs)) \in Nat
      /\ Cardinality(At(ReaderPCs)) = 0 <=> \A t \in Threads : pc[t] \notin ReaderPCs
      /\ Cardinality(At(WaiterPCs)) = 0 <=> \A t \in Threads : pc[t] \notin WaiterPCs
  BY WhereCount, ThreadsAssumption DEF At, Where
<1>2. state \in Nat \cup {-1}
  BY DEF TypeOK
<1>3. waiters = 0 <=> \A t \in Threads : pc[t] \notin WaiterPCs
  BY <1>1 DEF WaitersInv
<1>4. \A l \in ReaderPCs : l \notin WriterPCs
  BY DEF ReaderPCs, WriterPCs
<1>5. CASE state = -1
  BY <1>3, <1>4, <1>5 DEF WriterInv
<1>6. CASE state \in Nat
  BY <1>1, <1>3, <1>6 DEF ReadersInv
<1> QED
  BY <1>2, <1>5, <1>6

(* The lock as my_rw_init leaves it, with nobody in a call. *)
LEMMA FreshIInv ==
    ASSUME mutex = NoThread, state = 0, waiters = 0, exists = TRUE,
           pc \in [Threads -> PCs], \A t \in Threads : pc[t] = "idle"
    PROVE  IInv
<1>1. At(ReaderPCs) = {} /\ At(WaiterPCs) = {} /\ At({"wr_sleep"}) = {} /\ At({"rd_sleep"}) = {}
  BY DEF At, ReaderPCs, WaiterPCs
<1>2. ReadersInv /\ WaitersInv
  BY <1>1, FS_EmptySet DEF ReadersInv, WaitersInv, WriterPCs
<1>3. NobodyStranded
  BY <1>1 DEF NobodyStranded
<1>4. TypeOK /\ MutexInv /\ WriterInv /\ LoopInv /\ LifeInv
  BY ThreadsAssumption DEF TypeOK, MutexInv, WriterInv, LoopInv, LifeInv, OwnerPCs
<1> QED
  BY <1>2, <1>3, <1>4 DEF IInv

(* The initial state. *)
LEMMA InitIInv == Init => IInv
BY FreshIInv DEF Init, PCs, FreePCs
-----------------------------------------------------------------------------
(* Every step is the step of one thread t: the others stay where they are,  *)
(* but for the sleeping threads that t signals.                             *)
Moved(t) == /\ pc' \in [Threads -> PCs]
            /\ \A u \in Threads \ {t} :
                  \/ pc'[u] = pc[u]
                  \/ pc[u] = "wr_sleep" /\ pc'[u] = "wr_relock"
                  \/ pc[u] = "rd_sleep" /\ pc'[u] = "rd_relock"

Caller(t) == \/ RdLock(t) \/ TryRdLock(t) \/ WrLock(t) \/ TryWrLock(t)
             \/ Unlock(t) \/ SpuriousWakeup(t)

(* Thread t goes to l. *)
LEMMA GotoMoves ==
    ASSUME TypeOK, NEW t \in Threads, NEW l \in PCs, Goto(t, l)
    PROVE  Moved(t) /\ pc'[t] = l /\ \A u \in Threads \ {t} : pc'[u] = pc[u]
BY DEF TypeOK, Goto, Moved

(* Signalling a writer: one sleeper is woken if there is one, no reader is. *)
LEMMA SignalMoves ==
    ASSUME TypeOK, NEW t \in Threads, ReturnSignallingWriter(t),
           pc[t] \notin {"wr_sleep", "rd_sleep"}
    PROVE  /\ Moved(t)
           /\ pc'[t] = "idle"
           /\ \A u \in Threads : pc'[u] = "rd_sleep" => pc[u] = "rd_sleep"
           /\ \/ \A u \in Threads : pc'[u] # "wr_sleep"
              \/ \E u \in Threads : pc'[u] = "wr_relock"
<1>1. pc \in [Threads -> PCs] /\ "idle" \in PCs /\ "wr_relock" \in PCs
  BY DEF TypeOK, PCs, FreePCs
<1>2. CASE At({"wr_sleep"}) # {}
  <2>1. PICK w \in At({"wr_sleep"}) : pc' = [pc EXCEPT ![t] = "idle", ![w] = "wr_relock"]
    BY <1>2 DEF ReturnSignallingWriter
  <2>2. w \in Threads /\ w # t /\ pc[w] = "wr_sleep"
    BY <2>1 DEF At
  <2> QED
    BY <1>1, <2>1, <2>2 DEF Moved
<1>3. CASE At({"wr_sleep"}) = {}
  <2>1. pc' = [pc EXCEPT ![t] = "idle"]
    BY <1>3 DEF ReturnSignallingWriter, Return, Goto
  <2>2. \A u \in Threads : pc[u] # "wr_sleep"
    BY <1>3 DEF At
  <2> QED
    BY <1>1, <2>1, <2>2 DEF Moved
<1> QED
  BY <1>2, <1>3

(* Waking the readers leaves none asleep. *)
LEMMA BroadcastMoves ==
    ASSUME TypeOK, NEW t \in Threads, ReturnWakingReaders(t), pc[t] # "rd_sleep"
    PROVE  /\ Moved(t)
           /\ pc'[t] = "idle"
           /\ \A u \in Threads : pc'[u] # "rd_sleep"
<1>1. "idle" \in PCs /\ "rd_relock" \in PCs
  BY DEF PCs, FreePCs
<1>2. pc \in [Threads -> PCs]
  BY DEF TypeOK
<1> DEFINE next(u) == CASE u = t              -> "idle"
                         [] pc[u] = "rd_sleep" -> "rd_relock"
                         [] OTHER              -> pc[u]
<1>3. pc' = [u \in Threads |-> next(u)]
  BY DEF ReturnWakingReaders
<1>4. next(t) = "idle"
  OBVIOUS
<1>5. \A u \in Threads \ {t} : next(u) = IF pc[u] = "rd_sleep" THEN "rd_relock" ELSE pc[u]
  OBVIOUS
<1> HIDE DEF next
<1>6. \A u \in Threads : pc'[u] = next(u)
  BY <1>3
<1>7. \A u \in Threads : next(u) \in PCs
  BY <1>1, <1>2, <1>4, <1>5
<1>8. pc' \in [Threads -> PCs]
  BY <1>3, <1>7
<1> QED
  BY <1>4, <1>5, <1>6, <1>8 DEF Moved

(* What my_rw_unlock does to the fields, and whom it moves. *)
LEMMA UnlockMoves ==
    ASSUME TypeOK, NEW t \in Threads, UnlockWriter(t) \/ UnlockReader(t)
    PROVE  /\ Moved(t)
           /\ pc[t] \in {"rd_release", "wr_release"} /\ pc'[t] = "idle"
           /\ mutex' = NoThread /\ waiters' = waiters /\ exists' = exists
           /\ \/ state = -1 /\ state' = 0
              \/ state # -1 /\ state' = state - 1
<1>1. pc[t] \in {"rd_release", "wr_release"}
  BY DEF UnlockWriter, UnlockReader, Releasing
<1>2. "idle" \in PCs
  BY DEF PCs, FreePCs
<1>3. \/ ReturnSignallingWriter(t) \/ ReturnWakingReaders(t) \/ Goto(t, "idle")
  BY DEF UnlockWriter, UnlockReader, Return
<1>4. Moved(t) /\ pc'[t] = "idle"
  BY <1>1, <1>2, <1>3, GotoMoves, SignalMoves, BroadcastMoves
<1> QED
  BY <1>1, <1>4 DEF UnlockWriter, UnlockReader

(* Moved holds of every step. *)
LEMMA StepMoves ==
    ASSUME TypeOK, NEW t \in Threads, Inner(t) \/ Caller(t)
    PROVE  Moved(t)
<1>1. ASSUME NEW l \in PCs, Goto(t, l) PROVE Moved(t)
  BY <1>1, GotoMoves
<1>2. \A l \in OwnerPCs \cup FreePCs : Goto(t, l) => Moved(t)
  BY <1>1 DEF PCs
<1>3. CASE \/ RdAcquire(t) \/ RdReacquire(t) \/ TryRdAcquire(t) \/ WrAcquire(t)
           \/ WrReacquire(t) \/ TryWrAcquire(t) \/ UnlockAcquire(t)
  BY <1>2, <1>3 DEF RdAcquire, RdReacquire, TryRdAcquire, WrAcquire, WrReacquire,
                    TryWrAcquire, UnlockAcquire, Acquire, OwnerPCs
<1>4. CASE \/ RdWait(t) \/ RdLoopBusy(t) \/ RdLoopDone(t) \/ TryRdDone(t) \/ TryRdBusy(t)
           \/ WrWait(t) \/ WrCount(t) \/ WrLoopBusy(t) \/ WrLoopDone(t)
           \/ TryWrDone(t) \/ TryWrBusy(t)
  BY <1>2, <1>4 DEF RdWait, RdLoopBusy, RdLoopDone, TryRdDone, TryRdBusy, WrWait,
                    WrCount, WrLoopBusy, WrLoopDone, TryWrDone, TryWrBusy,
                    Wait, GrantRead, GrantWrite, Return, OwnerPCs, FreePCs
<1>5. CASE UnlockWriter(t) \/ UnlockReader(t)
  BY <1>5, UnlockMoves
<1>6. CASE Caller(t)
  BY <1>2, <1>6 DEF Caller, RdLock, TryRdLock, WrLock, TryWrLock, Unlock,
                    SpuriousWakeup, Call, FreePCs
<1> QED
  BY <1>3, <1>4, <1>5, <1>6 DEF Inner

(* What a step does to the counts of readers and of waiting writers. *)
LEMMA StepCounts ==
    ASSUME NEW t \in Threads, Moved(t), NEW P \in {ReaderPCs, WaiterPCs}
    PROVE  Cardinality(At(P)') = IF pc'[t] \in P
                THEN IF pc[t] \in P THEN Cardinality(At(P)) ELSE Cardinality(At(P)) + 1
                ELSE IF pc[t] \in P THEN Cardinality(At(P)) - 1 ELSE Cardinality(At(P))
<1>1. \A u \in Threads \ {t} : pc'[u] \in P <=> pc[u] \in P
  BY DEF Moved, ReaderPCs, WaiterPCs
<1>2. At(P)' = Where(Threads, pc', P) /\ At(P) = Where(Threads, pc, P)
  BY DEF At, Where
<1>3. Cardinality(Where(Threads, pc', P)) =
           IF pc'[t] \in P
             THEN IF pc[t] \in P THEN Cardinality(Where(Threads, pc, P))
                                 ELSE Cardinality(Where(Threads, pc, P)) + 1
             ELSE IF pc[t] \in P THEN Cardinality(Where(Threads, pc, P)) - 1
                                 ELSE Cardinality(Where(Threads, pc, P))
  BY <1>1, MoveCount, ThreadsAssumption
<1> QED
  BY <1>2, <1>3

(* The steps that neither grant nor release the lock nor queue a writer. *)
Taking(t)   == \/ RdAcquire(t) \/ RdReacquire(t) \/ TryRdAcquire(t) \/ WrAcquire(t)
               \/ WrReacquire(t) \/ TryWrAcquire(t) \/ UnlockAcquire(t)
Refusing(t) == \/ RdWait(t) \/ RdLoopBusy(t) \/ TryRdBusy(t)
               \/ WrWait(t) \/ WrLoopBusy(t) \/ TryWrBusy(t)

(* They leave the fields and what they say of the threads alone. *)
LEMMA QuietSteps ==
    ASSUME TypeOK, NEW t \in Threads, Taking(t) \/ Refusing(t) \/ Caller(t)
    PROVE  /\ state' = state /\ waiters' = waiters /\ exists' = exists
           /\ \A u \in Threads : /\ pc'[u] \in ReaderPCs <=> pc[u] \in ReaderPCs
                                 /\ pc'[u] \in WriterPCs <=> pc[u] \in WriterPCs
                                 /\ pc'[u] \in WaiterPCs <=> pc[u] \in WaiterPCs
<1>1. pc \in [Threads -> PCs]
  BY DEF TypeOK
<1>2. Moved(t)
  BY StepMoves DEF Taking, Refusing, Inner
<1>3. \A u \in Threads \ {t} : /\ pc'[u] \in ReaderPCs <=> pc[u] \in ReaderPCs
                               /\ pc'[u] \in WriterPCs <=> pc[u] \in WriterPCs
                               /\ pc'[u] \in WaiterPCs <=> pc[u] \in WaiterPCs
  BY <1>2 DEF Moved, ReaderPCs, WriterPCs, WaiterPCs
<1>4. state' = state /\ waiters' = waiters /\ exists' = exists
  BY DEF Taking, Refusing, Caller, RdAcquire, RdReacquire, TryRdAcquire, WrAcquire,
         WrReacquire, TryWrAcquire, UnlockAcquire, Acquire, RdWait, RdLoopBusy, TryRdBusy,
         WrWait, WrLoopBusy, TryWrBusy, Wait, RdLock, TryRdLock, WrLock, TryWrLock,
         Unlock, SpuriousWakeup, Call
<1>5. /\ pc'[t] \in ReaderPCs <=> pc[t] \in ReaderPCs
      /\ pc'[t] \in WriterPCs <=> pc[t] \in WriterPCs
      /\ pc'[t] \in WaiterPCs <=> pc[t] \in WaiterPCs
  <2> USE DEF ReaderPCs, WriterPCs, WaiterPCs, Goto
  <2>1. CASE Taking(t)
    BY <1>1, <2>1 DEF Taking, RdAcquire, RdReacquire, TryRdAcquire, WrAcquire,
       WrReacquire, TryWrAcquire, UnlockAcquire, Acquire
  <2>2. CASE Refusing(t)
    BY <1>1, <2>2 DEF Refusing, RdWait, RdLoopBusy, TryRdBusy, WrWait, WrLoopBusy,
       TryWrBusy, Wait, Return
  <2>3. CASE Caller(t)
    BY <1>1, <2>3 DEF Caller, RdLock, TryRdLock, WrLock, TryWrLock, Unlock,
       SpuriousWakeup, Call
  <2> QED
    BY <2>1, <2>2, <2>3
<1> QED
  BY <1>3, <1>4, <1>5

-----------------------------------------------------------------------------
(* state counts the readers, and there is no writer unless it is -1. *)
LEMMA ReadersStep ==
    ASSUME IInv, NEW t \in Threads, Inner(t) \/ Caller(t)
    PROVE  ReadersInv'
<1> DEFINE n == Cardinality(At(ReaderPCs))
           m == Cardinality(At(ReaderPCs)')
<1>1. Moved(t)
  BY StepMoves DEF IInv
<1>2. /\ m = IF pc'[t] \in ReaderPCs THEN IF pc[t] \in ReaderPCs THEN n ELSE n + 1
                                     ELSE IF pc[t] \in ReaderPCs THEN n - 1 ELSE n
      /\ n \in Nat
  BY <1>1, StepCounts, WhereCount, ThreadsAssumption DEF At, Where
<1>3. pc \in [Threads -> PCs] /\ state \in Nat \cup {-1}
  BY DEF IInv, TypeOK
<1>4. /\ state # -1 => state = n
      /\ state # -1 => \A u \in Threads : pc[u] \notin WriterPCs
  BY DEF IInv, ReadersInv
<1>5. state = -1 => \A u, v \in Threads : pc[u] \in WriterPCs /\ u # v =>
                        pc[v] \notin WriterPCs
  BY CountMeaning DEF IInv
<1>6. (state = -1 => n = 0) /\ (state = -1 => pc[t] \notin ReaderPCs)
  BY CountMeaning, WhereCount, ThreadsAssumption DEF IInv, At, Where, WriterInv
<1> HIDE DEF n, m
<1>7. \A u \in Threads \ {t} : pc'[u] \in WriterPCs <=> pc[u] \in WriterPCs
  BY <1>1 DEF Moved, WriterPCs
<1> SUFFICES ASSUME state' # -1
             PROVE  state' = m /\ \A u \in Threads : pc'[u] \notin WriterPCs
  BY DEF ReadersInv, m
<1>8. CASE RdLoopDone(t) \/ TryRdDone(t)
  <2>1. state' = state + 1 /\ pc[t] \in {"rd_loop", "tryrd_test"} /\ pc'[t] = "reading" /\ state # -1
    BY <1>3, <1>8 DEF RdLoopDone, TryRdDone, GrantRead, Goto, ReadersStayOut
  <2> QED
    BY <1>2, <1>3, <1>4, <1>7, <2>1 DEF ReaderPCs, WriterPCs
<1>9. CASE WrLoopDone(t) \/ TryWrDone(t)
  BY <1>9 DEF WrLoopDone, TryWrDone, GrantWrite
<1>10. CASE UnlockWriter(t) \/ UnlockReader(t)
  <2>1. /\ pc[t] \in {"rd_release", "wr_release"} /\ pc'[t] = "idle"
        /\ \/ state = -1 /\ state' = 0
           \/ state # -1 /\ state' = state - 1
    BY <1>10, UnlockMoves DEF IInv
  <2>2. CASE state = -1
    BY <1>2, <1>5, <1>6, <1>7, <2>1, <2>2 DEF ReaderPCs, WriterPCs
  <2>3. CASE state # -1
    BY <1>2, <1>3, <1>4, <1>7, <2>1, <2>3 DEF ReaderPCs, WriterPCs
  <2> QED
    BY <2>2, <2>3
<1>11. CASE Taking(t) \/ Refusing(t) \/ Caller(t)
  BY <1>2, <1>4, <1>11, QuietSteps DEF IInv
<1>12. CASE WrCount(t)
  <2>1. state' = state /\ pc[t] = "wr_count" /\ pc'[t] = "wr_loop"
    BY <1>3, <1>12 DEF WrCount, Goto
  <2> QED
    BY <1>2, <1>4, <1>7, <2>1 DEF ReaderPCs, WriterPCs
<1> QED
  BY <1>8, <1>9, <1>10, <1>11, <1>12 DEF Inner, Taking, Refusing

(* While state is -1 one thread is the writer and nobody reads. *)
LEMMA WriterStep ==
    ASSUME IInv, NEW t \in Threads, Inner(t) \/ Caller(t)
    PROVE  WriterInv'
<1> SUFFICES ASSUME state' = -1
             PROVE  \E v \in Threads : /\ pc'[v] \in WriterPCs
                                       /\ \A u \in Threads \ {v} :
                                             pc'[u] \notin WriterPCs \cup ReaderPCs
  BY DEF WriterInv
<1>1. Moved(t)
  BY StepMoves DEF IInv
<1>2. \A u \in Threads \ {t} : /\ pc'[u] \in WriterPCs <=> pc[u] \in WriterPCs
                               /\ pc'[u] \in ReaderPCs <=> pc[u] \in ReaderPCs
  BY <1>1 DEF Moved, WriterPCs, ReaderPCs
<1>3. pc \in [Threads -> PCs] /\ state \in Nat \cup {-1}
  BY DEF IInv, TypeOK
<1>4. /\ state = 0 => \A u \in Threads : pc[u] \notin ReaderPCs \cup WriterPCs
      /\ pc[t] \in ReaderPCs => state > 0
      /\ pc[t] \in WriterPCs => state = -1
  BY CountMeaning DEF IInv
<1>5. CASE RdLoopDone(t) \/ TryRdDone(t)
  BY <1>3, <1>5 DEF RdLoopDone, TryRdDone, GrantRead, ReadersStayOut
<1>6. CASE WrLoopDone(t) \/ TryWrDone(t)
  <2>1. state = 0 /\ pc'[t] = "writing"
    BY <1>3, <1>6 DEF WrLoopDone, TryWrDone, GrantWrite, Goto
  <2> QED
    BY <1>2, <1>4, <2>1 DEF WriterPCs
<1>7. CASE UnlockWriter(t) \/ UnlockReader(t)
  <2>1. /\ pc[t] \in ReaderPCs \cup WriterPCs
        /\ \/ state = -1 /\ state' = 0
           \/ state # -1 /\ state' = state - 1
    BY <1>7, UnlockMoves DEF IInv, ReaderPCs, WriterPCs
  <2> QED
    BY <1>3, <1>4, <2>1
<1>8. CASE Taking(t) \/ Refusing(t) \/ Caller(t)
  <2>1. PICK v \in Threads : /\ pc[v] \in WriterPCs
                             /\ \A u \in Threads \ {v} : pc[u] \notin WriterPCs \cup ReaderPCs
    BY <1>8, QuietSteps DEF IInv, WriterInv
  <2> QED
    BY <1>8, <2>1, QuietSteps DEF IInv
<1>9. CASE WrCount(t)
  <2>1. state' = state /\ pc[t] = "wr_count" /\ pc'[t] = "wr_loop"
    BY <1>3, <1>9 DEF WrCount, Goto
  <2>2. PICK v \in Threads : /\ pc[v] \in WriterPCs
                             /\ \A u \in Threads \ {v} : pc[u] \notin WriterPCs \cup ReaderPCs
    BY <2>1 DEF IInv, WriterInv
  <2> QED
    BY <1>2, <2>1, <2>2 DEF WriterPCs, ReaderPCs
<1> QED
  BY <1>5, <1>6, <1>7, <1>8, <1>9 DEF Inner, Taking, Refusing

(* waiters counts the writers that wait. *)
LEMMA WaitersStep ==
    ASSUME IInv, NEW t \in Threads, Inner(t) \/ Caller(t)
    PROVE  WaitersInv'
<1> DEFINE n == Cardinality(At(WaiterPCs))
           m == Cardinality(At(WaiterPCs)')
<1> SUFFICES waiters' = m
  BY DEF WaitersInv
<1>1. Moved(t) /\ waiters = n
  BY StepMoves DEF IInv, WaitersInv
<1>2. m = IF pc'[t] \in WaiterPCs THEN IF pc[t] \in WaiterPCs THEN n ELSE n + 1
                                  ELSE IF pc[t] \in WaiterPCs THEN n - 1 ELSE n
  BY <1>1, StepCounts
<1>3. pc \in [Threads -> PCs]
  BY DEF IInv, TypeOK
<1> HIDE DEF n, m
<1>4. CASE RdLoopDone(t) \/ TryRdDone(t) \/ TryWrDone(t)
  <2>1. waiters' = waiters /\ pc[t] \notin WaiterPCs /\ pc'[t] \notin WaiterPCs
    BY <1>3, <1>4 DEF RdLoopDone, TryRdDone, TryWrDone, GrantRead, GrantWrite, Goto, WaiterPCs
  <2> QED
    BY <1>1, <1>2, <2>1
<1>5. CASE WrLoopDone(t)
  <2>1. waiters' = waiters - 1 /\ pc[t] \in WaiterPCs /\ pc'[t] \notin WaiterPCs
    BY <1>3, <1>5 DEF WrLoopDone, GrantWrite, Goto, WaiterPCs
  <2> QED
    BY <1>1, <1>2, <2>1
<1>6. CASE UnlockWriter(t) \/ UnlockReader(t)
  <2>1. waiters' = waiters /\ pc[t] \notin WaiterPCs /\ pc'[t] \notin WaiterPCs
    BY <1>6, UnlockMoves DEF IInv, WaiterPCs
  <2> QED
    BY <1>1, <1>2, <2>1
<1>7. CASE Taking(t) \/ Refusing(t) \/ Caller(t)
  <2>1. waiters' = waiters /\ (pc'[t] \in WaiterPCs <=> pc[t] \in WaiterPCs)
    BY <1>7, QuietSteps DEF IInv
  <2> QED
    BY <1>1, <1>2, <2>1
<1>8. CASE WrCount(t)
  <2>1. waiters' = waiters + 1 /\ pc[t] \notin WaiterPCs /\ pc'[t] \in WaiterPCs
    BY <1>3, <1>8 DEF WrCount, Goto, WaiterPCs
  <2> QED
    BY <1>1, <1>2, <2>1
<1> QED
  BY <1>4, <1>5, <1>6, <1>7, <1>8 DEF Inner, Taking, Refusing

(* The mutex is taken when it is free, kept between two statements under it *)
(* and given up by its owner.                                               *)
LEMMA MutexStep ==
    ASSUME TypeOK, MutexInv, NEW t \in Threads, Inner(t) \/ Caller(t)
    PROVE  /\ MutexInv'
           /\ \/ mutex = t
              \/ UNCHANGED <<state, waiters>>
<1>1. Moved(t) /\ pc \in [Threads -> PCs] /\ NoThread \notin Threads
  BY StepMoves, ThreadsAssumption DEF TypeOK
<1>2. \A u \in Threads \ {t} : pc'[u] \in OwnerPCs <=> pc[u] \in OwnerPCs
  BY <1>1 DEF Moved, OwnerPCs
<1>3. \A u \in Threads : pc[u] \in OwnerPCs <=> mutex = u
  BY DEF MutexInv
<1>4. CASE Taking(t)
  <2>1. /\ mutex = NoThread /\ mutex' = t /\ pc'[t] \in OwnerPCs
        /\ UNCHANGED <<state, waiters>>
    BY <1>1, <1>4 DEF Taking, RdAcquire, RdReacquire, TryRdAcquire, WrAcquire,
       WrReacquire, TryWrAcquire, UnlockAcquire, Acquire, Goto, OwnerPCs
  <2> QED
    BY <1>1, <1>2, <1>3, <2>1 DEF MutexInv
<1>5. CASE RdLoopBusy(t) \/ WrLoopBusy(t) \/ WrCount(t)
  <2>1. mutex' = mutex /\ pc[t] \in OwnerPCs /\ pc'[t] \in OwnerPCs
    BY <1>1, <1>5 DEF RdLoopBusy, WrLoopBusy, WrCount, Goto, OwnerPCs
  <2> QED
    BY <1>1, <1>2, <1>3, <2>1 DEF MutexInv
<1>6. CASE \/ RdWait(t) \/ RdLoopDone(t) \/ TryRdDone(t) \/ TryRdBusy(t)
           \/ WrWait(t) \/ WrLoopDone(t) \/ TryWrDone(t) \/ TryWrBusy(t)
  <2>1. mutex' = NoThread /\ pc[t] \in OwnerPCs /\ pc'[t] \notin OwnerPCs
    BY <1>1, <1>6 DEF RdWait, RdLoopDone, TryRdDone, TryRdBusy, WrWait, WrLoopDone,
       TryWrDone, TryWrBusy, Wait, GrantRead, GrantWrite, Return, Goto, OwnerPCs
  <2> QED
    BY <1>1, <1>2, <1>3, <2>1 DEF MutexInv
<1>7. CASE UnlockWriter(t) \/ UnlockReader(t)
  <2>1. mutex' = NoThread /\ pc[t] \in OwnerPCs /\ pc'[t] \notin OwnerPCs
    BY <1>7, UnlockMoves DEF OwnerPCs
  <2> QED
    BY <1>1, <1>2, <1>3, <2>1 DEF MutexInv
<1>8. CASE Caller(t)
  <2>1. /\ mutex' = mutex /\ pc[t] \notin OwnerPCs /\ pc'[t] \notin OwnerPCs
        /\ UNCHANGED <<state, waiters>>
    BY <1>1, <1>8 DEF Caller, RdLock, TryRdLock, WrLock, TryWrLock, Unlock, SpuriousWakeup,
       Call, Goto, OwnerPCs
  <2> QED
    BY <1>1, <1>2, <1>3, <2>1 DEF MutexInv
<1> QED
  BY <1>4, <1>5, <1>6, <1>7, <1>8 DEF Inner, Taking

(* Nobody but t changes the fields while it holds the mutex, so what its    *)
(* loop found holds when it goes to sleep.                                  *)
LEMMA LoopStep ==
    ASSUME IInv, NEW t \in Threads, Inner(t) \/ Caller(t)
    PROVE  LoopInv'
<1>1. Moved(t) /\ pc \in [Threads -> PCs]
  BY StepMoves DEF IInv, TypeOK
<1>2. \A u \in Threads : /\ pc[u] = "rd_wait" => ReadersStayOut /\ mutex = u
                         /\ pc[u] = "wr_wait" => state # 0 /\ mutex = u
  BY DEF IInv, LoopInv, MutexInv, OwnerPCs
<1>3. mutex = t \/ UNCHANGED <<state, waiters>>
  BY MutexStep DEF IInv
<1>4. \A u \in Threads \ {t} : /\ pc'[u] = "rd_wait" => ReadersStayOut'
                               /\ pc'[u] = "wr_wait" => state' # 0
  BY <1>1, <1>2, <1>3 DEF Moved, ReadersStayOut
<1>5. /\ pc'[t] = "rd_wait" => ReadersStayOut'
      /\ pc'[t] = "wr_wait" => state' # 0
  <2>1. CASE RdLoopBusy(t)
    BY <1>1, <2>1 DEF RdLoopBusy, Goto, ReadersStayOut
  <2>2. CASE WrLoopBusy(t)
    BY <1>1, <2>2 DEF WrLoopBusy, Goto
  <2>3. CASE Taking(t)
    BY <1>1, <2>3 DEF Taking, RdAcquire, RdReacquire, TryRdAcquire, WrAcquire,
       WrReacquire, TryWrAcquire, UnlockAcquire, Acquire, Goto
  <2>4. CASE \/ RdWait(t) \/ RdLoopDone(t) \/ TryRdDone(t) \/ TryRdBusy(t) \/ WrCount(t)
             \/ WrWait(t) \/ WrLoopDone(t) \/ TryWrDone(t) \/ TryWrBusy(t)
    BY <1>1, <2>4 DEF RdWait, RdLoopDone, TryRdDone, TryRdBusy, WrWait, WrLoopDone, WrCount,
       TryWrDone, TryWrBusy, Wait, GrantRead, GrantWrite, Return, Goto
  <2>5. CASE UnlockWriter(t) \/ UnlockReader(t)
    BY <2>5, UnlockMoves DEF IInv
  <2>6. CASE Caller(t)
    BY <1>1, <2>6 DEF Caller, RdLock, TryRdLock, WrLock, TryWrLock, Unlock, SpuriousWakeup,
       Call, Goto
  <2> QED
    BY <2>1, <2>2, <2>3, <2>4, <2>5, <2>6 DEF Inner, Taking
<1> QED
  BY <1>4, <1>5 DEF LoopInv

(* A step keeps every variable in its type; in particular state is never    *)
(* decremented below -1 nor waiters below 0.                                *)
LEMMA TypeStep ==
    ASSUME IInv, NEW t \in Threads, Inner(t) \/ Caller(t), ReadersInv', WaitersInv'
    PROVE  TypeOK'
<1>1. pc' \in [Threads -> PCs]
  BY StepMoves DEF Moved, IInv
<1>2. Cardinality(At(ReaderPCs)') \in Nat /\ Cardinality(At(WaiterPCs)') \in Nat
  BY WhereCount, ThreadsAssumption DEF At, Where
<1>3. state' \in Nat \cup {-1} /\ waiters' \in Nat
  BY <1>2 DEF ReadersInv, WaitersInv
<1>4. mutex \in Threads \cup {NoThread} /\ exists \in BOOLEAN
  BY DEF IInv, TypeOK
<1>5. mutex' \in Threads \cup {NoThread} /\ exists' = exists
  <2>1. CASE UnlockWriter(t) \/ UnlockReader(t)
    BY <2>1, UnlockMoves DEF IInv
  <2>2. CASE Taking(t)
    BY <2>2 DEF Taking, RdAcquire, RdReacquire, TryRdAcquire, WrAcquire,
       WrReacquire, TryWrAcquire, UnlockAcquire, Acquire
  <2>3. CASE Refusing(t) \/ WrCount(t)
    BY <1>4, <2>3 DEF Refusing, RdWait, RdLoopBusy, TryRdBusy, WrWait, WrLoopBusy,
       TryWrBusy, Wait, WrCount
  <2>4. CASE RdLoopDone(t) \/ TryRdDone(t) \/ WrLoopDone(t) \/ TryWrDone(t)
    BY <2>4 DEF RdLoopDone, TryRdDone, WrLoopDone, TryWrDone, GrantRead, GrantWrite
  <2>5. CASE Caller(t)
    BY <1>4, <2>5 DEF Caller, RdLock, TryRdLock, WrLock, TryWrLock, Unlock,
       SpuriousWakeup, Call
  <2> QED
    BY <2>1, <2>2, <2>3, <2>4, <2>5 DEF Inner, Taking, Refusing
<1> QED
  BY <1>1, <1>3, <1>4, <1>5 DEF TypeOK

(* Nobody begins or goes on with a call of a lock that is destroyed.        *)
LEMMA LifeStep ==
    ASSUME IInv, NEW t \in Threads, Inner(t) \/ Caller(t)
    PROVE  exists /\ LifeInv'
<1>1. CASE UnlockWriter(t) \/ UnlockReader(t)
  BY <1>1, UnlockMoves DEF IInv, LifeInv
<1>2. CASE Taking(t)
  BY <1>2 DEF Taking, RdAcquire, RdReacquire, TryRdAcquire, WrAcquire,
     WrReacquire, TryWrAcquire, UnlockAcquire, Acquire, IInv, LifeInv
<1>3. CASE Refusing(t) \/ WrCount(t)
  BY <1>3 DEF Refusing, RdWait, RdLoopBusy, TryRdBusy, WrWait, WrLoopBusy,
     TryWrBusy, Wait, WrCount, IInv, LifeInv
<1>4. CASE RdLoopDone(t) \/ TryRdDone(t) \/ WrLoopDone(t) \/ TryWrDone(t)
  BY <1>4 DEF RdLoopDone, TryRdDone, WrLoopDone, TryWrDone, GrantRead, GrantWrite,
     IInv, LifeInv
<1>5. CASE Caller(t)
  BY <1>5 DEF Caller, RdLock, TryRdLock, WrLock, TryWrLock, Unlock,
     SpuriousWakeup, Call, IInv, LifeInv
<1> QED
  BY <1>1, <1>2, <1>3, <1>4, <1>5 DEF Inner, Taking, Refusing

-----------------------------------------------------------------------------
(* NobodyStranded, thread by thread. *)
LEMMA StrandedMeaning ==
    NobodyStranded <=>
        /\ (\E s \in Threads : pc[s] = "wr_sleep") =>
               state # 0 \/ \E u \in Threads : pc[u] \in {"wr_relock", "wr_loop"}
        /\ (\E s \in Threads : pc[s] = "rd_sleep") => ReadersStayOut
BY DEF NobodyStranded, At

(* Writers: who leaves the lock free has seen in waiters that they wait and *)
(* signals one of them, or is beside one that is awake.                     *)
LEMMA WritersStep ==
    ASSUME IInv, NEW t \in Threads, Inner(t) \/ Caller(t),
           NEW s \in Threads, pc'[s] = "wr_sleep", state' = 0
    PROVE  \E u \in Threads : pc'[u] \in {"wr_relock", "wr_loop"}
<1>1. Moved(t) /\ pc \in [Threads -> PCs] /\ state \in Nat \cup {-1}
  BY StepMoves DEF IInv, TypeOK
<1>2. pc[t] = "wr_wait" => state # 0
  BY DEF IInv, LoopInv
<1>3. s # t => pc[s] = "wr_sleep"
  BY <1>1 DEF Moved
<1>4. s # t /\ state = 0 => \E u \in Threads : pc[u] \in {"wr_relock", "wr_loop"}
  BY <1>3, StrandedMeaning DEF IInv
<1>5. s # t => waiters # 0
  BY <1>3, CountMeaning DEF IInv, WaiterPCs
<1>6. CASE UnlockWriter(t) \/ UnlockReader(t)
  <2>1. s # t /\ pc[t] \notin {"wr_sleep", "rd_sleep"}
    BY <1>6, UnlockMoves DEF IInv
  <2>2. ReturnSignallingWriter(t)
    BY <1>1, <1>5, <1>6, <2>1 DEF UnlockWriter, UnlockReader
  <2> QED
    BY <2>1, <2>2, SignalMoves DEF IInv
<1>7. CASE WrWait(t)
  BY <1>2, <1>7 DEF WrWait, Wait
<1>8. CASE RdLoopDone(t) \/ TryRdDone(t) \/ WrLoopDone(t) \/ TryWrDone(t)
  BY <1>1, <1>8 DEF RdLoopDone, TryRdDone, WrLoopDone, TryWrDone, GrantRead, GrantWrite,
                    ReadersStayOut
<1>9. CASE Taking(t)
  <2>1. /\ state' = state /\ pc'[t] # "wr_sleep"
        /\ pc[t] \in {"wr_relock", "wr_loop"} => pc'[t] \in {"wr_relock", "wr_loop"}
    BY <1>1, <1>9 DEF Taking, RdAcquire, RdReacquire, TryRdAcquire, WrAcquire,
       WrReacquire, TryWrAcquire, UnlockAcquire, Acquire, Goto
  <2> QED
    BY <1>1, <1>4, <2>1 DEF Moved
<1>10. CASE RdWait(t) \/ RdLoopBusy(t) \/ TryRdBusy(t) \/ WrCount(t)
  <2>1. /\ state' = state /\ pc'[t] # "wr_sleep"
        /\ pc[t] \in {"wr_relock", "wr_loop"} => pc'[t] \in {"wr_relock", "wr_loop"}
    BY <1>1, <1>10 DEF RdWait, RdLoopBusy, TryRdBusy, WrCount, Wait, Return, Goto
  <2> QED
    BY <1>1, <1>4, <2>1 DEF Moved
<1>11. CASE WrLoopBusy(t) \/ TryWrBusy(t)
  BY <1>11 DEF WrLoopBusy, TryWrBusy
<1>12. CASE Caller(t)
  <2>1. /\ state' = state /\ pc'[t] # "wr_sleep"
        /\ pc[t] \in {"wr_relock", "wr_loop"} => pc'[t] \in {"wr_relock", "wr_loop"}
    BY <1>1, <1>12 DEF Caller, RdLock, TryRdLock, WrLock, TryWrLock, Unlock,
       SpuriousWakeup, Call, Goto
  <2> QED
    BY <1>1, <1>4, <2>1 DEF Moved
<1> QED
  BY <1>6, <1>7, <1>8, <1>9, <1>10, <1>11, <1>12 DEF Inner, Taking

(* Readers: they sleep behind a writer, and the last writer wakes them all. *)
LEMMA ReadersSleepStep ==
    ASSUME IInv, NEW t \in Threads, Inner(t) \/ Caller(t),
           NEW s \in Threads, pc'[s] = "rd_sleep"
    PROVE  ReadersStayOut'
<1>1. Moved(t) /\ pc \in [Threads -> PCs] /\ state \in Nat \cup {-1} /\ waiters \in Nat
  BY StepMoves DEF IInv, TypeOK
<1>2. s # t => pc[s] = "rd_sleep"
  BY <1>1 DEF Moved
<1>3. s # t => ReadersStayOut
  BY <1>2, StrandedMeaning DEF IInv
<1>4. CASE UnlockWriter(t)
  <2>1. s # t /\ pc[t] # "rd_sleep" /\ waiters' = waiters
    BY <1>4, UnlockMoves DEF IInv
  <2>2. CASE waiters # 0
    BY <2>1, <2>2 DEF ReadersStayOut
  <2>3. CASE waiters = 0
    <3>1. ReturnWakingReaders(t)
      BY <1>4, <2>3 DEF UnlockWriter
    <3> QED
      BY <2>1, <3>1, BroadcastMoves DEF IInv
  <2> QED
    BY <2>2, <2>3
<1>5. CASE UnlockReader(t)
  <2>1. s # t /\ waiters' = waiters /\ ~(state < 0)
    BY <1>1, <1>5, UnlockMoves DEF IInv, UnlockReader
  <2> QED
    BY <1>3, <2>1 DEF ReadersStayOut
<1>6. CASE RdLoopDone(t) \/ TryRdDone(t)
  BY <1>1, <1>3, <1>6 DEF RdLoopDone, TryRdDone, GrantRead, Goto
<1>7. CASE WrLoopDone(t) \/ TryWrDone(t)
  BY <1>7 DEF WrLoopDone, TryWrDone, GrantWrite, ReadersStayOut
<1>8. CASE WrCount(t)
  BY <1>1, <1>8 DEF WrCount, ReadersStayOut
<1>9. CASE RdWait(t)
  BY <1>9 DEF RdWait, Wait, IInv, LoopInv, ReadersStayOut
<1>10. CASE Taking(t) \/ Caller(t)
  <2>1. s # t
    BY <1>1, <1>10 DEF Taking, RdAcquire, RdReacquire, TryRdAcquire, WrAcquire,
       WrReacquire, TryWrAcquire, UnlockAcquire, Acquire, Goto, Caller, RdLock, TryRdLock,
       WrLock, TryWrLock, Unlock, SpuriousWakeup, Call
  <2> QED
    BY <1>3, <1>10, <2>1, QuietSteps DEF IInv, ReadersStayOut
<1>11. CASE RdLoopBusy(t) \/ TryRdBusy(t) \/ WrWait(t) \/ WrLoopBusy(t) \/ TryWrBusy(t)
  <2>1. s # t
    BY <1>1, <1>11 DEF RdLoopBusy, TryRdBusy, WrWait, WrLoopBusy, TryWrBusy, Wait,
       Return, Goto
  <2> QED
    BY <1>3, <1>11, <2>1, QuietSteps DEF IInv, Refusing, ReadersStayOut
<1> QED
  BY <1>4, <1>5, <1>6, <1>7, <1>8, <1>9, <1>10, <1>11 DEF Inner, Taking

-----------------------------------------------------------------------------
(* The lock is destroyed and made again while nobody uses it. *)
LEMMA LifecycleStep ==
    ASSUME IInv, Destroy \/ ReInit
    PROVE  IInv'
<1>1. CASE Destroy
  BY <1>1 DEF Destroy, IInv, TypeOK, MutexInv, ReadersInv, WriterInv, WaitersInv, LoopInv,
              LifeInv, NobodyStranded, ReadersStayOut, At
<1>2. CASE ReInit
  <2>1. /\ \A t \in Threads : pc'[t] = "idle"
        /\ pc' \in [Threads -> PCs]
        /\ mutex' = NoThread /\ state' = 0 /\ waiters' = 0 /\ exists' = TRUE
    BY <1>2 DEF ReInit, IInv, LifeInv, TypeOK
  <2>2. At(ReaderPCs)' = {} /\ At(WaiterPCs)' = {}
    BY <2>1 DEF At, ReaderPCs, WaiterPCs
  <2>3. ReadersInv' /\ WaitersInv'
    BY <2>1, <2>2, FS_EmptySet DEF ReadersInv, WaitersInv, WriterPCs
  <2>4. At({"wr_sleep"})' = {} /\ At({"rd_sleep"})' = {}
    BY <2>1 DEF At
  <2>5. NobodyStranded'
    BY <2>4 DEF NobodyStranded
  <2>6. TypeOK' /\ MutexInv' /\ WriterInv' /\ LoopInv' /\ LifeInv'
    BY <2>1, ThreadsAssumption DEF TypeOK, MutexInv, WriterInv, LoopInv, LifeInv, OwnerPCs
  <2> QED
    BY <2>3, <2>5, <2>6 DEF IInv
<1> QED
  BY <1>1, <1>2

(* NobodyStranded is inductive beside the rest of IInv. *)
LEMMA StrandedStep ==
    ASSUME IInv, NEW t \in Threads, Inner(t) \/ Caller(t)
    PROVE  NobodyStranded'
<1>1. \A s \in Threads : pc'[s] = "rd_sleep" => ReadersStayOut'
  BY ReadersSleepStep
<1>2. \A s \in Threads : pc'[s] = "wr_sleep" /\ state' = 0 =>
          \E u \in Threads : pc'[u] \in {"wr_relock", "wr_loop"}
  BY WritersStep
<1> QED
  BY <1>1, <1>2 DEF NobodyStranded, At

(* Nothing that IInv speaks of changes in a step that changes no variable   *)
(* of the lock.                                                             *)
LEMMA StutterIInv == IInv /\ UNCHANGED vars => IInv'
BY DEF vars, IInv, TypeOK, MutexInv, ReadersInv, WriterInv, WaitersInv, LoopInv, LifeInv,
       NobodyStranded, ReadersStayOut, At

(* IInv is inductive. *)
LEMMA NextIInv == IInv /\ Next => IInv'
<1> SUFFICES ASSUME IInv, Next PROVE IInv'
  OBVIOUS
<1>1. ASSUME NEW t \in Threads, Inner(t) \/ Caller(t) PROVE IInv'
  <2>1. ReadersInv' /\ WriterInv' /\ WaitersInv'
    BY <1>1, ReadersStep, WriterStep, WaitersStep
  <2>2. MutexInv' /\ LoopInv' /\ LifeInv' /\ NobodyStranded'
    BY <1>1, MutexStep, LoopStep, LifeStep, StrandedStep DEF IInv
  <2>3. TypeOK'
    BY <1>1, <2>1, TypeStep
  <2> QED
    BY <2>1, <2>2, <2>3 DEF IInv
<1>2. CASE Destroy \/ ReInit
  BY <1>2, LifecycleStep
<1> QED
  BY <1>1, <1>2 DEF Next, Caller

(* IInv holds in every reachable state, for every set of threads.           *)
THEOREM PortableInvariant == Spec => []IInv
<1>1. IInv /\ [Next]_vars => IInv'
  BY NextIInv, StutterIInv
<1> QED
  BY <1>1, InitIInv, PTL DEF Spec

-----------------------------------------------------------------------------
(* The asserts of my_rw_unlock and my_rw_destroy, of one state. *)
LEMMA InvAsserts == IInv => AssertsHold
<1> SUFFICES ASSUME IInv PROVE AssertsHold
  OBVIOUS
<1>1. \A t \in Threads : /\ pc[t] = "rd_release" => state > 0
                         /\ pc[t] = "wr_release" => state = -1
  BY CountMeaning DEF IInv, ReaderPCs, WriterPCs
<1>2. ASSUME At({"idle"}) = Threads PROVE state = 0 /\ waiters = 0 /\ mutex = NoThread
  <2>1. \A t \in Threads : pc[t] = "idle"
    BY <1>2 DEF At
  <2>2. state = 0 /\ waiters = 0
    BY <2>1, CountMeaning DEF IInv, ReaderPCs, WriterPCs, WaiterPCs
  <2>3. mutex = NoThread
    BY <2>1 DEF IInv, MutexInv, TypeOK, OwnerPCs
  <2> QED
    BY <2>2, <2>3
<1> QED
  BY <1>1, <1>2 DEF AssertsHold

(* No assert of the portable lock fails, and it is left as it was made.     *)
THEOREM PortableAsserts == Spec => []AssertsHold
BY InvAsserts, PortableInvariant, PTL

(* Whoever sleeps in the portable lock will be woken by somebody.           *)
THEOREM PortableWakes == Spec => []NobodyStranded
<1>1. IInv => NobodyStranded
  BY DEF IInv
<1> QED
  BY <1>1, PortableInvariant, PTL

-----------------------------------------------------------------------------
(* What a step of t does to the threads that hold the lock, those with pc   *)
(* in R or W: four kinds of steps change them, the others do not.           *)
HoldersStep(t, R, W) ==
    \/ /\ pc[t] \notin R /\ pc'[t] \in R
       /\ pc[t] \notin W /\ pc'[t] \notin W
       /\ \A u \in Threads : pc[u] \notin W
    \/ /\ pc'[t] \in W /\ pc'[t] \notin R
       /\ \A u \in Threads : pc[u] \notin R \cup W
    \/ /\ pc[t] \in R /\ pc'[t] \notin R
       /\ pc[t] \notin W /\ pc'[t] \notin W
    \/ /\ pc[t] \in W /\ pc'[t] \notin W
       /\ pc[t] \notin R /\ pc'[t] \notin R
       /\ \A u \in Threads \ {t} : pc[u] \notin W
    \/ /\ pc[t] \in R <=> pc'[t] \in R
       /\ pc[t] \in W <=> pc'[t] \in W

(* Every step of a call of the portable lock is one of these. *)
LEMMA StepHolders ==
    ASSUME IInv, NEW t \in Threads, Inner(t) \/ Caller(t)
    PROVE  HoldersStep(t, ReaderPCs, WriterPCs)
<1>1. pc \in [Threads -> PCs] /\ state \in Nat \cup {-1}
  BY DEF IInv, TypeOK
<1>2. /\ state = 0 => \A u \in Threads : pc[u] \notin ReaderPCs \cup WriterPCs
      /\ state # -1 => \A u \in Threads : pc[u] \notin WriterPCs
      /\ pc[t] \in WriterPCs => \A u \in Threads \ {t} : pc[u] \notin WriterPCs
  BY CountMeaning DEF IInv
<1>3. CASE RdLoopDone(t) \/ TryRdDone(t)
  <2>1. state # -1 /\ pc[t] \in {"rd_loop", "tryrd_test"} /\ pc'[t] = "reading"
    BY <1>1, <1>3 DEF RdLoopDone, TryRdDone, GrantRead, ReadersStayOut, Goto
  <2> QED
    BY <1>2, <2>1 DEF HoldersStep, ReaderPCs, WriterPCs
<1>4. CASE WrLoopDone(t) \/ TryWrDone(t)
  <2>1. state = 0 /\ pc'[t] = "writing"
    BY <1>1, <1>4 DEF WrLoopDone, TryWrDone, GrantWrite, Goto
  <2> QED
    BY <1>2, <2>1 DEF HoldersStep, ReaderPCs, WriterPCs
<1>5. CASE UnlockWriter(t) \/ UnlockReader(t)
  <2>1. pc[t] \in {"rd_release", "wr_release"} /\ pc'[t] = "idle"
    BY <1>5, UnlockMoves DEF IInv
  <2> QED
    BY <1>2, <2>1 DEF HoldersStep, ReaderPCs, WriterPCs
<1>6. CASE WrCount(t)
  BY <1>1, <1>6 DEF WrCount, Goto, HoldersStep, ReaderPCs, WriterPCs
<1>7. CASE Taking(t) \/ Refusing(t) \/ Caller(t)
  BY <1>7, QuietSteps DEF IInv, HoldersStep
<1> QED
  BY <1>3, <1>4, <1>5, <1>6, <1>7 DEF Inner, Taking, Refusing

-----------------------------------------------------------------------------
(* The inductive invariant of the slim lock. *)
SlimTypeInv == /\ srwlock \in Nat \cup {-1}
               /\ have_exclusive_srwlock \in BOOLEAN
               /\ pc \in [Threads -> Slim!PCs]

(* The system's lock counts its sharers while it is not held exclusively. *)
SharersInv == srwlock # -1 => /\ srwlock = Cardinality(At(Slim!ReaderPCs))
                              /\ \A t \in Threads : pc[t] \notin Slim!WriterPCs

(* It is exclusive for one thread, who is alone. *)
ExclusiveInv == srwlock = -1 =>
                  \E t \in Threads : /\ pc[t] \in Slim!WriterPCs
                                     /\ \A u \in Threads \ {t} :
                                           pc[u] \notin Slim!WriterPCs \cup Slim!ReaderPCs

(* The flag is set from the moment the writer has set it until it clears   *)
(* it: never while a reader may look.                                      *)
FlagInv == have_exclusive_srwlock <=> \E t \in Threads : pc[t] \in {"writing", "clear_flag"}

SlimInv == SlimTypeInv /\ SharersInv /\ ExclusiveInv /\ FlagInv

(* Only one of the two locks is used; the other stays as it was made. *)
AnyIInv == /\ have_srwlock \in BOOLEAN
           /\ have_srwlock  => /\ SlimInv
                               /\ mutex = NoThread /\ state = 0 /\ waiters = 0 /\ exists = TRUE
           /\ ~have_srwlock => /\ IInv
                               /\ srwlock = 0 /\ have_exclusive_srwlock = FALSE
-----------------------------------------------------------------------------
(* What SlimInv says of the fields, thread by thread. *)
LEMMA SlimMeaning ==
    ASSUME SlimInv
    PROVE  /\ srwlock = 0 => \A t \in Threads : pc[t] \notin Slim!ReaderPCs \cup Slim!WriterPCs
           /\ srwlock # -1 => \A t \in Threads : pc[t] \notin Slim!WriterPCs
           /\ \A t \in Threads : /\ pc[t] \in Slim!WriterPCs => srwlock = -1
                                 /\ pc[t] \in Slim!ReaderPCs => srwlock > 0
           /\ \A t, u \in Threads : pc[t] \in Slim!WriterPCs /\ u # t =>
                                       pc[u] \notin Slim!WriterPCs \cup Slim!ReaderPCs
           /\ srwlock = -1 => Cardinality(At(Slim!ReaderPCs)) = 0
<1>1. /\ Cardinality(At(Slim!ReaderPCs)) \in Nat
      /\ Cardinality(At(Slim!ReaderPCs)) = 0 <=> \A t \in Threads : pc[t] \notin Slim!ReaderPCs
  BY WhereCount, ThreadsAssumption DEF At, Where
<1>2. srwlock \in Nat \cup {-1}
  BY DEF SlimInv, SlimTypeInv
<1>3. \A l \in Slim!ReaderPCs : l \notin Slim!WriterPCs
  BY DEF Slim!ReaderPCs, Slim!WriterPCs
<1>4. CASE srwlock = -1
  BY <1>1, <1>3, <1>4 DEF ExclusiveInv, SlimInv
<1>5. CASE srwlock \in Nat
  BY <1>1, <1>5 DEF SharersInv, SlimInv
<1> QED
  BY <1>2, <1>4, <1>5

(* The steps of a thread on the slim lock, by what they do to it. *)
SlimGrant(t)   == \/ Slim!SrwRdLock(t) \/ Slim!SrwTryRdLock(t)
SlimWrite(t)   == \/ Slim!SrwWrLock(t) \/ Slim!SrwTryWrLock(t)
SlimRelease(t) == \/ Slim!SrwReleaseShared(t) \/ Slim!SrwReleaseExclusive(t)
SlimQuiet(t)   == \/ Slim!Call(t) \/ Slim!SrwTryBusy(t)
                  \/ Slim!SetFlag(t) \/ Slim!SrwUnlock(t) \/ Slim!ClearFlag(t)

SlimStep(t) == SlimGrant(t) \/ SlimWrite(t) \/ SlimRelease(t) \/ SlimQuiet(t)

(* One thread moves, and the others stay where they are. *)
SlimMoved(t) == /\ pc' \in [Threads -> Slim!PCs]
                /\ \A u \in Threads \ {t} : pc'[u] = pc[u]

(* SlimMoved holds of every step. *)
LEMMA SlimMoves ==
    ASSUME SlimTypeInv, NEW t \in Threads, SlimStep(t)
    PROVE  SlimMoved(t)
<1>1. ASSUME NEW from, NEW to \in Slim!PCs, Slim!Goto(t, from, to) PROVE SlimMoved(t)
  BY <1>1 DEF Slim!Goto, SlimTypeInv, SlimMoved
<1> USE DEF Slim!PCs, Slim!ReaderPCs, Slim!WriterPCs
<1>2. CASE SlimGrant(t) \/ SlimWrite(t)
  BY <1>1, <1>2 DEF SlimGrant, SlimWrite, Slim!SrwRdLock, Slim!SrwTryRdLock,
                    Slim!SrwWrLock, Slim!SrwTryWrLock
<1>3. CASE SlimRelease(t)
  BY <1>1, <1>3 DEF SlimRelease, Slim!SrwReleaseShared, Slim!SrwReleaseExclusive
<1>4. CASE SlimQuiet(t)
  BY <1>1, <1>4 DEF SlimQuiet, Slim!Call, Slim!SrwTryBusy, Slim!SetFlag, Slim!SrwUnlock,
                    Slim!ClearFlag
<1> QED
  BY <1>2, <1>3, <1>4 DEF SlimStep

(* srw_unlock takes the branch of the mode its caller holds, because of     *)
(* FlagInv, so it leaves readers readers and writers writers; so do the     *)
(* other steps that are not a grant or a release.                           *)
LEMMA SlimQuietSteps ==
    ASSUME SlimInv, NEW t \in Threads, SlimQuiet(t)
    PROVE  /\ srwlock' = srwlock
           /\ \A u \in Threads : /\ pc'[u] \in Slim!ReaderPCs <=> pc[u] \in Slim!ReaderPCs
                                 /\ pc'[u] \in Slim!WriterPCs <=> pc[u] \in Slim!WriterPCs
<1>1. SlimMoved(t) /\ pc \in [Threads -> Slim!PCs]
  BY SlimMoves DEF SlimStep, SlimInv, SlimTypeInv
<1>2. srwlock' = srwlock
  BY DEF SlimQuiet, Slim!Call, Slim!SrwTryBusy, Slim!SetFlag, Slim!SrwUnlock, Slim!ClearFlag
<1>3. /\ pc[t] = "reading" => ~have_exclusive_srwlock
      /\ pc[t] = "writing" => have_exclusive_srwlock
  <2>1. pc[t] = "writing" => have_exclusive_srwlock
    BY DEF SlimInv, FlagInv
  <2>2. pc[t] = "reading" => \A u \in Threads : pc[u] \notin {"writing", "clear_flag"}
    BY SlimMeaning DEF Slim!ReaderPCs, Slim!WriterPCs
  <2>3. pc[t] = "reading" => ~have_exclusive_srwlock
    BY <2>2 DEF SlimInv, FlagInv
  <2> QED
    BY <2>1, <2>3
<1>4. /\ pc'[t] \in Slim!ReaderPCs <=> pc[t] \in Slim!ReaderPCs
      /\ pc'[t] \in Slim!WriterPCs <=> pc[t] \in Slim!WriterPCs
  <2> USE DEF Slim!ReaderPCs, Slim!WriterPCs, Slim!Goto
  <2>1. CASE Slim!Call(t) \/ Slim!SrwTryBusy(t) \/ Slim!SetFlag(t) \/ Slim!ClearFlag(t)
    BY <1>1, <2>1 DEF Slim!Call, Slim!SrwTryBusy, Slim!SetFlag, Slim!ClearFlag
  <2>2. CASE Slim!SrwUnlock(t)
    BY <1>1, <1>3, <2>2 DEF Slim!SrwUnlock
  <2> QED
    BY <2>1, <2>2 DEF SlimQuiet
<1> QED
  BY <1>1, <1>2, <1>4 DEF SlimMoved

(* What the grants and releases of the slim lock do. *)
LEMMA SlimLockSteps ==
    ASSUME SlimInv, NEW t \in Threads
    PROVE  /\ SlimGrant(t) => /\ pc[t] \in {"rdlock", "tryrdlock"} /\ pc'[t] = "reading"
                              /\ srwlock \in Nat /\ srwlock' = srwlock + 1
           /\ SlimWrite(t) => /\ pc[t] \in {"wrlock", "trywrlock"} /\ pc'[t] = "set_flag"
                              /\ srwlock = 0 /\ srwlock' = -1
           /\ SlimRelease(t) =>
                 \/ /\ pc[t] = "release_shared" /\ pc'[t] = "idle"
                    /\ srwlock > 0 /\ srwlock' = srwlock - 1
                 \/ /\ pc[t] = "release_exclusive" /\ pc'[t] = "idle"
                    /\ srwlock = -1 /\ srwlock' = 0
           /\ SlimGrant(t) \/ SlimWrite(t) \/ SlimRelease(t) =>
                 have_exclusive_srwlock' = have_exclusive_srwlock
<1>1. pc \in [Threads -> Slim!PCs] /\ srwlock \in Nat \cup {-1}
  BY DEF SlimInv, SlimTypeInv
<1>2. /\ pc[t] = "release_shared" => srwlock > 0
      /\ pc[t] = "release_exclusive" => srwlock = -1
  BY SlimMeaning DEF Slim!ReaderPCs, Slim!WriterPCs
<1>3. CASE SlimGrant(t)
  BY <1>1, <1>3 DEF SlimGrant, SlimWrite, SlimRelease, Slim!SrwRdLock, Slim!SrwTryRdLock, Slim!Goto,
     Slim!AcquireShared, Slim!SrwWrLock, Slim!SrwTryWrLock, Slim!SrwReleaseShared,
     Slim!SrwReleaseExclusive
<1>4. CASE SlimWrite(t)
  BY <1>1, <1>4 DEF SlimGrant, SlimWrite, SlimRelease, Slim!SrwRdLock, Slim!SrwTryRdLock, Slim!Goto,
     Slim!AcquireExclusive, Slim!SrwWrLock, Slim!SrwTryWrLock, Slim!SrwReleaseShared,
     Slim!SrwReleaseExclusive
<1>5. CASE SlimRelease(t)
  BY <1>1, <1>2, <1>5 DEF SlimGrant, SlimWrite, SlimRelease, Slim!SrwRdLock, Slim!SrwTryRdLock,
     Slim!Goto, Slim!ReleaseShared, Slim!ReleaseExclusive, Slim!SrwWrLock, Slim!SrwTryWrLock,
     Slim!SrwReleaseShared, Slim!SrwReleaseExclusive
<1> QED
  BY <1>3, <1>4, <1>5

(* The lock counts its sharers, and is exclusive for nobody unless it is -1. *)
LEMMA SharersStep ==
    ASSUME SlimInv, NEW t \in Threads, SlimStep(t)
    PROVE  SharersInv'
<1> DEFINE R == Slim!ReaderPCs
           n == Cardinality(Where(Threads, pc, R))
           m == Cardinality(Where(Threads, pc', R))
<1>1. SlimMoved(t) /\ srwlock \in Nat \cup {-1} /\ n \in Nat
  BY SlimMoves, WhereCount, ThreadsAssumption DEF SlimInv, SlimTypeInv
<1>2. m = IF pc'[t] \in R THEN IF pc[t] \in R THEN n ELSE n + 1
                          ELSE IF pc[t] \in R THEN n - 1 ELSE n
  <2>1. \A u \in Threads \ {t} : pc'[u] \in R <=> pc[u] \in R
    BY <1>1 DEF SlimMoved
  <2> HIDE DEF R
  <2> QED
    BY <2>1, MoveCount, ThreadsAssumption
<1>3. srwlock # -1 => srwlock = n /\ \A u \in Threads : pc[u] \notin Slim!WriterPCs
  BY DEF SlimInv, SharersInv, At, Where
<1>4. /\ srwlock = -1 => n = 0
      /\ srwlock = -1 => pc[t] \notin R
      /\ pc[t] \in Slim!WriterPCs => \A u \in Threads \ {t} : pc[u] \notin Slim!WriterPCs
  BY SlimMeaning DEF At, Where
<1>5. \A u \in Threads \ {t} : pc'[u] \in Slim!WriterPCs <=> pc[u] \in Slim!WriterPCs
  BY <1>1 DEF SlimMoved
<1> SUFFICES ASSUME srwlock' # -1
             PROVE  srwlock' = m /\ \A u \in Threads : pc'[u] \notin Slim!WriterPCs
  BY DEF SharersInv, At, Where
<1> HIDE DEF n, m
<1>6. CASE SlimGrant(t)
  <2>1. /\ pc[t] \notin R /\ pc'[t] \in R /\ pc'[t] \notin Slim!WriterPCs
        /\ srwlock \in Nat /\ srwlock' = srwlock + 1
    BY <1>6, SlimLockSteps DEF Slim!ReaderPCs, Slim!WriterPCs
  <2> QED
    BY <1>2, <1>3, <1>5, <2>1
<1>7. CASE SlimWrite(t)
  BY <1>7, SlimLockSteps
<1>8. CASE SlimRelease(t)
  <2>1. pc'[t] \notin R /\ pc'[t] \notin Slim!WriterPCs
    BY <1>8, SlimLockSteps DEF Slim!ReaderPCs, Slim!WriterPCs
  <2>2. \/ pc[t] \in R /\ srwlock > 0 /\ srwlock' = srwlock - 1
        \/ pc[t] \in Slim!WriterPCs /\ srwlock = -1 /\ srwlock' = 0
    BY <1>8, SlimLockSteps DEF Slim!ReaderPCs, Slim!WriterPCs
  <2>3. CASE pc[t] \in R /\ srwlock > 0 /\ srwlock' = srwlock - 1
    BY <1>1, <1>2, <1>3, <1>5, <2>1, <2>3
  <2>4. CASE pc[t] \in Slim!WriterPCs /\ srwlock = -1 /\ srwlock' = 0
    BY <1>2, <1>4, <1>5, <2>1, <2>4
  <2> QED
    BY <2>2, <2>3, <2>4
<1>9. CASE SlimQuiet(t)
  BY <1>2, <1>3, <1>9, SlimQuietSteps
<1> QED
  BY <1>6, <1>7, <1>8, <1>9 DEF SlimStep

(* While it is -1 one thread is the writer and nobody reads. *)
LEMMA ExclusiveStep ==
    ASSUME SlimInv, NEW t \in Threads, SlimStep(t)
    PROVE  ExclusiveInv'
<1> SUFFICES ASSUME srwlock' = -1
             PROVE  \E v \in Threads : /\ pc'[v] \in Slim!WriterPCs
                                       /\ \A u \in Threads \ {v} :
                                             pc'[u] \notin Slim!WriterPCs \cup Slim!ReaderPCs
  BY DEF ExclusiveInv
<1>1. SlimMoved(t)
  BY SlimMoves DEF SlimInv
<1>2. CASE SlimWrite(t)
  <2>1. pc'[t] \in Slim!WriterPCs
    BY <1>2, SlimLockSteps DEF Slim!WriterPCs
  <2>2. \A u \in Threads : pc[u] \notin Slim!ReaderPCs \cup Slim!WriterPCs
    BY <1>2, SlimLockSteps, SlimMeaning
  <2> QED
    BY <1>1, <2>1, <2>2 DEF SlimMoved
<1>3. CASE SlimQuiet(t)
  <2>1. PICK v \in Threads : /\ pc[v] \in Slim!WriterPCs
                             /\ \A u \in Threads \ {v} :
                                   pc[u] \notin Slim!WriterPCs \cup Slim!ReaderPCs
    BY <1>3, SlimQuietSteps DEF SlimInv, ExclusiveInv
  <2> QED
    BY <1>3, <2>1, SlimQuietSteps
<1>4. CASE SlimGrant(t) \/ SlimRelease(t)
  BY <1>4, SlimLockSteps
<1> QED
  BY <1>2, <1>3, <1>4 DEF SlimStep

(* The flag follows its writer. *)
LEMMA FlagStep ==
    ASSUME SlimInv, NEW t \in Threads, SlimStep(t)
    PROVE  FlagInv' /\ have_exclusive_srwlock' \in BOOLEAN
<1> DEFINE Flagged(l) == l \in {"writing", "clear_flag"}
<1>1. SlimMoved(t) /\ pc \in [Threads -> Slim!PCs] /\ have_exclusive_srwlock \in BOOLEAN
  BY SlimMoves DEF SlimInv, SlimTypeInv
<1>2. have_exclusive_srwlock <=> \E u \in Threads : Flagged(pc[u])
  BY DEF SlimInv, FlagInv
<1>3. CASE SlimGrant(t) \/ SlimWrite(t) \/ SlimRelease(t) \/ Slim!Call(t) \/ Slim!SrwTryBusy(t)
  <2>1. /\ have_exclusive_srwlock' = have_exclusive_srwlock
        /\ ~Flagged(pc[t]) /\ ~Flagged(pc'[t])
    <3>1. CASE SlimGrant(t) \/ SlimWrite(t) \/ SlimRelease(t)
      BY <3>1, SlimLockSteps
    <3>2. CASE Slim!Call(t) \/ Slim!SrwTryBusy(t)
      BY <1>1, <3>2 DEF Slim!Call, Slim!SrwTryBusy, Slim!Goto
    <3> QED
      BY <1>3, <3>1, <3>2
  <2> QED
    BY <1>1, <1>2, <2>1 DEF SlimMoved, FlagInv
<1>4. CASE Slim!SetFlag(t)
  BY <1>1, <1>4 DEF Slim!SetFlag, Slim!Goto, FlagInv
<1>5. CASE Slim!ClearFlag(t)
  <2>1. /\ pc[t] \in Slim!WriterPCs /\ pc'[t] = "release_exclusive"
        /\ have_exclusive_srwlock' = FALSE
    BY <1>1, <1>5 DEF Slim!ClearFlag, Slim!Goto, Slim!WriterPCs
  <2>2. \A u \in Threads \ {t} : pc[u] \notin Slim!WriterPCs
    BY <2>1, SlimMeaning
  <2> QED
    BY <1>1, <2>1, <2>2 DEF SlimMoved, FlagInv, Slim!WriterPCs
<1>6. CASE Slim!SrwUnlock(t)
  <2>1. /\ have_exclusive_srwlock' = have_exclusive_srwlock
        /\ pc[t] \in {"reading", "writing"}
        /\ pc'[t] = IF have_exclusive_srwlock THEN "clear_flag" ELSE "release_shared"
    BY <1>1, <1>6 DEF Slim!SrwUnlock, Slim!Goto
  <2>2. CASE have_exclusive_srwlock
    BY <1>1, <2>1, <2>2 DEF FlagInv
  <2>3. CASE ~have_exclusive_srwlock
    BY <1>1, <1>2, <2>1, <2>3 DEF SlimMoved, FlagInv
  <2> QED
    BY <2>2, <2>3
<1> QED
  BY <1>3, <1>4, <1>5, <1>6 DEF SlimStep, SlimQuiet

(* SlimInv is kept by every step on the slim lock. *)
LEMMA SlimStepInv ==
    ASSUME SlimInv, NEW t \in Threads, SlimStep(t)
    PROVE  SlimInv'
<1>1. SharersInv' /\ ExclusiveInv' /\ FlagInv' /\ have_exclusive_srwlock' \in BOOLEAN
  BY SharersStep, ExclusiveStep, FlagStep
<1>2. pc' \in [Threads -> Slim!PCs]
  BY SlimMoves DEF SlimInv, SlimMoved
<1>3. Cardinality(At(Slim!ReaderPCs)') \in Nat
  BY WhereCount, ThreadsAssumption DEF At, Where
<1>4. srwlock' \in Nat \cup {-1}
  BY <1>1, <1>3 DEF SharersInv
<1> QED
  BY <1>1, <1>2, <1>4 DEF SlimInv, SlimTypeInv

-----------------------------------------------------------------------------
(* The initial states: either lock, made and unused. *)
LEMMA AnyInitInv == AnyInit => AnyIInv
<1> SUFFICES ASSUME AnyInit PROVE AnyIInv
  OBVIOUS
<1>1. IInv
  BY InitIInv DEF AnyInit
<1>2. /\ have_srwlock \in BOOLEAN /\ srwlock = 0 /\ have_exclusive_srwlock = FALSE
      /\ mutex = NoThread /\ state = 0 /\ waiters = 0 /\ exists = TRUE
      /\ pc = [u \in Threads |-> "idle"]
  BY DEF AnyInit, Init, Slim!Init
<1>3. At(Slim!ReaderPCs) = {}
  BY <1>2 DEF At, Slim!ReaderPCs
<1>4. SharersInv
  BY <1>2, <1>3, FS_EmptySet DEF SharersInv, Slim!WriterPCs
<1>5. SlimTypeInv
  <2>1. "idle" \in Slim!PCs
    BY DEF Slim!PCs
  <2> QED
    BY <1>2, <2>1 DEF SlimTypeInv
<1>6. ExclusiveInv /\ FlagInv
  <2>1. \A u \in Threads : pc[u] = "idle"
    BY <1>2
  <2> QED
    BY <1>2, <2>1 DEF ExclusiveInv, FlagInv
<1> QED
  BY <1>1, <1>2, <1>4, <1>5, <1>6 DEF AnyIInv, SlimInv

(* The steps on the slim lock are those named above. *)
LEMMA SlimNext ==
    ASSUME Slim!Next
    PROVE  \E t \in Threads : SlimStep(t)
BY DEF Slim!Next, SlimStep, SlimGrant, SlimWrite, SlimRelease, SlimQuiet

(* AnyIInv is inductive. *)
LEMMA AnyNextInv == AnyIInv /\ [OnPortable \/ OnSlim]_anyVars => AnyIInv'
<1> SUFFICES ASSUME AnyIInv, [OnPortable \/ OnSlim]_anyVars PROVE AnyIInv'
  OBVIOUS
<1>1. CASE OnPortable
  <2>1. IInv' /\ ~have_srwlock
    BY <1>1, NextIInv DEF OnPortable, AnyIInv
  <2> QED
    BY <1>1, <2>1 DEF OnPortable, slimFields, AnyIInv
<1>2. CASE OnSlim
  <2>1. SlimInv' /\ have_srwlock
    BY <1>2, SlimNext, SlimStepInv DEF OnSlim, AnyIInv
  <2> QED
    BY <1>2, <2>1 DEF OnSlim, portableFields, AnyIInv
<1>3. CASE UNCHANGED anyVars
  <2>1. UNCHANGED <<pc, mutex, state, waiters, exists, srwlock, have_exclusive_srwlock, have_srwlock>>
    BY <1>3 DEF anyVars, portableFields, slimFields
  <2>2. IInv => IInv'
    BY <2>1, StutterIInv DEF vars
  <2>3. SlimInv => SlimInv'
    BY <2>1 DEF SlimInv, SlimTypeInv, SharersInv, ExclusiveInv, FlagInv, At
  <2> QED
    BY <2>1, <2>2, <2>3 DEF AnyIInv
<1> QED
  BY <1>1, <1>2, <1>3

(* It holds of every state of my_rw_lock_t, whichever lock it is.           *)
THEOREM AnyInvariant == AnySpec => []AnyIInv
BY AnyInitInv, AnyNextInv, PTL DEF AnySpec

-----------------------------------------------------------------------------
(* The variables keep their types, and the slim lock is released in the     *)
(* mode it is held in, which srw_unlock knows from a flag that nothing but  *)
(* the lock protects.                                                       *)
THEOREM SlimReleases == AnySpec => []ReleasesHeldMode
<1>1. AnyIInv => ReleasesHeldMode
  <2> SUFFICES ASSUME AnyIInv PROVE ReleasesHeldMode
    OBVIOUS
  <2>1. CASE have_srwlock
    <3>1. SlimInv
      BY <2>1 DEF AnyIInv
    <3>2. Cardinality(At(Slim!ReaderPCs)) <= Cardinality(Threads)
      BY FS_Subset, ThreadsAssumption DEF At
    <3>3. Cardinality(Threads) \in Nat
      BY FS_CardinalityType, ThreadsAssumption
    <3>4. srwlock \in -1 .. Cardinality(Threads)
      BY <3>1, <3>2, <3>3 DEF SlimInv, SharersInv, SlimTypeInv
    <3>5. AnyTypeOK
      <4>1. Slim!Cardinality(Threads) = Cardinality(Threads)
        BY DEF Slim!Cardinality, Cardinality
      <4>2. Slim!TypeOK
        BY <3>1, <3>4, <4>1 DEF Slim!TypeOK, SlimInv, SlimTypeInv
      <4> QED
        BY <2>1, <4>2 DEF AnyTypeOK
    <3> QED
      BY <3>1, <3>5, SlimMeaning DEF ReleasesHeldMode, Slim!ReaderPCs, Slim!WriterPCs
  <2>2. CASE ~have_srwlock
    <3>1. TypeOK
      BY <2>2 DEF AnyIInv, IInv
    <3>2. \A t \in Threads : pc[t] \in PCs
      BY <3>1 DEF TypeOK
    <3> QED
      BY <2>2, <3>1, <3>2
         DEF AnyIInv, AnyTypeOK, ReleasesHeldMode, PCs, OwnerPCs, FreePCs
  <2> QED
    BY <2>1, <2>2 DEF AnyIInv
<1> QED
  BY <1>1, AnyInvariant, PTL

(* On the slim lock no thread is at a statement of the portable one.        *)
LEMMA SlimThreads ==
    ASSUME AnyIInv, have_srwlock
    PROVE  \A t \in Threads : pc[t] \in Slim!PCs
BY DEF AnyIInv, SlimInv, SlimTypeInv

(* No assert fails on either lock.                                          *)
THEOREM AnyAsserts == AnySpec => []AssertsHold
<1>1. AnyIInv => AssertsHold
  <2> SUFFICES ASSUME AnyIInv PROVE AssertsHold
    OBVIOUS
  <2>1. CASE have_srwlock
    BY <2>1, SlimThreads
       DEF AnyIInv, AssertsHold, Slim!PCs, Slim!ReaderPCs, Slim!WriterPCs
  <2>2. CASE ~have_srwlock
    BY <2>2, InvAsserts DEF AnyIInv
  <2> QED
    BY <2>1, <2>2
<1> QED
  BY <1>1, AnyInvariant, PTL

(* Nobody is stranded on either lock; on the slim one the library itself    *)
(* puts nobody to sleep.                                                    *)
THEOREM AnyWakes == AnySpec => []NobodyStranded
<1>1. AnyIInv => NobodyStranded
  <2> SUFFICES ASSUME AnyIInv PROVE NobodyStranded
    OBVIOUS
  <2>1. CASE have_srwlock
    BY <2>1, SlimThreads DEF NobodyStranded, At, Slim!PCs, Slim!ReaderPCs, Slim!WriterPCs
  <2>2. CASE ~have_srwlock
    BY <2>2 DEF AnyIInv, IInv
  <2> QED
    BY <2>1, <2>2
<1> QED
  BY <1>1, AnyInvariant, PTL

-----------------------------------------------------------------------------
(* Both locks implement RWLock. *)
Readers == ReaderPCs \cup Slim!ReaderPCs
Writers == WriterPCs \cup Slim!WriterPCs

(* A step of the kinds of HoldersStep, in which nobody else gets or loses   *)
(* the lock, is a step of RWLock or changes nothing that RWLock sees.       *)
LEMMA HoldersRefine ==
    ASSUME NEW t \in Threads, HoldersStep(t, Readers, Writers),
           \A u \in Threads \ {t} : /\ pc'[u] \in Readers <=> pc[u] \in Readers
                                    /\ pc'[u] \in Writers <=> pc[u] \in Writers
    PROVE  [Lock!LockNext]_(Lock!lockVars)
<1> DEFINE R == At(Readers)
           W == At(Writers)
<1>1. /\ R' = IF pc'[t] \in Readers THEN R \cup {t} ELSE R \ {t}
      /\ W' = IF pc'[t] \in Writers THEN W \cup {t} ELSE W \ {t}
  BY DEF At
<1>2. (t \in R <=> pc[t] \in Readers) /\ (t \in W <=> pc[t] \in Writers)
  BY DEF At
<1>3. CASE /\ pc[t] \notin Readers /\ pc'[t] \in Readers
           /\ pc[t] \notin Writers /\ pc'[t] \notin Writers
           /\ \A u \in Threads : pc[u] \notin Writers
  <2>1. W = {}
    BY <1>3 DEF At
  <2>2. Lock!AcquireRead(t)
    BY <1>1, <1>2, <1>3, <2>1 DEF Lock!AcquireRead, Readers, Writers
  <2> QED
    BY <2>2 DEF Lock!LockNext
<1>4. CASE /\ pc'[t] \in Writers /\ pc'[t] \notin Readers
           /\ \A u \in Threads : pc[u] \notin Readers \cup Writers
  <2>1. R = {} /\ W = {}
    BY <1>4 DEF At
  <2>2. Lock!AcquireWrite(t)
    BY <1>1, <1>4, <2>1 DEF Lock!AcquireWrite, Readers, Writers
  <2> QED
    BY <2>2 DEF Lock!LockNext
<1>5. CASE /\ pc[t] \in Readers /\ pc'[t] \notin Readers
           /\ pc[t] \notin Writers /\ pc'[t] \notin Writers
  <2>1. Lock!ReleaseRead(t)
    BY <1>1, <1>2, <1>5 DEF Lock!ReleaseRead, Readers, Writers
  <2> QED
    BY <2>1 DEF Lock!LockNext
<1>6. CASE /\ pc[t] \in Writers /\ pc'[t] \notin Writers
           /\ pc[t] \notin Readers /\ pc'[t] \notin Readers
           /\ \A u \in Threads \ {t} : pc[u] \notin Writers
  <2>1. W = {t}
    BY <1>6 DEF At
  <2>2. Lock!ReleaseWrite(t)
    BY <1>1, <1>2, <1>6, <2>1 DEF Lock!ReleaseWrite, Readers, Writers
  <2> QED
    BY <2>2 DEF Lock!LockNext
<1>7. CASE /\ pc[t] \in Readers <=> pc'[t] \in Readers
           /\ pc[t] \in Writers <=> pc'[t] \in Writers
  <2>1. R' = R /\ W' = W
    BY <1>7 DEF At
  <2> QED
    BY <2>1 DEF Lock!lockVars, Readers, Writers
<1> QED
  BY <1>3, <1>4, <1>5, <1>6, <1>7 DEF HoldersStep

(* The portable lock: who holds it is decided by its own statements. *)
LEMMA PortableRefines ==
    ASSUME IInv, Next
    PROVE  [Lock!LockNext]_(Lock!lockVars)
<1>1. ASSUME NEW t \in Threads, Inner(t) \/ Caller(t)
      PROVE  [Lock!LockNext]_(Lock!lockVars)
  <2>1. Moved(t) /\ pc \in [Threads -> PCs]
    BY <1>1, StepMoves DEF IInv, TypeOK
  <2>2. \A l \in PCs : (l \in Readers <=> l \in ReaderPCs) /\ (l \in Writers <=> l \in WriterPCs)
    BY DEF Readers, Writers, PCs, OwnerPCs, FreePCs, ReaderPCs, WriterPCs,
           Slim!ReaderPCs, Slim!WriterPCs
  <2>3. pc[t] \in PCs /\ pc'[t] \in PCs
    BY <2>1 DEF Moved
  <2>4. HoldersStep(t, Readers, Writers)
    <3>1. HoldersStep(t, ReaderPCs, WriterPCs)
      BY <1>1, StepHolders
    <3>2. \A u \in Threads : /\ pc[u] \in Readers <=> pc[u] \in ReaderPCs
                             /\ pc[u] \in Writers <=> pc[u] \in WriterPCs
      BY <2>1, <2>2
    <3>3. /\ pc'[t] \in Readers <=> pc'[t] \in ReaderPCs
          /\ pc'[t] \in Writers <=> pc'[t] \in WriterPCs
      BY <2>2, <2>3
    <3> QED
      BY <3>1, <3>2, <3>3 DEF HoldersStep
  <2>5. \A u \in Threads \ {t} : /\ pc'[u] \in Readers <=> pc[u] \in Readers
                                 /\ pc'[u] \in Writers <=> pc[u] \in Writers
    BY <2>1 DEF Moved, Readers, Writers, ReaderPCs, WriterPCs, Slim!ReaderPCs, Slim!WriterPCs
  <2> QED
    BY <2>4, <2>5, HoldersRefine
<1>2. CASE Destroy \/ ReInit
  BY <1>2 DEF Destroy, ReInit, Lock!lockVars, At
<1> QED
  BY <1>1, <1>2 DEF Next, Caller

(* The slim lock: the system grants and releases it. *)
LEMMA SlimRefines ==
    ASSUME SlimInv, NEW t \in Threads, SlimStep(t)
    PROVE  [Lock!LockNext]_(Lock!lockVars)
<1> DEFINE R == Slim!ReaderPCs
           W == Slim!WriterPCs
<1>1. SlimMoved(t) /\ pc \in [Threads -> Slim!PCs]
  BY SlimMoves DEF SlimInv, SlimTypeInv
<1>2. HoldersStep(t, R, W)
  <2>1. CASE SlimGrant(t)
    <3>1. /\ pc[t] \notin R /\ pc'[t] \in R /\ pc[t] \notin W /\ pc'[t] \notin W
          /\ srwlock # -1
      BY <2>1, SlimLockSteps DEF Slim!ReaderPCs, Slim!WriterPCs
    <3> QED
      BY <3>1, SlimMeaning DEF HoldersStep
  <2>2. CASE SlimWrite(t)
    <3>1. pc'[t] \in W /\ pc'[t] \notin R /\ srwlock = 0
      BY <2>2, SlimLockSteps DEF Slim!ReaderPCs, Slim!WriterPCs
    <3> QED
      BY <3>1, SlimMeaning DEF HoldersStep
  <2>3. CASE SlimRelease(t)
    <3>1. /\ pc'[t] \notin R /\ pc'[t] \notin W
          /\ \/ pc[t] \in R /\ pc[t] \notin W
             \/ pc[t] \in W /\ pc[t] \notin R
      BY <2>3, SlimLockSteps DEF Slim!ReaderPCs, Slim!WriterPCs
    <3>2. pc[t] \in W => \A u \in Threads \ {t} : pc[u] \notin W
      BY SlimMeaning
    <3> QED
      BY <3>1, <3>2 DEF HoldersStep
  <2>4. CASE SlimQuiet(t)
    BY <2>4, SlimQuietSteps DEF HoldersStep
  <2> QED
    BY <2>1, <2>2, <2>3, <2>4 DEF SlimStep
<1>3. \A l \in Slim!PCs : (l \in Readers <=> l \in R) /\ (l \in Writers <=> l \in W)
  BY DEF Readers, Writers, ReaderPCs, WriterPCs, Slim!PCs, Slim!ReaderPCs, Slim!WriterPCs
<1>4. HoldersStep(t, Readers, Writers)
  <2>1. \A u \in Threads : /\ pc[u] \in Readers <=> pc[u] \in R
                           /\ pc[u] \in Writers <=> pc[u] \in W
    BY <1>1, <1>3
  <2>2. (pc'[t] \in Readers <=> pc'[t] \in R) /\ (pc'[t] \in Writers <=> pc'[t] \in W)
    BY <1>1, <1>3 DEF SlimMoved
  <2> QED
    BY <1>2, <2>1, <2>2 DEF HoldersStep
<1> QED
  BY <1>1, <1>4, HoldersRefine DEF SlimMoved

(* Whichever lock it is, any number of readers or one writer: every         *)
(* behaviour of my_rw_lock_t is one of RWLock, for every set of threads.    *)
THEOREM AnyRefinement == AnySpec => ImplementsRWLock
<1>1. AnyInit => Lock!LockInit
  BY DEF AnyInit, Init, Lock!LockInit, At, ReaderPCs, WriterPCs,
         Slim!ReaderPCs, Slim!WriterPCs
<1>2. AnyIInv /\ [OnPortable \/ OnSlim]_anyVars => [Lock!LockNext]_(Lock!lockVars)
  <2> SUFFICES ASSUME AnyIInv, [OnPortable \/ OnSlim]_anyVars
               PROVE  [Lock!LockNext]_(Lock!lockVars)
    OBVIOUS
  <2>1. CASE OnPortable
    BY <2>1, PortableRefines DEF OnPortable, AnyIInv
  <2>2. CASE OnSlim
    BY <2>2, SlimNext, SlimRefines DEF OnSlim, AnyIInv
  <2>3. CASE UNCHANGED anyVars
    BY <2>3 DEF anyVars, Lock!lockVars, At
  <2> QED
    BY <2>1, <2>2, <2>3
<1> QED
  BY <1>1, <1>2, AnyInvariant, PTL DEF AnySpec, ImplementsRWLock, Lock!LockSpec
=============================================================================
