-------------------------- MODULE WinThreadsProofs --------------------------
(***************************************************************************)
(* Threads on Windows, for any number of users and threads, any ids and    *)
(* any width of a DWORD: handles and parameters are accounted for, a join  *)
(* that succeeds means that its thread has ended, and no wait is longer    *)
(* than it was asked for.  All of it rests on one inductive invariant,     *)
(* IInv.                                                                   *)
(***************************************************************************)
EXTENDS WinThreads, FiniteSetTheorems, TLAPS

-----------------------------------------------------------------------------
(* The statements, and those of them at which a call is about a thread, and *)
(* has a handle in its local variable.                                      *)
Lives   == {"none", "created", "read", "running", "waiting", "blocked", "woken", "ended"}
Making  == {"drop", "store"}
Joining == {"open", "wait", "close"}
Holding == Making \union {"wait", "close", "terminate", "cancel close"}
About   == Making \union Joining \union {"cancel", "terminate", "cancel close"}
Calls   == About \union {"idle", "begin", "begin keep"}

(* How long a thread may sleep, with a deadline or without, and how many    *)
(* handles there may be.                                                    *)
Waits   == 0 .. MaxTimeoutMsec
Naps    == Waits \union {INFINITE}
Numbers == Int

TypeInv == /\ life \in [Threads -> Lives]
           /\ id \in [Threads -> Ids \union {Null}]
           /\ open \in [Threads -> Numbers]
           /\ nap \in [Threads -> Naps]
           /\ param \in [Threads -> {"none", "live", "freed", "freed twice"}]
           /\ cancelled \in SUBSET Threads
           /\ pc \in [Users -> Calls]
           /\ target \in [Users -> Threads \union {Null}]
           /\ handle \in [Users -> Threads \union {Null}]
           /\ memory \in [Users -> BOOLEAN]
           /\ known \in SUBSET Threads /\ saved \in SUBSET Threads
           /\ claimed \in SUBSET Threads /\ joined \in SUBSET Threads

(* Threads the system still knows differ by their ids. *)
IdInv == \A t, o \in Existing : id[t] = id[o] => t = o

(* What a call knows of its thread and of the thread its handle refers to.  *)
(* The creator has the thread for itself until it returns; a join that      *)
(* waits for another thread than its own is one whose thread has ended.     *)
CallOf(u) ==
    /\ pc[u] \in About => target[u] \in Created
    /\ IF pc[u] \in Holding THEN handle[u] \in Created ELSE handle[u] = Null
    /\ pc[u] \in Making => handle[u] = target[u] /\ target[u] \notin known
    /\ pc[u] \in Joining => target[u] \in claimed
    /\ pc[u] = "wait" => handle[u] = target[u] \/ life[target[u]] = "ended"
    /\ pc[u] = "close" => life[target[u]] = "ended"

CallInv == /\ \A u \in Users : CallOf(u)
           /\ \A u, w \in Users :
                  pc[u] \in Making /\ pc[w] \in Making /\ target[u] = target[w] => u = w

(* What users keep. *)
KeepInv == /\ known \subseteq Created /\ saved \subseteq known
           /\ claimed \subseteq known /\ joined \subseteq claimed
           /\ JoinedHasEnded

(* Open handles are held, by calls or by those who will join. *)
Holders(h, t) == {u \in Users : h[u] = t}

HandleInv == \A t \in Threads :
                 open[t] = Cardinality(Holders(handle, t)) + IF t \in saved THEN 1 ELSE 0

(* Who owns a parameter. *)
Begins == {"begin", "begin keep"}

Owned(t) == /\ life[t] \in {"created", "read"} => param[t] = "live"
            /\ param[t] = "live" => life[t] \in {"created", "read"} \/ t \in cancelled
            /\ param[t] # "freed twice"

ParamInv == /\ \A t \in Created : Owned(t)
            /\ \A u \in Users : memory[u] <=> pc[u] \in Begins

(* Those that sleep without a deadline are those that asked for it. *)
NapInv == \A t \in Threads : nap[t] = INFINITE <=> life[t] = "blocked"

IInv == TypeInv /\ NapInv /\ IdInv /\ CallInv /\ KeepInv /\ HandleInv /\ ParamInv

-----------------------------------------------------------------------------
(* What every step does to the threads: none comes to life again, and ids   *)
(* go on to be different.                                                   *)
Progress == /\ Created \subseteq Created'
            /\ \A t \in Created : life[t] = "ended" => life'[t] = "ended"
            /\ IdInv'

(* One handle of a thread more or less. *)
LEMMA HandleCount ==
    ASSUME TypeInv, NEW t \in Threads
    PROVE  /\ OpenHandle(t) => /\ open' \in [Threads -> Numbers]
                               /\ open'[t] = open[t] + 1
                               /\ \A o \in Threads \ {t} : open'[o] = open[o]
           /\ CloseHandle(t) => /\ open' \in [Threads -> Numbers]
                                /\ open'[t] = open[t] - 1
                                /\ \A o \in Threads \ {t} : open'[o] = open[o]
<1>1. open \in [Threads -> Int]
  BY DEF TypeInv, Numbers
<1> QED
  BY <1>1 DEF OpenHandle, CloseHandle, Numbers

(* INFINITE is what one asks for who has no deadline; no other wait is it.  *)
LEMMA Infinite == INFINITE \in Int /\ INFINITE \notin Waits /\ GetMilliseconds(Null, 0) = INFINITE
<1>1. 2 ^ DwordBits \in Int /\ MaxTimeoutMsec \in 0 .. 2 ^ DwordBits - 2
  BY WinThreadsAssumption
<1>2. GetMilliseconds(Null, 0) = INFINITE
  BY DEF GetMilliseconds
<1> QED
  BY <1>1, <1>2 DEF INFINITE, Waits

(* For a deadline, get_milliseconds never gives more than max_timeout_msec: *)
(* neither the conversion to a DWORD nor INFINITE, which is one, is met.    *)
LEMMA WaitIsBounded ==
    ASSUME NEW deadline \in Int, NEW now \in Int
    PROVE  GetMilliseconds(deadline, now) \in Waits
<1> DEFINE dwords == 2 ^ DwordBits
           millis == (deadline - now) \div TicksPerMsec
<1>1. dwords \in Int /\ MaxTimeoutMsec \in 0 .. dwords - 2
  BY WinThreadsAssumption
<1>2. millis \in Int
  BY WinThreadsAssumption
<1>3. GetMilliseconds(deadline, now) =
         IF millis < 0 THEN 0
         ELSE (IF (IF millis > MaxTimeoutMsec THEN MaxTimeoutMsec ELSE millis) > dwords - 1
                 THEN dwords - 1
                 ELSE IF millis > MaxTimeoutMsec THEN MaxTimeoutMsec ELSE millis) % dwords
  BY WinThreadsAssumption DEF GetMilliseconds, UINT_MAX
<1> HIDE DEF dwords, millis
<1>4. \A x \in 0 .. MaxTimeoutMsec : x % dwords = x
  BY <1>1
<1> QED
  BY <1>1, <1>2, <1>3, <1>4 DEF Waits

-----------------------------------------------------------------------------
(* The initial state. *)
LEMMA InitIInv == Init => IInv
<1> SUFFICES ASSUME Init PROVE IInv
  OBVIOUS
<1>1. TypeInv /\ NapInv
  <2>1. 0 \in Waits
    <3>1. 2 ^ DwordBits - 2 \in Int
      BY WinThreadsAssumption
    <3> QED
      BY <3>1, WinThreadsAssumption DEF Waits
  <2> QED
    BY <2>1, Infinite DEF Init, TypeInv, NapInv, Naps, Numbers, Lives, Calls, About, Making, Joining
<1>2. IdInv /\ KeepInv
  BY DEF Init, IdInv, KeepInv, JoinedHasEnded, Existing, Running, Created
<1>3. CallInv
  BY DEF Init, CallInv, CallOf, About, Holding, Making, Joining
<1>4. HandleInv
  <2>1. \A t \in Threads : Holders(handle, t) = {}
    BY WinThreadsAssumption DEF Init, Holders, Threads
  <2> QED
    BY <2>1, FS_EmptySet DEF Init, HandleInv
<1>5. ParamInv
  <2>1. \A u \in Users : ~memory[u] /\ pc[u] = "idle"
    BY DEF Init
  <2>2. Created = {}
    BY DEF Init, Created
  <2> QED
    BY <2>1, <2>2 DEF ParamInv, Begins
<1> QED
  BY <1>1, <1>2, <1>3, <1>4, <1>5 DEF IInv

(* Types. *)
LEMMA TypeStep == IInv /\ [Next]_vars => TypeInv'
<1> SUFFICES ASSUME IInv, [Next]_vars PROVE TypeInv'
  OBVIOUS
<1> USE DEF TypeInv, Lives, Calls, About, Holding, Making, Joining, system, local, kept,
        Goto, Return, Created
<1>0. TypeInv
  BY DEF IInv
<1>h. ASSUME NEW u \in Users, pc[u] \in Holding
      PROVE  handle[u] \in Threads /\ target[u] \in Threads
  BY <1>h DEF IInv, CallInv, CallOf
<1>o. ASSUME NEW t \in Threads, OpenHandle(t) \/ CloseHandle(t)
      PROVE  open' \in [Threads -> Numbers]
  BY <1>0, <1>o, HandleCount
<1>00. 0 \in Naps /\ \A x \in Naps \ {0, INFINITE} : x - 1 \in Naps
  <2>1. 2 ^ DwordBits - 2 \in Int
    BY WinThreadsAssumption
  <2> QED
    BY <2>1, WinThreadsAssumption DEF Waits, Naps
<1>1. ASSUME NEW u \in Users, NEW keep \in BOOLEAN, Create(u, keep) PROVE TypeInv'
  BY <1>1, <1>0 DEF Create
<1>2. ASSUME NEW u \in Users, BeginThread(u) PROVE TypeInv'
  <2>1. PICK t \in Threads, i \in Ids :
                             /\ id' = [id EXCEPT ![t] = i]
                             /\ life' = [life EXCEPT ![t] = "created"]
                             /\ OpenHandle(t)
                             /\ param' = [param EXCEPT ![t] = "live"]
                             /\ target' = [target EXCEPT ![u] = t]
                             /\ handle' = [handle EXCEPT ![u] = t]
    BY <1>2 DEF BeginThread
  <2>3. /\ pc' \in [Users -> Calls]
        /\ memory' = [memory EXCEPT ![u] = FALSE]
        /\ UNCHANGED <<nap, cancelled, kept>>
    BY <1>2, <1>0 DEF BeginThread
  <2>2. open' \in [Threads -> Numbers]
    BY <2>1, <1>o
  <2>4. /\ life' \in [Threads -> Lives] /\ id' \in [Threads -> Ids \union {Null}]
        /\ param' \in [Threads -> {"none", "live", "freed", "freed twice"}]
    BY <2>1, <1>0 DEF Lives
  <2>5. target' \in [Users -> Threads \union {Null}] /\ handle' \in [Users -> Threads \union {Null}]
    BY <2>1, <1>0
  <2> QED
    BY <2>2, <2>3, <2>4, <2>5, <1>0
<1>3. ASSUME NEW u \in Users, BeginFails(u) PROVE TypeInv'
  BY <1>3, <1>0 DEF BeginFails
<1>4. ASSUME NEW u \in Users, DropHandle(u) PROVE TypeInv'
  <2>1. handle[u] \in Threads /\ target[u] \in Threads
    BY <1>4, <1>h DEF DropHandle
  <2>2. open' \in [Threads -> Numbers]
    BY <1>4, <2>1, <1>o DEF DropHandle
  <2> QED
    BY <1>4, <2>1, <2>2, <1>0 DEF DropHandle
<1>5. ASSUME NEW u \in Users, StoreHandle(u) PROVE TypeInv'
  <2>1. handle[u] \in Threads /\ target[u] \in Threads
    BY <1>5, <1>h DEF StoreHandle
  <2> QED
    BY <1>5, <2>1, <1>0 DEF StoreHandle
<1>6. ASSUME NEW u \in Users, JoinOpen(u) PROVE TypeInv'
  <2>1. PICK o \in Threads : OpenHandle(o) /\ handle' = [handle EXCEPT ![u] = o]
    BY <1>6 DEF JoinOpen, OpenById, Existing
  <2>2. open' \in [Threads -> Numbers]
    BY <2>1, <1>o
  <2> QED
    BY <1>6, <2>1, <2>2, <1>0 DEF JoinOpen, OpenById
<1>7. ASSUME NEW u \in Users, JoinOpenFails(u) PROVE TypeInv'
  BY <1>7, <1>0 DEF JoinOpenFails
<1>8. ASSUME NEW u \in Users, JoinWait(u) PROVE TypeInv'
  BY <1>8, <1>0 DEF JoinWait
<1>9. ASSUME NEW u \in Users, JoinClose(u) PROVE TypeInv'
  <2>1. handle[u] \in Threads /\ target[u] \in Threads
    BY <1>9, <1>h DEF JoinClose
  <2>2. open' \in [Threads -> Numbers]
    BY <1>9, <2>1, <1>o DEF JoinClose
  <2> QED
    BY <1>9, <2>1, <2>2, <1>0 DEF JoinClose
<1>10. ASSUME NEW u \in Users, JoinWaitFails(u) PROVE TypeInv'
  <2>1. handle[u] \in Threads /\ target[u] \in Threads
    BY <1>10, <1>h DEF JoinWaitFails
  <2>2. open' \in [Threads -> Numbers]
    BY <1>10, <2>1, <1>o DEF JoinWaitFails
  <2> QED
    BY <1>10, <2>1, <2>2, <1>0 DEF JoinWaitFails
<1>11. ASSUME NEW u \in Users, CancelOpen(u) PROVE TypeInv'
  <2>1. PICK o \in Threads : OpenHandle(o) /\ handle' = [handle EXCEPT ![u] = o]
    BY <1>11 DEF CancelOpen, OpenById, Existing
  <2>2. open' \in [Threads -> Numbers]
    BY <2>1, <1>o
  <2> QED
    BY <1>11, <2>1, <2>2, <1>0 DEF CancelOpen, OpenById
<1>12. ASSUME NEW u \in Users, CancelOpenFails(u) PROVE TypeInv'
  BY <1>12, <1>0 DEF CancelOpenFails
<1>13. ASSUME NEW u \in Users, CancelTerminate(u) PROVE TypeInv'
  <2>1. handle[u] \in Threads
    BY <1>13, <1>h DEF CancelTerminate
  <2>2. pc' \in [Users -> Calls] /\ UNCHANGED <<id, open, param, target, handle, memory, kept>>
    BY <1>13, <1>0 DEF CancelTerminate
  <2>3. /\ life' \in [Threads -> Lives] /\ nap' \in [Threads -> Naps]
        /\ cancelled' \in SUBSET Threads
    BY <1>13, <2>1, <1>0, <1>00 DEF CancelTerminate
  <2> QED
    BY <2>2, <2>3, <1>0
<1>14. ASSUME NEW u \in Users, CancelClose(u) PROVE TypeInv'
  <2>1. handle[u] \in Threads /\ target[u] \in Threads
    BY <1>14, <1>h DEF CancelClose
  <2>2. open' \in [Threads -> Numbers]
    BY <1>14, <2>1, <1>o DEF CancelClose
  <2> QED
    BY <1>14, <2>1, <2>2, <1>0 DEF CancelClose
<1>15. ASSUME NEW u \in Users, NEW t \in Threads, JoinWithHandle(u, t) PROVE TypeInv'
  BY <1>15, <1>0 DEF JoinWithHandle
<1>16. ASSUME NEW u \in Users, NEW t \in Threads, Join(u, t) PROVE TypeInv'
  BY <1>16, <1>0 DEF Join
<1>17. ASSUME NEW u \in Users, NEW t \in Threads, Cancel(u, t) PROVE TypeInv'
  BY <1>17, <1>0 DEF Cancel
<1>18. ASSUME NEW t \in Threads, ReadParameter(t) PROVE TypeInv'
  BY <1>18, <1>0 DEF ReadParameter
<1>19. ASSUME NEW t \in Threads, FreeParameter(t) PROVE TypeInv'
  BY <1>19, <1>0 DEF FreeParameter
<1>20. ASSUME NEW t \in Threads, TimedWait(t) PROVE TypeInv'
  <2>1. PICK asked \in Clock, now \in Clock :
           nap' = [nap EXCEPT ![t] = GetMilliseconds(asked + MaxTimeoutMsec * TicksPerMsec, now)]
    BY <1>20 DEF TimedWait
  <2>2. 2 ^ DwordBits - 2 \in Int
    BY WinThreadsAssumption
  <2>3. MaxTimeoutMsec \in Int /\ TicksPerMsec \in Int /\ asked \in Int /\ now \in Int
    BY <2>2, WinThreadsAssumption
  <2>4. asked + MaxTimeoutMsec * TicksPerMsec \in Int
    BY <2>3
  <2>5. GetMilliseconds(asked + MaxTimeoutMsec * TicksPerMsec, now) \in Waits
    BY <2>3, <2>4, WaitIsBounded
  <2> QED
    BY <1>20, <1>0, <2>1, <2>5 DEF TimedWait, Naps
<1>21. ASSUME NEW t \in Threads, SleepOn(t) PROVE TypeInv'
  BY <1>21, <1>0, <1>00 DEF SleepOn
<1>22. ASSUME NEW t \in Threads, TimeOut(t) PROVE TypeInv'
  BY <1>22, <1>0 DEF TimeOut
<1>23. ASSUME NEW t \in Threads, Signalled(t) PROVE TypeInv'
  BY <1>23, <1>0, <1>00 DEF Signalled
<1>24. ASSUME NEW t \in Threads, EndThread(t) PROVE TypeInv'
  BY <1>24, <1>0 DEF EndThread
<1>25. CASE UNCHANGED vars
  BY <1>25, <1>0 DEF vars
<1>26. ASSUME NEW u \in Users, CancelTerminateFails(u) PROVE TypeInv'
  BY <1>26, <1>0 DEF CancelTerminateFails
<1>27. ASSUME NEW t \in Threads, CondWait(t) PROVE TypeInv'
  BY <1>27, <1>0, Infinite DEF CondWait, Naps
<1> QED
  BY <1>1, <1>2, <1>3, <1>4, <1>5, <1>6, <1>7, <1>8, <1>9, <1>10, <1>11,
     <1>12, <1>13, <1>14, <1>15, <1>16, <1>17, <1>18, <1>19, <1>20, <1>21,
     <1>22, <1>23, <1>24, <1>25, <1>26, <1>27
     DEF Next, Inner, Thread

(* Who sleeps without a deadline. *)
LEMMA NapStep == IInv /\ [Next]_vars => NapInv'
<1> SUFFICES ASSUME IInv, [Next]_vars PROVE NapInv'
  OBVIOUS
<1> USE DEF system, local, kept
<1>t. life \in [Threads -> Lives] /\ nap \in [Threads -> Naps]
  BY DEF IInv, TypeInv
<1>i. \A t \in Threads : nap[t] = INFINITE <=> life[t] = "blocked"
  BY DEF IInv, NapInv
<1>z. 0 # INFINITE /\ \A x \in Naps \ {0, INFINITE} : x - 1 # INFINITE
  <2>1. 2 ^ DwordBits \in Int /\ MaxTimeoutMsec \in 0 .. 2 ^ DwordBits - 2
    BY WinThreadsAssumption
  <2> QED
    BY <2>1, Infinite DEF Waits, Naps
<1>n. ASSUME life' = life, nap' = nap PROVE NapInv'
  BY <1>n, <1>i DEF NapInv
<1>l. ASSUME NEW t \in Threads, life[t] # "blocked", NEW l, l # "blocked",
             life' = [life EXCEPT ![t] = l], nap' = nap
      PROVE  NapInv'
  BY <1>l, <1>i, <1>t DEF NapInv
<1>x. ASSUME NEW t \in Threads, NEW l, l # "blocked", NEW n, n # INFINITE,
             life' = [life EXCEPT ![t] = l], nap' = [nap EXCEPT ![t] = n]
      PROVE  NapInv'
  BY <1>x, <1>i, <1>t DEF NapInv
<1>1. ASSUME NEW u \in Users, NEW keep \in BOOLEAN, Create(u, keep) PROVE NapInv'
  BY <1>1, <1>n DEF Create
<1>2. ASSUME NEW u \in Users, BeginThread(u) PROVE NapInv'
  <2>1. PICK t \in Threads \ Created : life' = [life EXCEPT ![t] = "created"] /\ nap' = nap
    BY <1>2 DEF BeginThread
  <2>2. life[t] = "none"
    BY <2>1 DEF Created
  <2> QED
    BY <2>1, <2>2, <1>l
<1>3. ASSUME NEW u \in Users, BeginFails(u) PROVE NapInv'
  BY <1>3, <1>n DEF BeginFails
<1>4. ASSUME NEW u \in Users, DropHandle(u) PROVE NapInv'
  BY <1>4, <1>n DEF DropHandle
<1>5. ASSUME NEW u \in Users, StoreHandle(u) PROVE NapInv'
  BY <1>5, <1>n DEF StoreHandle
<1>6. ASSUME NEW u \in Users, JoinOpen(u) PROVE NapInv'
  BY <1>6, <1>n DEF JoinOpen, OpenById
<1>7. ASSUME NEW u \in Users, JoinOpenFails(u) PROVE NapInv'
  BY <1>7, <1>n DEF JoinOpenFails
<1>8. ASSUME NEW u \in Users, JoinWait(u) PROVE NapInv'
  BY <1>8, <1>n DEF JoinWait
<1>9. ASSUME NEW u \in Users, JoinClose(u) PROVE NapInv'
  BY <1>9, <1>n DEF JoinClose
<1>10. ASSUME NEW u \in Users, JoinWaitFails(u) PROVE NapInv'
  BY <1>10, <1>n DEF JoinWaitFails
<1>11. ASSUME NEW u \in Users, CancelOpen(u) PROVE NapInv'
  BY <1>11, <1>n DEF CancelOpen, OpenById
<1>12. ASSUME NEW u \in Users, CancelOpenFails(u) PROVE NapInv'
  BY <1>12, <1>n DEF CancelOpenFails
<1>13. ASSUME NEW u \in Users, CancelTerminate(u) PROVE NapInv'
  <2>1. CASE handle[u] \in Running
    BY <1>13, <2>1, <1>x, <1>z DEF CancelTerminate, Running, Created
  <2>2. CASE handle[u] \notin Running
    BY <1>13, <2>2, <1>n DEF CancelTerminate
  <2> QED
    BY <2>1, <2>2
<1>14. ASSUME NEW u \in Users, CancelClose(u) PROVE NapInv'
  BY <1>14, <1>n DEF CancelClose
<1>15. ASSUME NEW u \in Users, NEW t \in Threads, JoinWithHandle(u, t) PROVE NapInv'
  BY <1>15, <1>n DEF JoinWithHandle
<1>16. ASSUME NEW u \in Users, NEW t \in Threads, Join(u, t) PROVE NapInv'
  BY <1>16, <1>n DEF Join
<1>17. ASSUME NEW u \in Users, NEW t \in Threads, Cancel(u, t) PROVE NapInv'
  BY <1>17, <1>n DEF Cancel
<1>18. ASSUME NEW t \in Threads, ReadParameter(t) PROVE NapInv'
  BY <1>18, <1>l DEF ReadParameter
<1>19. ASSUME NEW t \in Threads, FreeParameter(t) PROVE NapInv'
  BY <1>19, <1>l DEF FreeParameter
<1>20. ASSUME NEW t \in Threads, TimedWait(t) PROVE NapInv'
  <2>1. PICK asked \in Clock, now \in Clock :
           nap' = [nap EXCEPT ![t] = GetMilliseconds(asked + MaxTimeoutMsec * TicksPerMsec, now)]
    BY <1>20 DEF TimedWait
  <2>2. 2 ^ DwordBits - 2 \in Int
    BY WinThreadsAssumption
  <2>3. MaxTimeoutMsec \in Int /\ TicksPerMsec \in Int /\ asked \in Int /\ now \in Int
    BY <2>2, WinThreadsAssumption
  <2>4. asked + MaxTimeoutMsec * TicksPerMsec \in Int
    BY <2>3
  <2>5. GetMilliseconds(asked + MaxTimeoutMsec * TicksPerMsec, now) # INFINITE
    BY <2>3, <2>4, WaitIsBounded, Infinite
  <2> QED
    BY <1>20, <2>1, <2>5, <1>x DEF TimedWait
<1>21. ASSUME NEW t \in Threads, SleepOn(t) PROVE NapInv'
  <2>1. nap[t] - 1 # INFINITE /\ life[t] = "waiting" /\ life' = life /\ nap' = [nap EXCEPT ![t] = nap[t] - 1]
    BY <1>21, <1>z, <1>t DEF SleepOn
  <2>2. life' = [life EXCEPT ![t] = "waiting"]
    BY <2>1, <1>t
  <2> QED
    BY <2>1, <2>2, <1>x
<1>22. ASSUME NEW t \in Threads, TimeOut(t) PROVE NapInv'
  BY <1>22, <1>l DEF TimeOut
<1>23. ASSUME NEW t \in Threads, Signalled(t) PROVE NapInv'
  BY <1>23, <1>x, <1>z DEF Signalled
<1>24. ASSUME NEW t \in Threads, EndThread(t) PROVE NapInv'
  BY <1>24, <1>l DEF EndThread
<1>25. CASE UNCHANGED vars
  BY <1>25, <1>n DEF vars
<1>26. ASSUME NEW u \in Users, CancelTerminateFails(u) PROVE NapInv'
  BY <1>26, <1>n DEF CancelTerminateFails
<1>27. ASSUME NEW t \in Threads, CondWait(t) PROVE NapInv'
  <2>1. life' = [life EXCEPT ![t] = "blocked"] /\ nap' = [nap EXCEPT ![t] = INFINITE]
    BY <1>27, Infinite DEF CondWait
  <2> QED
    BY <2>1, <1>i, <1>t DEF NapInv
<1> QED
  BY <1>1, <1>2, <1>3, <1>4, <1>5, <1>6, <1>7, <1>8, <1>9, <1>10, <1>11,
     <1>12, <1>13, <1>14, <1>15, <1>16, <1>17, <1>18, <1>19, <1>20, <1>21,
     <1>22, <1>23, <1>24, <1>25, <1>26, <1>27
     DEF Next, Inner, Thread

(* Threads do not come to life again, and no thread the system has forgotten *)
(* becomes known but by being created.                                      *)
LEMMA OneThread ==
    ASSUME TypeInv, NEW t \in Threads, life[t] \notin {"none", "ended"},
           NEW l \in Lives \ {"none"}, life' = [life EXCEPT ![t] = l], open' = open
    PROVE  /\ Created' = Created /\ Existing' \subseteq Existing
           /\ \A o \in Created : life[o] = "ended" => life'[o] = "ended"
<1>1. life \in [Threads -> Lives]
  BY DEF TypeInv
<1>2. Created' = Created /\ Running' \subseteq Running
  BY <1>1 DEF Created, Running
<1> QED
  BY <1>1, <1>2 DEF Created, Existing

(* Closing a handle, or opening one of a thread that exists, makes no thread exist. *)
LEMMA OneHandle ==
    ASSUME TypeInv, NEW t \in Threads, life' = life,
           CloseHandle(t) \/ (OpenHandle(t) /\ t \in Existing)
    PROVE  Existing' \subseteq Existing
<1>1. \A o \in Threads : open'[o] > 0 => open[o] > 0 \/ o \in Existing
  <2>1. open[t] \in Int
    BY DEF TypeInv, Numbers
  <2>2. CASE CloseHandle(t)
    BY <2>1, <2>2, HandleCount
  <2>3. CASE OpenHandle(t) /\ t \in Existing
    BY <2>1, <2>3, HandleCount
  <2> QED
    BY <2>2, <2>3
<1>2. Created' = Created /\ Running' = Running
  BY DEF Created, Running
<1> QED
  BY <1>1, <1>2 DEF Existing, Created

(* It does so indeed. *)
LEMMA ProgressStep == IInv /\ [Next]_vars => Progress
<1> SUFFICES ASSUME IInv, [Next]_vars PROVE Progress
  OBVIOUS
<1> USE DEF system, local, kept, Goto, Return
<1>0. TypeInv /\ IdInv
  BY DEF IInv
<1>e. ASSUME Existing' \subseteq Existing, id' = id PROVE IdInv'
  BY <1>0, <1>e DEF IdInv
<1>s. ASSUME life' = life, open' = open, id' = id PROVE Progress
  BY <1>s, <1>e DEF Progress, Created, Running, Existing
<1>c. ASSUME NEW t \in Threads, life' = life, id' = id, CloseHandle(t) PROVE Progress
  BY <1>0, <1>c, <1>e, OneHandle DEF Progress, Created
<1>o. ASSUME NEW t \in Existing, life' = life, id' = id, OpenHandle(t) PROVE Progress
  <2>1. t \in Threads
    BY DEF Existing, Created
  <2> QED
    BY <1>0, <1>o, <1>e, <2>1, OneHandle DEF Progress, Created
<1>l. ASSUME NEW t \in Threads, life[t] \notin {"none", "ended"},
             NEW l \in Lives \ {"none"}, life' = [life EXCEPT ![t] = l],
             open' = open, id' = id
      PROVE  Progress
  BY <1>0, <1>l, <1>e, OneThread DEF Progress
<1>h. ASSUME NEW u \in Users, pc[u] \in Holding PROVE handle[u] \in Threads
  BY <1>h DEF IInv, CallInv, CallOf, Created
<1>1. ASSUME NEW u \in Users, NEW keep \in BOOLEAN, Create(u, keep) PROVE Progress
  BY <1>1, <1>s DEF Create
<1>2. ASSUME NEW u \in Users, BeginThread(u) PROVE Progress
  <2>1. PICK t \in Threads \ Created, i \in Ids \ {id[o] : o \in Existing} :
           /\ id' = [id EXCEPT ![t] = i]
           /\ life' = [life EXCEPT ![t] = "created"]
           /\ OpenHandle(t)
    BY <1>2 DEF BeginThread
  <2>2. life \in [Threads -> Lives] /\ id \in [Threads -> Ids \union {Null}]
    BY <1>0 DEF TypeInv
  <2>3. \A o \in Threads \ {t} : open'[o] = open[o] /\ life'[o] = life[o] /\ id'[o] = id[o]
    BY <2>1, <2>2, <1>0, HandleCount
  <2>4. Existing' \subseteq Existing \union {t} /\ Created' = Created \union {t} /\ id'[t] = i
    BY <2>1, <2>2, <2>3 DEF Existing, Running, Created
  <2>5. IdInv'
    <3> SUFFICES ASSUME NEW o \in Existing', NEW p \in Existing', id'[o] = id'[p] PROVE o = p
      BY DEF IdInv
    <3>1. Existing \subseteq Threads \ {t}
      BY <2>1 DEF Existing, Created
    <3>2. CASE o # t /\ p # t
      BY <3>1, <3>2, <2>3, <2>4, <1>0 DEF IdInv
    <3>3. CASE o = t \/ p = t
      BY <3>1, <3>3, <2>1, <2>3, <2>4
    <3> QED
      BY <3>2, <3>3
  <2> QED
    BY <2>1, <2>2, <2>3, <2>4, <2>5 DEF Progress, Created
<1>3. ASSUME NEW u \in Users, BeginFails(u) PROVE Progress
  BY <1>3, <1>s DEF BeginFails
<1>4. ASSUME NEW u \in Users, DropHandle(u) PROVE Progress
  BY <1>4, <1>h, <1>c DEF DropHandle, Holding, Making
<1>5. ASSUME NEW u \in Users, StoreHandle(u) PROVE Progress
  BY <1>5, <1>s DEF StoreHandle
<1>6. ASSUME NEW u \in Users, JoinOpen(u) PROVE Progress
  BY <1>6, <1>o DEF JoinOpen, OpenById
<1>7. ASSUME NEW u \in Users, JoinOpenFails(u) PROVE Progress
  BY <1>7, <1>s DEF JoinOpenFails
<1>8. ASSUME NEW u \in Users, JoinWait(u) PROVE Progress
  BY <1>8, <1>s DEF JoinWait
<1>9. ASSUME NEW u \in Users, JoinClose(u) PROVE Progress
  BY <1>9, <1>h, <1>c DEF JoinClose, Holding, Making
<1>10. ASSUME NEW u \in Users, JoinWaitFails(u) PROVE Progress
  BY <1>10, <1>h, <1>c DEF JoinWaitFails, Holding, Making
<1>11. ASSUME NEW u \in Users, CancelOpen(u) PROVE Progress
  BY <1>11, <1>o DEF CancelOpen, OpenById
<1>12. ASSUME NEW u \in Users, CancelOpenFails(u) PROVE Progress
  BY <1>12, <1>s DEF CancelOpenFails
<1>13. ASSUME NEW u \in Users, CancelTerminate(u) PROVE Progress
  <2>1. CASE handle[u] \in Running
    <3>1. handle[u] \in Threads /\ life[handle[u]] \notin {"none", "ended"}
      BY <2>1 DEF Running, Created
    <3> QED
      BY <1>13, <2>1, <3>1, <1>l DEF CancelTerminate, Lives
  <2>2. CASE handle[u] \notin Running
    BY <1>13, <2>2, <1>s DEF CancelTerminate
  <2> QED
    BY <2>1, <2>2
<1>14. ASSUME NEW u \in Users, CancelClose(u) PROVE Progress
  BY <1>14, <1>h, <1>c DEF CancelClose, Holding, Making
<1>15. ASSUME NEW u \in Users, NEW t \in Threads, JoinWithHandle(u, t) PROVE Progress
  BY <1>15, <1>s DEF JoinWithHandle
<1>16. ASSUME NEW u \in Users, NEW t \in Threads, Join(u, t) PROVE Progress
  BY <1>16, <1>s DEF Join
<1>17. ASSUME NEW u \in Users, NEW t \in Threads, Cancel(u, t) PROVE Progress
  BY <1>17, <1>s DEF Cancel
<1>18. ASSUME NEW t \in Threads, ReadParameter(t) PROVE Progress
  BY <1>18, <1>l DEF ReadParameter, Lives
<1>19. ASSUME NEW t \in Threads, FreeParameter(t) PROVE Progress
  BY <1>19, <1>l DEF FreeParameter, Lives
<1>20. ASSUME NEW t \in Threads, TimedWait(t) PROVE Progress
  BY <1>20, <1>l DEF TimedWait, Lives
<1>21. ASSUME NEW t \in Threads, SleepOn(t) PROVE Progress
  BY <1>21, <1>s DEF SleepOn
<1>22. ASSUME NEW t \in Threads, TimeOut(t) PROVE Progress
  BY <1>22, <1>l DEF TimeOut, Lives
<1>23. ASSUME NEW t \in Threads, Signalled(t) PROVE Progress
  BY <1>23, <1>l DEF Signalled, Lives
<1>24. ASSUME NEW t \in Threads, EndThread(t) PROVE Progress
  BY <1>24, <1>l DEF EndThread, Lives
<1>25. CASE UNCHANGED vars
  BY <1>25, <1>s DEF vars
<1>26. ASSUME NEW u \in Users, CancelTerminateFails(u) PROVE Progress
  BY <1>26, <1>s DEF CancelTerminateFails
<1>27. ASSUME NEW t \in Threads, CondWait(t) PROVE Progress
  BY <1>27, <1>l DEF CondWait, Lives
<1> QED
  BY <1>1, <1>2, <1>3, <1>4, <1>5, <1>6, <1>7, <1>8, <1>9, <1>10, <1>11,
     <1>12, <1>13, <1>14, <1>15, <1>16, <1>17, <1>18, <1>19, <1>20, <1>21,
     <1>22, <1>23, <1>24, <1>25, <1>26, <1>27
     DEF Next, Inner, Thread

-----------------------------------------------------------------------------
(* A step of user u takes its call to statement p, with thread t and handle *)
(* h; the threads are then as such a call needs them.                       *)
Moves(u, p, t, h) ==
    /\ pc'[u] = p /\ target'[u] = t /\ handle'[u] = h
    /\ \A w \in Users \ {u} : pc'[w] = pc[w] /\ target'[w] = target[w] /\ handle'[w] = handle[w]

Fits(p, t, h) ==
    /\ p \in About => t \in Created'
    /\ IF p \in Holding THEN h \in Created' ELSE h = Null
    /\ p \in Making => h = t /\ t \notin Created /\ t \notin known'
    /\ p \in Joining => t \in claimed'
    /\ p = "wait" => h = t \/ life'[t] = "ended"
    /\ p = "close" => life'[t] = "ended"

(* What users keep: claims remain, and a thread that becomes known is one   *)
(* user u has created.                                                      *)
Keeps(u) == /\ claimed \subseteq claimed'
            /\ \A t \in known' : t \in known \/ (pc[u] \in Making /\ t = target[u])

(* The call of a user who does nothing stays what it is, whatever another one does. *)
LEMMA OtherCall ==
    ASSUME CallInv, Progress, NEW w \in Users, claimed \subseteq claimed',
           pc'[w] = pc[w], target'[w] = target[w], handle'[w] = handle[w],
           pc[w] \in Making => target[w] \notin known'
    PROVE  CallOf(w)'
<1>1. CallOf(w)
  BY DEF CallInv
<1>2. pc[w] \in {"wait", "close"} => target[w] \in Created
  BY <1>1 DEF CallOf, About, Joining
<1> QED
  BY <1>1, <1>2 DEF CallOf, Progress

(* One user moves on, in a way that fits: all calls are right then. *)
LEMMA OneCall ==
    ASSUME CallInv, Progress, NEW u \in Users, NEW p, NEW t, NEW h,
           Moves(u, p, t, h), Fits(p, t, h), Keeps(u)
    PROVE  CallInv'
<1>1. CallOf(u)'
  BY DEF Moves, Fits, CallOf
<1>2. ASSUME NEW w \in Users \ {u} PROVE CallOf(w)'
  <2>1. pc[w] \in Making => target[w] \notin known'
    BY DEF CallInv, CallOf, Keeps
  <2> QED
    BY <2>1, OtherCall DEF Moves, Keeps
<1>3. ASSUME NEW w \in Users, NEW x \in Users, pc'[w] \in Making, pc'[x] \in Making,
             target'[w] = target'[x]
      PROVE  w = x
  <2>1. \A y \in Users \ {u} : pc'[y] \in Making => target'[y] \in Created
    BY DEF CallInv, CallOf, Moves, About
  <2>2. pc'[u] \in Making => target'[u] \notin Created
    BY DEF Moves, Fits
  <2>3. CASE w # u /\ x # u
    BY <1>3, <2>3 DEF CallInv, Moves
  <2>4. CASE w = u \/ x = u
    BY <1>3, <2>1, <2>2, <2>4
  <2> QED
    BY <2>3, <2>4
<1> QED
  BY <1>1, <1>2, <1>3 DEF CallInv

(* Calls. *)
LEMMA CallStep == IInv /\ [Next]_vars => CallInv'
<1> SUFFICES ASSUME IInv, [Next]_vars PROVE CallInv'
  OBVIOUS
<1> USE DEF system, local, kept, Goto, Return
<1>f. /\ pc \in [Users -> Calls] /\ target \in [Users -> Threads \union {Null}]
      /\ handle \in [Users -> Threads \union {Null}] /\ life \in [Threads -> Lives]
  BY DEF IInv, TypeInv
<1>i. CallInv
  BY DEF IInv
<1>d. IdInv
  BY DEF IInv
<1>c. \A u \in Users : CallOf(u)
  BY <1>i DEF CallInv
<1>p. Progress
  BY ProgressStep
<1>k. KeepInv
  BY DEF IInv
<1>n. ASSUME UNCHANGED <<local, kept>> PROVE CallInv'
  <2>1. \A w \in Users : pc[w] \in Making => target[w] \notin known'
    BY <1>n, <1>c DEF CallOf
  <2>2. \A w \in Users : CallOf(w)'
    BY <1>n, <1>i, <1>p, <2>1, OtherCall
  <2> QED
    BY <1>n, <2>2, <1>i DEF CallInv
<1>1. ASSUME NEW u \in Users, NEW keep \in BOOLEAN, Create(u, keep) PROVE CallInv'
  <2>1. Moves(u, IF keep THEN "begin keep" ELSE "begin", target[u], handle[u])
    BY <1>1, <1>f DEF Create, Moves
  <2>2. Fits(IF keep THEN "begin keep" ELSE "begin", target[u], handle[u])
    <3>1. handle[u] = Null
      BY <1>1, <1>c DEF Create, CallOf, Holding, Making
    <3> QED
      BY <3>1 DEF Fits, About, Holding, Making, Joining
  <2>3. Keeps(u)
    BY <1>1 DEF Create, Keeps
  <2> QED
    BY <2>1, <2>2, <2>3, <1>p, <1>i, OneCall
<1>2. ASSUME NEW u \in Users, BeginThread(u) PROVE CallInv'
  <2>0. PICK t \in Threads \ Created :
           /\ life' = [life EXCEPT ![t] = "created"]
           /\ target' = [target EXCEPT ![u] = t]
           /\ handle' = [handle EXCEPT ![u] = t]
           /\ Goto(u, IF pc[u] = "begin" THEN "drop" ELSE "store")
           /\ UNCHANGED kept
    BY <1>2 DEF BeginThread
  <2>1. Moves(u, IF pc[u] = "begin" THEN "drop" ELSE "store", t, t)
    BY <2>0, <1>f DEF Moves
  <2>2. Fits(IF pc[u] = "begin" THEN "drop" ELSE "store", t, t)
    <3>1. t \in Created'
      BY <2>0, <1>f DEF Created
    <3>2. t \notin known'
      BY <2>0, <1>k DEF KeepInv
    <3> QED
      BY <2>0, <3>1, <3>2 DEF Fits, About, Holding, Making, Joining
  <2>3. Keeps(u)
    BY <2>0 DEF Keeps
  <2> QED
    BY <2>1, <2>2, <2>3, <1>p, <1>i, OneCall
<1>3. ASSUME NEW u \in Users, BeginFails(u) PROVE CallInv'
  <2>1. Moves(u, "idle", Null, Null)
    BY <1>3, <1>f DEF BeginFails, Moves
  <2>2. Fits("idle", Null, Null)
    BY DEF Fits, About, Holding, Making, Joining
  <2>3. Keeps(u)
    BY <1>3 DEF BeginFails, Keeps
  <2> QED
    BY <2>1, <2>2, <2>3, <1>p, <1>i, OneCall
<1>4. ASSUME NEW u \in Users, DropHandle(u) PROVE CallInv'
  <2>1. Moves(u, "idle", Null, Null)
    BY <1>4, <1>f DEF DropHandle, Moves
  <2>2. Fits("idle", Null, Null)
    BY DEF Fits, About, Holding, Making, Joining
  <2>3. Keeps(u)
    BY <1>4 DEF DropHandle, Keeps, Making
  <2> QED
    BY <2>1, <2>2, <2>3, <1>p, <1>i, OneCall
<1>5. ASSUME NEW u \in Users, StoreHandle(u) PROVE CallInv'
  <2>1. Moves(u, "idle", Null, Null)
    BY <1>5, <1>f DEF StoreHandle, Moves
  <2>2. Fits("idle", Null, Null)
    BY DEF Fits, About, Holding, Making, Joining
  <2>3. Keeps(u)
    BY <1>5 DEF StoreHandle, Keeps, Making
  <2> QED
    BY <2>1, <2>2, <2>3, <1>p, <1>i, OneCall
<1>6. ASSUME NEW u \in Users, JoinOpen(u) PROVE CallInv'
  <2>0. PICK o \in Existing :
           /\ handle' = [handle EXCEPT ![u] = o] /\ id[o] = id[target[u]]
           /\ Goto(u, "wait") /\ UNCHANGED <<life, target, kept>> /\ pc[u] = "open"
    BY <1>6 DEF JoinOpen, OpenById
  <2>1. Moves(u, "wait", target[u], o)
    BY <2>0, <1>f DEF Moves
  <2>2. Fits("wait", target[u], o)
    <3>1. o \in Created' /\ target[u] \in Created'
      BY <2>0, <1>c, <1>p DEF CallOf, Progress, Existing, About, Joining
    <3>2. target[u] \in claimed'
      BY <2>0, <1>c DEF CallOf, Joining
    <3>3. o = target[u] \/ life'[target[u]] = "ended"
      <4>1. CASE target[u] \in Existing
        BY <2>0, <4>1, <1>d DEF IdInv
      <4>2. CASE target[u] \notin Existing
        BY <2>0, <3>1, <4>2, <1>p DEF Existing, Running, Created
      <4> QED
        BY <4>1, <4>2
    <3> QED
      BY <3>1, <3>2, <3>3 DEF Fits, About, Holding, Making, Joining
  <2>3. Keeps(u)
    BY <2>0 DEF Keeps
  <2> QED
    BY <2>1, <2>2, <2>3, <1>p, <1>i, OneCall
<1>7. ASSUME NEW u \in Users, JoinOpenFails(u) PROVE CallInv'
  <2>1. Moves(u, "idle", Null, Null)
    BY <1>7, <1>f DEF JoinOpenFails, Moves
  <2>2. Fits("idle", Null, Null)
    BY DEF Fits, About, Holding, Making, Joining
  <2>3. Keeps(u)
    BY <1>7 DEF JoinOpenFails, Keeps
  <2> QED
    BY <2>1, <2>2, <2>3, <1>p, <1>i, OneCall
<1>8. ASSUME NEW u \in Users, JoinWait(u) PROVE CallInv'
  <2>1. Moves(u, "close", target[u], handle[u])
    BY <1>8, <1>f DEF JoinWait, Moves
  <2>2. Fits("close", target[u], handle[u])
    <3>1. target[u] \in Created /\ handle[u] \in Created /\ target[u] \in claimed
      BY <1>8, <1>c DEF JoinWait, CallOf, About, Holding, Making, Joining
    <3>2. life'[target[u]] = "ended"
      BY <1>8, <1>c DEF JoinWait, CallOf
    <3>3. target[u] \in claimed'
      BY <1>8, <3>1 DEF JoinWait
    <3> QED
      BY <3>1, <3>2, <3>3, <1>p DEF Progress, Fits, About, Holding, Making, Joining
  <2>3. Keeps(u)
    BY <1>8 DEF JoinWait, Keeps
  <2> QED
    BY <2>1, <2>2, <2>3, <1>p, <1>i, OneCall
<1>9. ASSUME NEW u \in Users, JoinClose(u) PROVE CallInv'
  <2>1. Moves(u, "idle", Null, Null)
    BY <1>9, <1>f DEF JoinClose, Moves
  <2>2. Fits("idle", Null, Null)
    BY DEF Fits, About, Holding, Making, Joining
  <2>3. Keeps(u)
    BY <1>9 DEF JoinClose, Keeps
  <2> QED
    BY <2>1, <2>2, <2>3, <1>p, <1>i, OneCall
<1>10. ASSUME NEW u \in Users, JoinWaitFails(u) PROVE CallInv'
  <2>1. Moves(u, "idle", Null, Null)
    BY <1>10, <1>f DEF JoinWaitFails, Moves
  <2>2. Fits("idle", Null, Null)
    BY DEF Fits, About, Holding, Making, Joining
  <2>3. Keeps(u)
    BY <1>10 DEF JoinWaitFails, Keeps
  <2> QED
    BY <2>1, <2>2, <2>3, <1>p, <1>i, OneCall
<1>11. ASSUME NEW u \in Users, CancelOpen(u) PROVE CallInv'
  <2>0. PICK o \in Existing :
           /\ handle' = [handle EXCEPT ![u] = o] /\ id[o] = id[target[u]]
           /\ Goto(u, "terminate") /\ UNCHANGED <<life, target, kept>> /\ pc[u] = "cancel"
    BY <1>11 DEF CancelOpen, OpenById
  <2>1. Moves(u, "terminate", target[u], o)
    BY <2>0, <1>f DEF Moves
  <2>2. Fits("terminate", target[u], o)
    <3>1. o \in Created' /\ target[u] \in Created'
      BY <2>0, <1>c, <1>p DEF CallOf, Progress, Existing, About, Joining
    <3> QED
      BY <3>1 DEF Fits, About, Holding, Making, Joining
  <2>3. Keeps(u)
    BY <2>0 DEF Keeps
  <2> QED
    BY <2>1, <2>2, <2>3, <1>p, <1>i, OneCall
<1>12. ASSUME NEW u \in Users, CancelOpenFails(u) PROVE CallInv'
  <2>1. Moves(u, "idle", Null, Null)
    BY <1>12, <1>f DEF CancelOpenFails, Moves
  <2>2. Fits("idle", Null, Null)
    BY DEF Fits, About, Holding, Making, Joining
  <2>3. Keeps(u)
    BY <1>12 DEF CancelOpenFails, Keeps
  <2> QED
    BY <2>1, <2>2, <2>3, <1>p, <1>i, OneCall
<1>13. ASSUME NEW u \in Users, CancelTerminate(u) PROVE CallInv'
  <2>1. Moves(u, "cancel close", target[u], handle[u])
    BY <1>13, <1>f DEF CancelTerminate, Moves
  <2>2. Fits("cancel close", target[u], handle[u])
    <3>1. target[u] \in Created /\ handle[u] \in Created
      BY <1>13, <1>c DEF CancelTerminate, CallOf, About, Holding, Making, Joining
    <3> QED
      BY <3>1, <1>p DEF Progress, Fits, About, Holding, Making, Joining
  <2>3. Keeps(u)
    BY <1>13 DEF CancelTerminate, Keeps
  <2> QED
    BY <2>1, <2>2, <2>3, <1>p, <1>i, OneCall
<1>14. ASSUME NEW u \in Users, CancelClose(u) PROVE CallInv'
  <2>1. Moves(u, "idle", Null, Null)
    BY <1>14, <1>f DEF CancelClose, Moves
  <2>2. Fits("idle", Null, Null)
    BY DEF Fits, About, Holding, Making, Joining
  <2>3. Keeps(u)
    BY <1>14 DEF CancelClose, Keeps
  <2> QED
    BY <2>1, <2>2, <2>3, <1>p, <1>i, OneCall
<1>15. ASSUME NEW u \in Users, NEW t \in Threads, JoinWithHandle(u, t) PROVE CallInv'
  <2>1. Moves(u, "wait", t, t)
    BY <1>15, <1>f DEF JoinWithHandle, Moves
  <2>2. Fits("wait", t, t)
    <3>1. t \in Created /\ t \in claimed'
      BY <1>15, <1>k DEF JoinWithHandle, KeepInv
    <3> QED
      BY <3>1, <1>p DEF Progress, Fits, About, Holding, Making, Joining
  <2>3. Keeps(u)
    BY <1>15 DEF JoinWithHandle, Keeps
  <2> QED
    BY <2>1, <2>2, <2>3, <1>p, <1>i, OneCall
<1>16. ASSUME NEW u \in Users, NEW t \in Threads, Join(u, t) PROVE CallInv'
  <2>1. Moves(u, "open", t, handle[u])
    BY <1>16, <1>f DEF Join, Moves
  <2>2. Fits("open", t, handle[u])
    <3>0. handle[u] = Null
      BY <1>16, <1>c DEF Join, CallOf, Holding, Making
    <3>1. t \in Created /\ t \in claimed'
      BY <1>16, <1>k DEF Join, KeepInv
    <3> QED
      BY <3>0, <3>1, <1>p DEF Progress, Fits, About, Holding, Making, Joining
  <2>3. Keeps(u)
    BY <1>16 DEF Join, Keeps
  <2> QED
    BY <2>1, <2>2, <2>3, <1>p, <1>i, OneCall
<1>17. ASSUME NEW u \in Users, NEW t \in Threads, Cancel(u, t) PROVE CallInv'
  <2>1. Moves(u, "cancel", t, handle[u])
    BY <1>17, <1>f DEF Cancel, Moves
  <2>2. Fits("cancel", t, handle[u])
    <3>0. handle[u] = Null
      BY <1>17, <1>c DEF Cancel, CallOf, Holding, Making
    <3>1. t \in Created
      BY <1>17, <1>k DEF Cancel, KeepInv
    <3> QED
      BY <3>0, <3>1, <1>p DEF Progress, Fits, About, Holding, Making, Joining
  <2>3. Keeps(u)
    BY <1>17 DEF Cancel, Keeps
  <2> QED
    BY <2>1, <2>2, <2>3, <1>p, <1>i, OneCall
<1>18. ASSUME NEW t \in Threads, ReadParameter(t) PROVE CallInv'
  BY <1>18, <1>n DEF ReadParameter
<1>19. ASSUME NEW t \in Threads, FreeParameter(t) PROVE CallInv'
  BY <1>19, <1>n DEF FreeParameter
<1>20. ASSUME NEW t \in Threads, TimedWait(t) PROVE CallInv'
  BY <1>20, <1>n DEF TimedWait
<1>21. ASSUME NEW t \in Threads, SleepOn(t) PROVE CallInv'
  BY <1>21, <1>n DEF SleepOn
<1>22. ASSUME NEW t \in Threads, TimeOut(t) PROVE CallInv'
  BY <1>22, <1>n DEF TimeOut
<1>23. ASSUME NEW t \in Threads, Signalled(t) PROVE CallInv'
  BY <1>23, <1>n DEF Signalled
<1>24. ASSUME NEW t \in Threads, EndThread(t) PROVE CallInv'
  BY <1>24, <1>n DEF EndThread
<1>25. CASE UNCHANGED vars
  BY <1>25, <1>n DEF vars
<1>26. ASSUME NEW u \in Users, CancelTerminateFails(u) PROVE CallInv'
  <2>1. Moves(u, "cancel close", target[u], handle[u])
    BY <1>26, <1>f DEF CancelTerminateFails, Moves
  <2>2. Fits("cancel close", target[u], handle[u])
    <3>1. handle[u] \in Created /\ target[u] \in Created
      BY <1>26, <1>c DEF CancelTerminateFails, CallOf, About, Holding, Making, Joining
    <3> QED
      BY <3>1, <1>p DEF Fits, About, Holding, Making, Joining, Progress
  <2>3. Keeps(u)
    BY <1>26 DEF CancelTerminateFails, Keeps
  <2> QED
    BY <2>1, <2>2, <2>3, <1>p, <1>i, OneCall
<1>27. ASSUME NEW t \in Threads, CondWait(t) PROVE CallInv'
  BY <1>27, <1>n DEF CondWait
<1> QED
  BY <1>1, <1>2, <1>3, <1>4, <1>5, <1>6, <1>7, <1>8, <1>9, <1>10, <1>11,
     <1>12, <1>13, <1>14, <1>15, <1>16, <1>17, <1>18, <1>19, <1>20, <1>21,
     <1>22, <1>23, <1>24, <1>25, <1>26, <1>27
     DEF Next, Inner, Thread

(* What users keep. *)
LEMMA KeepStep == IInv /\ [Next]_vars => KeepInv'
<1> SUFFICES ASSUME IInv, [Next]_vars PROVE KeepInv'
  OBVIOUS
<1> USE DEF system, local, kept, Goto, Return
<1>k. KeepInv
  BY DEF IInv
<1>c. \A u \in Users : CallOf(u)
  BY DEF IInv, CallInv
<1>p. Created \subseteq Created' /\ \A t \in Created : life[t] = "ended" => life'[t] = "ended"
  BY ProgressStep DEF Progress
<1>j. \A t \in joined : t \in Created /\ life'[t] = "ended"
  BY <1>k, <1>p DEF KeepInv, JoinedHasEnded
<1>n. ASSUME UNCHANGED kept PROVE KeepInv'
  BY <1>n, <1>k, <1>p, <1>j DEF KeepInv, JoinedHasEnded
<1>1. ASSUME NEW u \in Users, NEW keep \in BOOLEAN, Create(u, keep) PROVE KeepInv'
  BY <1>1, <1>n DEF Create
<1>2. ASSUME NEW u \in Users, BeginThread(u) PROVE KeepInv'
  BY <1>2, <1>n DEF BeginThread
<1>3. ASSUME NEW u \in Users, BeginFails(u) PROVE KeepInv'
  BY <1>3, <1>n DEF BeginFails
<1>4. ASSUME NEW u \in Users, DropHandle(u) PROVE KeepInv'
  <2>1. target[u] \in Created
    BY <1>4, <1>c DEF DropHandle, CallOf, About, Making
  <2> QED
    BY <1>4, <2>1, <1>k, <1>p, <1>j DEF DropHandle, KeepInv, JoinedHasEnded
<1>5. ASSUME NEW u \in Users, StoreHandle(u) PROVE KeepInv'
  <2>1. target[u] \in Created /\ handle[u] = target[u]
    BY <1>5, <1>c DEF StoreHandle, CallOf, About, Making
  <2> QED
    BY <1>5, <2>1, <1>k, <1>p, <1>j DEF StoreHandle, KeepInv, JoinedHasEnded
<1>6. ASSUME NEW u \in Users, JoinOpen(u) PROVE KeepInv'
  BY <1>6, <1>n DEF JoinOpen, OpenById
<1>7. ASSUME NEW u \in Users, JoinOpenFails(u) PROVE KeepInv'
  BY <1>7, <1>n DEF JoinOpenFails
<1>8. ASSUME NEW u \in Users, JoinWait(u) PROVE KeepInv'
  BY <1>8, <1>n DEF JoinWait
<1>9. ASSUME NEW u \in Users, JoinClose(u) PROVE KeepInv'
  <2>1. target[u] \in claimed /\ life[target[u]] = "ended"
    BY <1>9, <1>c DEF JoinClose, CallOf, Joining
  <2>2. life'[target[u]] = "ended"
    BY <2>1, <1>k, <1>p DEF KeepInv
  <2> QED
    BY <1>9, <2>1, <2>2, <1>k, <1>p, <1>j DEF JoinClose, KeepInv, JoinedHasEnded
<1>10. ASSUME NEW u \in Users, JoinWaitFails(u) PROVE KeepInv'
  BY <1>10, <1>n DEF JoinWaitFails
<1>11. ASSUME NEW u \in Users, CancelOpen(u) PROVE KeepInv'
  BY <1>11, <1>n DEF CancelOpen, OpenById
<1>12. ASSUME NEW u \in Users, CancelOpenFails(u) PROVE KeepInv'
  BY <1>12, <1>n DEF CancelOpenFails
<1>13. ASSUME NEW u \in Users, CancelTerminate(u) PROVE KeepInv'
  BY <1>13, <1>n DEF CancelTerminate
<1>14. ASSUME NEW u \in Users, CancelClose(u) PROVE KeepInv'
  BY <1>14, <1>n DEF CancelClose
<1>15. ASSUME NEW u \in Users, NEW t \in Threads, JoinWithHandle(u, t) PROVE KeepInv'
  BY <1>15, <1>k, <1>p, <1>j DEF JoinWithHandle, KeepInv, JoinedHasEnded
<1>16. ASSUME NEW u \in Users, NEW t \in Threads, Join(u, t) PROVE KeepInv'
  BY <1>16, <1>k, <1>p, <1>j DEF Join, KeepInv, JoinedHasEnded
<1>17. ASSUME NEW u \in Users, NEW t \in Threads, Cancel(u, t) PROVE KeepInv'
  BY <1>17, <1>n DEF Cancel
<1>18. ASSUME NEW t \in Threads, ReadParameter(t) PROVE KeepInv'
  BY <1>18, <1>n DEF ReadParameter
<1>19. ASSUME NEW t \in Threads, FreeParameter(t) PROVE KeepInv'
  BY <1>19, <1>n DEF FreeParameter
<1>20. ASSUME NEW t \in Threads, TimedWait(t) PROVE KeepInv'
  BY <1>20, <1>n DEF TimedWait
<1>21. ASSUME NEW t \in Threads, SleepOn(t) PROVE KeepInv'
  BY <1>21, <1>n DEF SleepOn
<1>22. ASSUME NEW t \in Threads, TimeOut(t) PROVE KeepInv'
  BY <1>22, <1>n DEF TimeOut
<1>23. ASSUME NEW t \in Threads, Signalled(t) PROVE KeepInv'
  BY <1>23, <1>n DEF Signalled
<1>24. ASSUME NEW t \in Threads, EndThread(t) PROVE KeepInv'
  BY <1>24, <1>n DEF EndThread
<1>25. CASE UNCHANGED vars
  BY <1>25, <1>n DEF vars
<1>26. ASSUME NEW u \in Users, CancelTerminateFails(u) PROVE KeepInv'
  BY <1>26, <1>n DEF CancelTerminateFails
<1>27. ASSUME NEW t \in Threads, CondWait(t) PROVE KeepInv'
  BY <1>27, <1>n DEF CondWait
<1> QED
  BY <1>1, <1>2, <1>3, <1>4, <1>5, <1>6, <1>7, <1>8, <1>9, <1>10, <1>11,
     <1>12, <1>13, <1>14, <1>15, <1>16, <1>17, <1>18, <1>19, <1>20, <1>21,
     <1>22, <1>23, <1>24, <1>25, <1>26, <1>27
     DEF Next, Inner, Thread

-----------------------------------------------------------------------------
(* The calls that hold a thread are counted; one more takes it up, one less *)
(* gives it back.                                                           *)
LEMMA HoldersFinite ==
    ASSUME NEW h, NEW t
    PROVE  IsFiniteSet(Holders(h, t)) /\ Cardinality(Holders(h, t)) \in Nat
<1>1. Holders(h, t) \in SUBSET Users
  BY DEF Holders
<1> QED
  BY <1>1, WinThreadsAssumption, FS_Subset, FS_CardinalityType

(* User u gives a handle back. *)
LEMMA GiveBack ==
    ASSUME handle \in [Users -> Threads \union {Null}], NEW u \in Users,
           handle' = [handle EXCEPT ![u] = Null]
    PROVE  \A t \in Threads : Cardinality(Holders(handle', t)) =
               IF t = handle[u] THEN Cardinality(Holders(handle, t)) - 1
                                ELSE Cardinality(Holders(handle, t))
<1> TAKE t \in Threads
<1>1. Null \notin Threads
  BY WinThreadsAssumption DEF Threads
<1>2. Holders(handle', t) = Holders(handle, t) \ {u}
  BY <1>1 DEF Holders
<1>3. u \in Holders(handle, t) <=> t = handle[u]
  BY DEF Holders
<1> QED
  BY <1>2, <1>3, HoldersFinite, FS_RemoveElement

(* User u, who has none, takes one. *)
LEMMA TakeUp ==
    ASSUME handle \in [Users -> Threads \union {Null}], NEW u \in Users, NEW o \in Threads,
           handle[u] = Null, handle' = [handle EXCEPT ![u] = o]
    PROVE  \A t \in Threads : Cardinality(Holders(handle', t)) =
               IF t = o THEN Cardinality(Holders(handle, t)) + 1
                        ELSE Cardinality(Holders(handle, t))
<1> TAKE t \in Threads
<1>1. Null \notin Threads
  BY WinThreadsAssumption DEF Threads
<1>2. Holders(handle', t) = IF t = o THEN Holders(handle, t) \union {u} ELSE Holders(handle, t)
  BY <1>1 DEF Holders
<1>3. u \notin Holders(handle, t)
  BY <1>1 DEF Holders
<1> QED
  BY <1>2, <1>3, HoldersFinite, FS_AddElement

(* Handles. *)
LEMMA HandleStep == IInv /\ [Next]_vars => HandleInv'
<1> SUFFICES ASSUME IInv, [Next]_vars PROVE HandleInv'
  OBVIOUS
<1> USE DEF system, local, kept, Goto, Return
<1>t. TypeInv /\ handle \in [Users -> Threads \union {Null}] /\ open \in [Threads -> Int]
  BY DEF IInv, TypeInv, Numbers
<1>i. \A t \in Threads : open[t] = Cardinality(Holders(handle, t)) + IF t \in saved THEN 1 ELSE 0
  BY DEF IInv, HandleInv
<1>f. \A t \in Threads : Cardinality(Holders(handle, t)) \in Int
  BY HoldersFinite
<1>h. ASSUME NEW u \in Users, pc[u] \in Holding PROVE handle[u] \in Threads
  BY <1>h DEF IInv, CallInv, CallOf, Created
<1>e. ASSUME NEW u \in Users, pc[u] \notin Holding PROVE handle[u] = Null
  BY <1>e DEF IInv, CallInv, CallOf
<1>q. ASSUME \A t \in Threads : open'[t] = Cardinality(Holders(handle', t)) + IF t \in saved' THEN 1 ELSE 0
      PROVE  HandleInv'
  BY <1>q DEF HandleInv, Holders
<1>s. ASSUME UNCHANGED <<open, handle, saved>> PROVE HandleInv'
  BY <1>s, <1>i DEF HandleInv, Holders
<1>none. ASSUME NEW u \in Users, handle[u] = Null, handle' = [handle EXCEPT ![u] = Null],
                UNCHANGED <<open, saved>>
         PROVE  HandleInv'
  BY <1>none, <1>s, <1>t
<1>close. ASSUME NEW u \in Users, handle[u] \in Threads, CloseHandle(handle[u]), saved' = saved,
                 handle' = [handle EXCEPT ![u] = Null]
          PROVE  HandleInv'
  <2>1. \A t \in Threads : open'[t] = IF t = handle[u] THEN open[t] - 1 ELSE open[t]
    BY <1>close, <1>t, HandleCount
  <2>2. \A t \in Threads : Cardinality(Holders(handle', t)) =
            IF t = handle[u] THEN Cardinality(Holders(handle, t)) - 1
                             ELSE Cardinality(Holders(handle, t))
    BY <1>close, <1>t, GiveBack
  <2> QED
    <3>1. ASSUME NEW t \in Threads
          PROVE  open'[t] = Cardinality(Holders(handle', t)) + IF t \in saved' THEN 1 ELSE 0
      <4>1. /\ Cardinality(Holders(handle, t)) \in Int
            /\ open[t] = Cardinality(Holders(handle, t)) + IF t \in saved THEN 1 ELSE 0
        BY <1>i, <1>f
      <4>2. (IF t \in saved' THEN 1 ELSE 0) = IF t \in saved THEN 1 ELSE 0
        BY <1>close
      <4>3. CASE t = handle[u]
        BY <2>1, <2>2, <4>1, <4>2, <4>3
      <4>4. CASE ~(t = handle[u])
        BY <2>1, <2>2, <4>1, <4>2, <4>4
      <4> QED
        BY <4>3, <4>4
    <3> QED
      BY <3>1, <1>q
<1>open. ASSUME NEW u \in Users, NEW o \in Threads, handle[u] = Null, OpenHandle(o), saved' = saved,
                handle' = [handle EXCEPT ![u] = o]
         PROVE  HandleInv'
  <2>1. \A t \in Threads : open'[t] = IF t = o THEN open[t] + 1 ELSE open[t]
    BY <1>open, <1>t, HandleCount
  <2>2. \A t \in Threads : Cardinality(Holders(handle', t)) =
            IF t = o THEN Cardinality(Holders(handle, t)) + 1
                     ELSE Cardinality(Holders(handle, t))
    BY <1>open, <1>t, TakeUp
  <2> QED
    <3>1. ASSUME NEW t \in Threads
          PROVE  open'[t] = Cardinality(Holders(handle', t)) + IF t \in saved' THEN 1 ELSE 0
      <4>1. /\ Cardinality(Holders(handle, t)) \in Int
            /\ open[t] = Cardinality(Holders(handle, t)) + IF t \in saved THEN 1 ELSE 0
        BY <1>i, <1>f
      <4>2. (IF t \in saved' THEN 1 ELSE 0) = IF t \in saved THEN 1 ELSE 0
        BY <1>open
      <4>3. CASE t = o
        BY <2>1, <2>2, <4>1, <4>2, <4>3
      <4>4. CASE ~(t = o)
        BY <2>1, <2>2, <4>1, <4>2, <4>4
      <4> QED
        BY <4>3, <4>4
    <3> QED
      BY <3>1, <1>q
<1>1. ASSUME NEW u \in Users, NEW keep \in BOOLEAN, Create(u, keep) PROVE HandleInv'
  BY <1>1, <1>s DEF Create
<1>2. ASSUME NEW u \in Users, BeginThread(u) PROVE HandleInv'
  <2>1. handle[u] = Null
    BY <1>2, <1>e DEF BeginThread, Holding, Making
  <2>2. PICK o \in Threads : OpenHandle(o) /\ handle' = [handle EXCEPT ![u] = o] /\ saved' = saved
    BY <1>2 DEF BeginThread
  <2> QED
    BY <2>1, <2>2, <1>open
<1>3. ASSUME NEW u \in Users, BeginFails(u) PROVE HandleInv'
  <2>1. handle[u] = Null
    BY <1>3, <1>e DEF BeginFails, Holding, Making
  <2> QED
    BY <1>3, <2>1, <1>none DEF BeginFails
<1>4. ASSUME NEW u \in Users, DropHandle(u) PROVE HandleInv'
  <2>1. handle[u] \in Threads /\ CloseHandle(handle[u]) /\ saved' = saved
    BY <1>4, <1>h DEF DropHandle, Holding, Making
  <2>2. handle' = [handle EXCEPT ![u] = Null]
    BY <1>4 DEF DropHandle
  <2> QED
    BY <2>1, <2>2, <1>close
<1>5. ASSUME NEW u \in Users, StoreHandle(u) PROVE HandleInv'
  <2>1. handle[u] \in Threads
    BY <1>5, <1>h DEF StoreHandle, Holding, Making
  <2>2. handle[u] \notin saved
    BY <1>5 DEF StoreHandle, IInv, CallInv, CallOf, KeepInv, Making
  <2>3. open' = open /\ saved' = saved \union {handle[u]} /\ handle' = [handle EXCEPT ![u] = Null]
    BY <1>5 DEF StoreHandle
  <2>4. \A t \in Threads : Cardinality(Holders(handle', t)) =
            IF t = handle[u] THEN Cardinality(Holders(handle, t)) - 1
                             ELSE Cardinality(Holders(handle, t))
    BY <2>3, <1>t, GiveBack
  <2> QED
    <3>1. ASSUME NEW t \in Threads
          PROVE  open'[t] = Cardinality(Holders(handle', t)) + IF t \in saved' THEN 1 ELSE 0
      <4>1. /\ Cardinality(Holders(handle, t)) \in Int
            /\ open[t] = Cardinality(Holders(handle, t)) + IF t \in saved THEN 1 ELSE 0
        BY <1>i, <1>f
      <4>2. CASE t = handle[u]
        <5>1. Cardinality(Holders(handle', t)) = Cardinality(Holders(handle, t)) - 1
          BY <2>4, <4>2
        <5>2. open'[t] = open[t] /\ t \in saved' /\ t \notin saved
          BY <2>1, <2>2, <2>3, <4>2
        <5> QED
          BY <4>1, <5>1, <5>2
      <4>3. CASE ~(t = handle[u])
        <5>1. Cardinality(Holders(handle', t)) = Cardinality(Holders(handle, t))
          BY <2>4, <4>3
        <5>2. open'[t] = open[t] /\ (t \in saved' <=> t \in saved)
          BY <2>1, <2>2, <2>3, <4>3
        <5> QED
          BY <4>1, <5>1, <5>2
      <4> QED
        BY <4>2, <4>3
    <3> QED
      BY <3>1, <1>q
<1>6. ASSUME NEW u \in Users, JoinOpen(u) PROVE HandleInv'
  <2>1. handle[u] = Null
    BY <1>6, <1>e DEF JoinOpen, Holding, Making
  <2>2. PICK o \in Existing : OpenHandle(o) /\ handle' = [handle EXCEPT ![u] = o] /\ saved' = saved
    BY <1>6 DEF JoinOpen, OpenById
  <2>3. o \in Threads
    BY DEF Existing, Created
  <2> QED
    BY <2>1, <2>2, <2>3, <1>open
<1>7. ASSUME NEW u \in Users, JoinOpenFails(u) PROVE HandleInv'
  <2>1. handle[u] = Null
    BY <1>7, <1>e DEF JoinOpenFails, Holding, Making
  <2> QED
    BY <1>7, <2>1, <1>none DEF JoinOpenFails
<1>8. ASSUME NEW u \in Users, JoinWait(u) PROVE HandleInv'
  BY <1>8, <1>s DEF JoinWait
<1>9. ASSUME NEW u \in Users, JoinClose(u) PROVE HandleInv'
  <2>1. handle[u] \in Threads /\ CloseHandle(handle[u]) /\ saved' = saved
    BY <1>9, <1>h DEF JoinClose, Holding, Making
  <2>2. handle' = [handle EXCEPT ![u] = Null]
    BY <1>9 DEF JoinClose
  <2> QED
    BY <2>1, <2>2, <1>close
<1>10. ASSUME NEW u \in Users, JoinWaitFails(u) PROVE HandleInv'
  <2>1. handle[u] \in Threads /\ CloseHandle(handle[u]) /\ saved' = saved
    BY <1>10, <1>h DEF JoinWaitFails, Holding, Making
  <2>2. handle' = [handle EXCEPT ![u] = Null]
    BY <1>10 DEF JoinWaitFails
  <2> QED
    BY <2>1, <2>2, <1>close
<1>11. ASSUME NEW u \in Users, CancelOpen(u) PROVE HandleInv'
  <2>1. handle[u] = Null
    BY <1>11, <1>e DEF CancelOpen, Holding, Making
  <2>2. PICK o \in Existing : OpenHandle(o) /\ handle' = [handle EXCEPT ![u] = o] /\ saved' = saved
    BY <1>11 DEF CancelOpen, OpenById
  <2>3. o \in Threads
    BY DEF Existing, Created
  <2> QED
    BY <2>1, <2>2, <2>3, <1>open
<1>12. ASSUME NEW u \in Users, CancelOpenFails(u) PROVE HandleInv'
  <2>1. handle[u] = Null
    BY <1>12, <1>e DEF CancelOpenFails, Holding, Making
  <2> QED
    BY <1>12, <2>1, <1>none DEF CancelOpenFails
<1>13. ASSUME NEW u \in Users, CancelTerminate(u) PROVE HandleInv'
  BY <1>13, <1>s DEF CancelTerminate
<1>14. ASSUME NEW u \in Users, CancelClose(u) PROVE HandleInv'
  <2>1. handle[u] \in Threads /\ CloseHandle(handle[u]) /\ saved' = saved
    BY <1>14, <1>h DEF CancelClose, Holding, Making
  <2>2. handle' = [handle EXCEPT ![u] = Null]
    BY <1>14 DEF CancelClose
  <2> QED
    BY <2>1, <2>2, <1>close
<1>15. ASSUME NEW u \in Users, NEW t \in Threads, JoinWithHandle(u, t) PROVE HandleInv'
  <2>1. handle[u] = Null
    BY <1>15, <1>e DEF JoinWithHandle, Holding, Making
  <2>2. open' = open /\ t \in saved /\ saved' = saved \ {t} /\ handle' = [handle EXCEPT ![u] = t]
    BY <1>15 DEF JoinWithHandle
  <2>3. \A o \in Threads : Cardinality(Holders(handle', o)) =
            IF o = t THEN Cardinality(Holders(handle, o)) + 1
                     ELSE Cardinality(Holders(handle, o))
    BY <2>1, <2>2, <1>t, TakeUp
  <2> QED
    <3>1. ASSUME NEW o \in Threads
          PROVE  open'[o] = Cardinality(Holders(handle', o)) + IF o \in saved' THEN 1 ELSE 0
      <4>1. /\ Cardinality(Holders(handle, o)) \in Int
            /\ open[o] = Cardinality(Holders(handle, o)) + IF o \in saved THEN 1 ELSE 0
        BY <1>i, <1>f
      <4>2. CASE o = t
        <5>1. Cardinality(Holders(handle', o)) = Cardinality(Holders(handle, o)) + 1
          BY <2>3, <4>2
        <5>2. open'[o] = open[o] /\ o \notin saved' /\ o \in saved
          BY <2>2, <4>2
        <5> QED
          BY <4>1, <5>1, <5>2
      <4>3. CASE ~(o = t)
        <5>1. Cardinality(Holders(handle', o)) = Cardinality(Holders(handle, o))
          BY <2>3, <4>3
        <5>2. open'[o] = open[o] /\ (o \in saved' <=> o \in saved)
          BY <2>2, <4>3
        <5> QED
          BY <4>1, <5>1, <5>2
      <4> QED
        BY <4>2, <4>3
    <3> QED
      BY <3>1, <1>q
<1>16. ASSUME NEW u \in Users, NEW t \in Threads, Join(u, t) PROVE HandleInv'
  BY <1>16, <1>s DEF Join
<1>17. ASSUME NEW u \in Users, NEW t \in Threads, Cancel(u, t) PROVE HandleInv'
  BY <1>17, <1>s DEF Cancel
<1>18. ASSUME NEW t \in Threads, ReadParameter(t) PROVE HandleInv'
  BY <1>18, <1>s DEF ReadParameter
<1>19. ASSUME NEW t \in Threads, FreeParameter(t) PROVE HandleInv'
  BY <1>19, <1>s DEF FreeParameter
<1>20. ASSUME NEW t \in Threads, TimedWait(t) PROVE HandleInv'
  BY <1>20, <1>s DEF TimedWait
<1>21. ASSUME NEW t \in Threads, SleepOn(t) PROVE HandleInv'
  BY <1>21, <1>s DEF SleepOn
<1>22. ASSUME NEW t \in Threads, TimeOut(t) PROVE HandleInv'
  BY <1>22, <1>s DEF TimeOut
<1>23. ASSUME NEW t \in Threads, Signalled(t) PROVE HandleInv'
  BY <1>23, <1>s DEF Signalled
<1>24. ASSUME NEW t \in Threads, EndThread(t) PROVE HandleInv'
  BY <1>24, <1>s DEF EndThread
<1>25. CASE UNCHANGED vars
  BY <1>25, <1>s DEF vars
<1>26. ASSUME NEW u \in Users, CancelTerminateFails(u) PROVE HandleInv'
  BY <1>26, <1>s DEF CancelTerminateFails
<1>27. ASSUME NEW t \in Threads, CondWait(t) PROVE HandleInv'
  BY <1>27, <1>s DEF CondWait
<1> QED
  BY <1>1, <1>2, <1>3, <1>4, <1>5, <1>6, <1>7, <1>8, <1>9, <1>10, <1>11,
     <1>12, <1>13, <1>14, <1>15, <1>16, <1>17, <1>18, <1>19, <1>20, <1>21,
     <1>22, <1>23, <1>24, <1>25, <1>26, <1>27
     DEF Next, Inner, Thread

(* Parameters. *)
LEMMA ParamStep == IInv /\ [Next]_vars => ParamInv'
<1> SUFFICES ASSUME IInv, [Next]_vars PROVE ParamInv'
  OBVIOUS
<1> USE DEF system, local, kept, Goto, Return
<1>t. /\ life \in [Threads -> Lives] /\ pc \in [Users -> Calls] /\ memory \in [Users -> BOOLEAN]
      /\ param \in [Threads -> {"none", "live", "freed", "freed twice"}]
  BY DEF IInv, TypeInv
<1>i. \A t \in Created : Owned(t)
  BY DEF IInv, ParamInv
<1>m. \A u \in Users : memory[u] <=> pc[u] \in Begins
  BY DEF IInv, ParamInv
<1>a. ASSUME UNCHANGED <<life, param, cancelled>> PROVE \A t \in Created' : Owned(t)'
  BY <1>a, <1>i DEF Owned, Created
<1>b. ASSUME NEW u \in Users, NEW p, pc' = [pc EXCEPT ![u] = p], memory' = memory,
             pc[u] \notin Begins, p \notin Begins
      PROVE  \A w \in Users : memory'[w] <=> pc'[w] \in Begins
  BY <1>b, <1>m, <1>t
<1>c. ASSUME NEW u \in Users, NEW p, pc' = [pc EXCEPT ![u] = p],
             NEW b \in BOOLEAN, memory' = [memory EXCEPT ![u] = b], b <=> p \in Begins
      PROVE  \A w \in Users : memory'[w] <=> pc'[w] \in Begins
  BY <1>c, <1>m, <1>t
<1>d. ASSUME UNCHANGED <<pc, memory>> PROVE \A w \in Users : memory'[w] <=> pc'[w] \in Begins
  BY <1>d, <1>m
<1>l. ASSUME NEW t \in Threads, NEW l \in Lives, life[t] \notin {"none", "created", "read"},
             l \notin {"none", "created", "read"}, life' = [life EXCEPT ![t] = l],
             UNCHANGED <<param, cancelled, pc, memory>>
      PROVE  ParamInv'
  <2>1. ASSUME NEW o \in Created' PROVE Owned(o)'
    <3>1. o \in Created /\ Owned(o)
      BY <1>l, <1>t, <1>i DEF Created
    <3>2. life'[o] = IF o = t THEN l ELSE life[o]
      BY <1>l, <1>t DEF Created
    <3> QED
      BY <3>1, <3>2, <1>l DEF Owned
  <2> QED
    BY <2>1, <1>l, <1>d DEF ParamInv
<1>n. ASSUME UNCHANGED <<life, param, cancelled, pc, memory>> PROVE ParamInv'
  BY <1>n, <1>a, <1>d DEF ParamInv
<1>1. ASSUME NEW u \in Users, NEW keep \in BOOLEAN, Create(u, keep) PROVE ParamInv'
  BY <1>1, <1>a, <1>c DEF Create, Begins, ParamInv
<1>2. ASSUME NEW u \in Users, BeginThread(u) PROVE ParamInv'
  <2>1. PICK t \in Threads \ Created :
           /\ life' = [life EXCEPT ![t] = "created"]
           /\ param' = [param EXCEPT ![t] = "live"] /\ cancelled' = cancelled
    BY <1>2 DEF BeginThread
  <2>2. ASSUME NEW o \in Created' PROVE Owned(o)'
    <3>1. CASE o = t
      BY <2>1, <3>1, <1>t DEF Owned
    <3>2. CASE o # t
      <4>1. o \in Created /\ life'[o] = life[o] /\ param'[o] = param[o]
        BY <2>1, <3>2, <1>t DEF Created
      <4> QED
        BY <2>1, <4>1, <1>i DEF Owned
    <3> QED
      BY <3>1, <3>2
  <2>3. \A w \in Users : memory'[w] <=> pc'[w] \in Begins
    <3> DEFINE p == IF pc[u] = "begin" THEN "drop" ELSE "store"
    <3>1. p \notin Begins
      BY DEF Begins
    <3>2. pc' = [pc EXCEPT ![u] = p] /\ memory' = [memory EXCEPT ![u] = FALSE]
      BY <1>2 DEF BeginThread
    <3> QED
      BY <3>1, <3>2, <1>c
  <2> QED
    BY <2>2, <2>3 DEF ParamInv
<1>3. ASSUME NEW u \in Users, BeginFails(u) PROVE ParamInv'
  <2>1. /\ "idle" \notin Begins /\ pc' = [pc EXCEPT ![u] = "idle"]
        /\ memory' = [memory EXCEPT ![u] = FALSE] /\ UNCHANGED <<life, param, cancelled>>
    BY <1>3 DEF BeginFails, Begins
  <2> QED
    BY <2>1, <1>a, <1>c DEF ParamInv
<1>4. ASSUME NEW u \in Users, DropHandle(u) PROVE ParamInv'
  <2>1. /\ pc[u] \notin Begins /\ "idle" \notin Begins
        /\ pc' = [pc EXCEPT ![u] = "idle"] /\ UNCHANGED <<life, param, cancelled, memory>>
    BY <1>4 DEF DropHandle, Begins
  <2> QED
    BY <2>1, <1>a, <1>b DEF ParamInv
<1>5. ASSUME NEW u \in Users, StoreHandle(u) PROVE ParamInv'
  <2>1. /\ pc[u] \notin Begins /\ "idle" \notin Begins
        /\ pc' = [pc EXCEPT ![u] = "idle"] /\ UNCHANGED <<life, param, cancelled, memory>>
    BY <1>5 DEF StoreHandle, Begins
  <2> QED
    BY <2>1, <1>a, <1>b DEF ParamInv
<1>6. ASSUME NEW u \in Users, JoinOpen(u) PROVE ParamInv'
  <2>1. /\ pc[u] \notin Begins /\ "wait" \notin Begins
        /\ pc' = [pc EXCEPT ![u] = "wait"] /\ UNCHANGED <<life, param, cancelled, memory>>
    BY <1>6 DEF JoinOpen, OpenById, Begins
  <2> QED
    BY <2>1, <1>a, <1>b DEF ParamInv
<1>7. ASSUME NEW u \in Users, JoinOpenFails(u) PROVE ParamInv'
  <2>1. /\ pc[u] \notin Begins /\ "idle" \notin Begins
        /\ pc' = [pc EXCEPT ![u] = "idle"] /\ UNCHANGED <<life, param, cancelled, memory>>
    BY <1>7 DEF JoinOpenFails, Begins
  <2> QED
    BY <2>1, <1>a, <1>b DEF ParamInv
<1>8. ASSUME NEW u \in Users, JoinWait(u) PROVE ParamInv'
  <2>1. /\ pc[u] \notin Begins /\ "close" \notin Begins
        /\ pc' = [pc EXCEPT ![u] = "close"] /\ UNCHANGED <<life, param, cancelled, memory>>
    BY <1>8 DEF JoinWait, Begins
  <2> QED
    BY <2>1, <1>a, <1>b DEF ParamInv
<1>9. ASSUME NEW u \in Users, JoinClose(u) PROVE ParamInv'
  <2>1. /\ pc[u] \notin Begins /\ "idle" \notin Begins
        /\ pc' = [pc EXCEPT ![u] = "idle"] /\ UNCHANGED <<life, param, cancelled, memory>>
    BY <1>9 DEF JoinClose, Begins
  <2> QED
    BY <2>1, <1>a, <1>b DEF ParamInv
<1>10. ASSUME NEW u \in Users, JoinWaitFails(u) PROVE ParamInv'
  <2>1. /\ pc[u] \notin Begins /\ "idle" \notin Begins
        /\ pc' = [pc EXCEPT ![u] = "idle"] /\ UNCHANGED <<life, param, cancelled, memory>>
    BY <1>10 DEF JoinWaitFails, Begins
  <2> QED
    BY <2>1, <1>a, <1>b DEF ParamInv
<1>11. ASSUME NEW u \in Users, CancelOpen(u) PROVE ParamInv'
  <2>1. /\ pc[u] \notin Begins /\ "terminate" \notin Begins
        /\ pc' = [pc EXCEPT ![u] = "terminate"] /\ UNCHANGED <<life, param, cancelled, memory>>
    BY <1>11 DEF CancelOpen, OpenById, Begins
  <2> QED
    BY <2>1, <1>a, <1>b DEF ParamInv
<1>12. ASSUME NEW u \in Users, CancelOpenFails(u) PROVE ParamInv'
  <2>1. /\ pc[u] \notin Begins /\ "idle" \notin Begins
        /\ pc' = [pc EXCEPT ![u] = "idle"] /\ UNCHANGED <<life, param, cancelled, memory>>
    BY <1>12 DEF CancelOpenFails, Begins
  <2> QED
    BY <2>1, <1>a, <1>b DEF ParamInv
<1>13. ASSUME NEW u \in Users, CancelTerminate(u) PROVE ParamInv'
  <2>1. ASSUME NEW o \in Created' PROVE Owned(o)'
    <3>1. o \in Created /\ Owned(o)
      BY <1>13, <1>t, <1>i DEF CancelTerminate, Created, Running
    <3>2. /\ param'[o] = param[o] /\ cancelled \subseteq cancelled'
          /\ life'[o] = life[o] \/ (life'[o] = "ended" /\ o \in cancelled')
      BY <1>13, <1>t DEF CancelTerminate, Created
    <3> QED
      BY <3>1, <3>2 DEF Owned
  <2> QED
    BY <1>13, <2>1, <1>b DEF CancelTerminate, Begins, ParamInv
<1>14. ASSUME NEW u \in Users, CancelClose(u) PROVE ParamInv'
  <2>1. /\ pc[u] \notin Begins /\ "idle" \notin Begins
        /\ pc' = [pc EXCEPT ![u] = "idle"] /\ UNCHANGED <<life, param, cancelled, memory>>
    BY <1>14 DEF CancelClose, Begins
  <2> QED
    BY <2>1, <1>a, <1>b DEF ParamInv
<1>15. ASSUME NEW u \in Users, NEW t \in Threads, JoinWithHandle(u, t) PROVE ParamInv'
  <2>1. /\ pc[u] \notin Begins /\ "wait" \notin Begins
        /\ pc' = [pc EXCEPT ![u] = "wait"] /\ UNCHANGED <<life, param, cancelled, memory>>
    BY <1>15 DEF JoinWithHandle, Begins
  <2> QED
    BY <2>1, <1>a, <1>b DEF ParamInv
<1>16. ASSUME NEW u \in Users, NEW t \in Threads, Join(u, t) PROVE ParamInv'
  <2>1. /\ pc[u] \notin Begins /\ "open" \notin Begins
        /\ pc' = [pc EXCEPT ![u] = "open"] /\ UNCHANGED <<life, param, cancelled, memory>>
    BY <1>16 DEF Join, Begins
  <2> QED
    BY <2>1, <1>a, <1>b DEF ParamInv
<1>17. ASSUME NEW u \in Users, NEW t \in Threads, Cancel(u, t) PROVE ParamInv'
  <2>1. /\ pc[u] \notin Begins /\ "cancel" \notin Begins
        /\ pc' = [pc EXCEPT ![u] = "cancel"] /\ UNCHANGED <<life, param, cancelled, memory>>
    BY <1>17 DEF Cancel, Begins
  <2> QED
    BY <2>1, <1>a, <1>b DEF ParamInv
<1>18. ASSUME NEW t \in Threads, ReadParameter(t) PROVE ParamInv'
  <2>1. ASSUME NEW o \in Created' PROVE Owned(o)'
    <3>1. o \in Created /\ Owned(o)
      BY <1>18, <1>t, <1>i DEF ReadParameter, Created
    <3>2. life'[o] = IF o = t THEN "read" ELSE life[o]
      BY <1>18, <1>t DEF ReadParameter, Created
    <3> QED
      BY <1>18, <3>1, <3>2 DEF ReadParameter, Owned
  <2> QED
    BY <1>18, <2>1, <1>d DEF ReadParameter, ParamInv
<1>19. ASSUME NEW t \in Threads, FreeParameter(t) PROVE ParamInv'
  <2>1. ASSUME NEW o \in Created' PROVE Owned(o)'
    <3>1. o \in Created /\ Owned(o)
      BY <1>19, <1>t, <1>i DEF FreeParameter, Created
    <3>2. /\ life'[o] = IF o = t THEN "running" ELSE life[o]
          /\ param'[o] = IF o = t THEN IF param[o] = "live" THEN "freed" ELSE "freed twice"
                                  ELSE param[o]
      BY <1>19, <1>t DEF FreeParameter, Created
    <3>3. CASE o = t
      <4>1. life[t] = "read"
        BY <1>19 DEF FreeParameter
      <4> QED
        BY <3>1, <3>2, <3>3, <4>1 DEF Owned
    <3>4. CASE o # t
      <4>1. cancelled' = cancelled
        BY <1>19 DEF FreeParameter
      <4>2. life'[o] = life[o] /\ param'[o] = param[o]
        BY <3>2, <3>4
      <4> QED
        BY <3>1, <4>1, <4>2 DEF Owned
    <3> QED
      BY <3>3, <3>4
  <2> QED
    BY <1>19, <2>1, <1>d DEF FreeParameter, ParamInv
<1>20. ASSUME NEW t \in Threads, TimedWait(t) PROVE ParamInv'
  BY <1>20, <1>l DEF TimedWait, Lives
<1>21. ASSUME NEW t \in Threads, SleepOn(t) PROVE ParamInv'
  BY <1>21, <1>n DEF SleepOn
<1>22. ASSUME NEW t \in Threads, TimeOut(t) PROVE ParamInv'
  BY <1>22, <1>l DEF TimeOut, Lives
<1>23. ASSUME NEW t \in Threads, Signalled(t) PROVE ParamInv'
  BY <1>23, <1>l DEF Signalled, Lives
<1>24. ASSUME NEW t \in Threads, EndThread(t) PROVE ParamInv'
  BY <1>24, <1>l DEF EndThread, Lives
<1>25. CASE UNCHANGED vars
  BY <1>25, <1>n DEF vars
<1>26. ASSUME NEW u \in Users, CancelTerminateFails(u) PROVE ParamInv'
  <2>1. /\ pc[u] \notin Begins /\ "cancel close" \notin Begins
        /\ pc' = [pc EXCEPT ![u] = "cancel close"] /\ UNCHANGED <<life, param, cancelled, memory>>
    BY <1>26 DEF CancelTerminateFails, Begins
  <2> QED
    BY <2>1, <1>a, <1>b DEF ParamInv
<1>27. ASSUME NEW t \in Threads, CondWait(t) PROVE ParamInv'
  BY <1>27, <1>l DEF CondWait, Lives
<1> QED
  BY <1>1, <1>2, <1>3, <1>4, <1>5, <1>6, <1>7, <1>8, <1>9, <1>10, <1>11,
     <1>12, <1>13, <1>14, <1>15, <1>16, <1>17, <1>18, <1>19, <1>20, <1>21,
     <1>22, <1>23, <1>24, <1>25, <1>26, <1>27
     DEF Next, Inner, Thread

-----------------------------------------------------------------------------
(* Whatever users do and however the system answers, IInv holds.            *)
THEOREM InductiveInvariant == Spec => []IInv
<1>1. IInv /\ [Next]_vars => IInv'
  BY TypeStep, NapStep, ProgressStep, CallStep, KeepStep, HandleStep, ParamStep DEF IInv, Progress
<1> QED
  BY <1>1, InitIInv, PTL DEF Spec

(* No thread sleeps longer than it asked for, whatever the clock shows, and *)
(* for ever only if it has no deadline; the system never knows two threads  *)
(* by one id.                                                               *)
THEOREM WinTypes == Spec => []WinTypeOK
<1>1. IInv => WinTypeOK
  <2> SUFFICES ASSUME IInv PROVE WinTypeOK
    OBVIOUS
  <2>1. TypeInv /\ NapInv /\ IdInv /\ KeepInv
    BY DEF IInv
  <2>2. open \in [Threads -> 0 .. Cardinality(Users) + 1]
    <3>1. ASSUME NEW t \in Threads PROVE open[t] \in 0 .. Cardinality(Users) + 1
      <4>1. Holders(handle, t) \in SUBSET Users
        BY DEF Holders
      <4>2. /\ Cardinality(Holders(handle, t)) \in Nat /\ Cardinality(Users) \in Nat
            /\ Cardinality(Holders(handle, t)) <= Cardinality(Users)
        BY <4>1, HoldersFinite, WinThreadsAssumption, FS_Subset, FS_CardinalityType
      <4>3. open[t] = Cardinality(Holders(handle, t)) + IF t \in saved THEN 1 ELSE 0
        BY DEF IInv, HandleInv
      <4> QED
        BY <4>2, <4>3
    <3>2. open \in [Threads -> Numbers]
      BY <2>1 DEF TypeInv
    <3> QED
      BY <3>1, <3>2
  <2>3. /\ life \in [Threads -> {"none", "created", "read", "running", "waiting", "blocked", "woken", "ended"}]
        /\ id \in [Threads -> Ids \union {Null}] /\ nap \in [Threads -> 0 .. MaxTimeoutMsec \union {INFINITE}]
        /\ \A t \in Threads : nap[t] = INFINITE <=> life[t] = "blocked"
    BY <2>1 DEF TypeInv, NapInv, Lives, Naps, Waits
  <2>4. saved \subseteq known /\ joined \subseteq claimed /\ claimed \subseteq known
    BY <2>1 DEF KeepInv
  <2> QED
    BY <2>1, <2>2, <2>3, <2>4 DEF WinTypeOK, IdInv
<1> QED
  BY <1>1, InductiveInvariant, PTL

(* Every handle that is open is held by one call or kept by the users, and  *)
(* every parameter has one owner, whichever calls of the system fail.       *)
THEOREM Resources == Spec => []ResourcesAccounted
<1>1. IInv => ResourcesAccounted
  BY DEF IInv, HandleInv, ParamInv, Holders, Owned, Begins, ResourcesAccounted
<1> QED
  BY <1>1, InductiveInvariant, PTL

(* When a join has returned 0 its thread has ended, though ids pass from    *)
(* thread to thread.                                                        *)
THEOREM Joined == Spec => []JoinedHasEnded
<1>1. IInv => JoinedHasEnded
  BY DEF IInv, KeepInv
<1> QED
  BY <1>1, InductiveInvariant, PTL
=============================================================================
