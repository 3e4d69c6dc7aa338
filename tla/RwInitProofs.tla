---------------------------- MODULE RwInitProofs ----------------------------
(***************************************************************************)
(* The choice of the lock for any number of threads: init_routine runs     *)
(* once and before anybody returns, and every lock is used as what it was  *)
(* made as.  OnceInv is about my_pthread_once alone, LockInv about what    *)
(* check_srwlock_availability and my_rw_init make of it.                   *)
(***************************************************************************)
EXTENDS RwInit, TLAPS

-----------------------------------------------------------------------------
(* The inductive invariant. *)

RunnerPCs == {"in_routine", "set_done"}

(* One thread at most is in the routine or about to report its end, and     *)
(* only while once_control says so.                                         *)
RunnerInv == \A t \in Threads : oncePC[t] \in RunnerPCs =>
                 /\ once_control = "INPROGRESS"
                 /\ \A u \in Threads : oncePC[u] \in RunnerPCs => u = t

(* once_control tells how far the routine has come; who returns has seen    *)
(* that it is done, who polls that it is claimed.                           *)
ProgressInv == /\ begun = IF once_control = "INIT" THEN 0 ELSE 1
               /\ once_control = "DONE" => ended = 1
               /\ once_control = "INIT" => ended = 0
               /\ \A t \in Threads : /\ oncePC[t] = "in_routine" => ended = 0
                                     /\ oncePC[t] = "set_done" => ended = 1
                                     /\ oncePC[t] = "returned" => once_control = "DONE"
                                     /\ oncePC[t] = "poll" => once_control # "INIT"

OnceInv == OnceTypeOK /\ RunnerInv /\ ProgressInv

(* Every function asked for that kernel32 has is there; a lock is made once *)
(* the routine is done, and have_srwlock stays then.                        *)
LockInv == /\ \A i \in 1 .. fetched :
                 SrwFunctions[i] \in available => SrwFunctions[i] \in pointers
           /\ \A t \in Threads : made[t] # "nothing" => once_control = "DONE"

IInv == OnceInv /\ RwInitTypeOK /\ LockInv /\ UsedAsMade

-----------------------------------------------------------------------------
(* A step of my_pthread_once, or the end of its routine, keeps OnceInv.     *)
LEMMA OnceStep ==
    ASSUME OnceInv, NEW t \in Threads, Call(t) \/ OnceInner(t) \/ RoutineReturns(t)
    PROVE  OnceInv'
<1> USE DEF OnceInv, OnceGoto, RunnerPCs
<1>1. CASE Call(t)
  BY <1>1 DEF Call, OnceTypeOK, OncePCs, RunnerInv, ProgressInv
<1>2. CASE DirtyRead(t)
  BY <1>2 DEF DirtyRead, OnceTypeOK, OncePCs, RunnerInv, ProgressInv
<1>3. CASE ClaimWon(t)
  BY <1>3 DEF ClaimWon, OnceTypeOK, OncePCs, RunnerInv, ProgressInv
<1>4. CASE ClaimLost(t)
  BY <1>4 DEF ClaimLost, OnceTypeOK, OncePCs, RunnerInv, ProgressInv
<1>5. CASE SetDone(t)
  BY <1>5 DEF SetDone, OnceTypeOK, OncePCs, RunnerInv, ProgressInv
<1>6. CASE Poll(t)
  <2>1. CASE once_control = "INPROGRESS"
    BY <1>6, <2>1 DEF Poll, OnceTypeOK, OncePCs, RunnerInv, ProgressInv
  <2>2. CASE once_control # "INPROGRESS"
    BY <1>6, <2>2 DEF Poll, OnceTypeOK, OncePCs, RunnerInv, ProgressInv
  <2> QED
    BY <2>1, <2>2
<1>7. CASE RoutineReturns(t)
  BY <1>7 DEF RoutineReturns, OnceTypeOK, OncePCs, RunnerInv, ProgressInv
<1> QED
  BY <1>1, <1>2, <1>3, <1>4, <1>5, <1>6, <1>7 DEF OnceInner

(* Nothing else touches its variables.                                      *)
LEMMA OnceStutter == OnceInv /\ UNCHANGED onceVars => OnceInv'
BY DEF OnceInv, onceVars, OnceTypeOK, RunnerInv, ProgressInv

(* A lock is only made when nobody is in the routine any more.              *)
LEMMA DoneForGood ==
    ASSUME OnceInv, LockInv, NEW t \in Threads, oncePC[t] = "in_routine"
    PROVE  \A u \in Threads : made[u] = "nothing"
BY DEF OnceInv, RunnerInv, RunnerPCs, LockInv
-----------------------------------------------------------------------------
(* What is known of the functions of kernel32. *)
LEMMA Functions7 ==
    /\ Len(SrwFunctions) = 7
    /\ ToSet(SrwFunctions) = {SrwFunctions[i] : i \in 1 .. 7}
    /\ \A sys \in Systems : sys \subseteq ToSet(SrwFunctions)
    /\ \A sys \in Systems : "TryAcquireSRWLockExclusive" \in sys
                                => sys = ToSet(SrwFunctions)
<1>1. Len(SrwFunctions) = 7 /\ DOMAIN SrwFunctions = 1 .. 7
  BY DEF SrwFunctions
<1>2. ToSet(SrwFunctions) = {SrwFunctions[i] : i \in 1 .. 7}
  BY <1>1 DEF ToSet
<1> QED
  BY <1>1, <1>2 DEF Systems, TryFunctions

(* When all have been fetched and the trylock is there, all are there.      *)
LEMMA AllThere ==
    ASSUME RwInitTypeOK, LockInv, fetched = Len(SrwFunctions), SlimLocksUsable
    PROVE  pointers = ToSet(SrwFunctions)
<1>1. available = ToSet(SrwFunctions)
  BY Functions7 DEF RwInitTypeOK, SlimLocksUsable
<1>2. \A i \in 1 .. 7 : SrwFunctions[i] \in pointers
  BY <1>1, Functions7 DEF LockInv
<1> QED
  BY <1>1, <1>2, Functions7 DEF RwInitTypeOK

-----------------------------------------------------------------------------
(* The initial state. *)
LEMMA InitIInv == Init => IInv
<1> SUFFICES ASSUME Init PROVE IInv
  OBVIOUS
<1>1. OnceInv
  BY DEF Init, OnceInit, OnceInv, OnceTypeOK, OncePCs, RunnerPCs, RunnerInv, ProgressInv
<1>2. RwInitTypeOK
  <2>1. OnceTypeOK /\ fetched \in 0 .. Len(SrwFunctions)
    BY <1>1, Functions7 DEF Init, OnceInv
  <2>2. made \in [Threads -> {"nothing", "slim", "portable"}]
    BY DEF Init
  <2> QED
    BY <2>1, <2>2 DEF Init, RwInitTypeOK
<1>3. LockInv /\ UsedAsMade
  BY DEF Init, LockInv, UsedAsMade
<1> QED
  BY <1>1, <1>2, <1>3 DEF IInv

(* One case per action of RwInit.                                           *)
LEMMA StepIInv ==
    ASSUME IInv, NEW t \in Threads, MyRwInit(t) \/ RwInitInner(t)
    PROVE  IInv'
<1> USE DEF IInv
<1>1. CASE MyRwInit(t)
  <2>1. OnceInv'
    BY <1>1, OnceStep DEF MyRwInit
  <2>2. LockInv' /\ UsedAsMade' /\ RwInitTypeOK'
    BY <1>1, <2>1 DEF MyRwInit, Call, LockInv, UsedAsMade, RwInitTypeOK, OnceInv
  <2> QED
    BY <2>1, <2>2
<1>2. CASE Once(t)
  <2>1. OnceInv'
    BY <1>2, OnceStep DEF Once
  <2>2. once_control = "DONE" => once_control' = "DONE"
    BY <1>2 DEF Once, OnceInner, DirtyRead, ClaimWon, ClaimLost, SetDone, Poll
  <2> QED
    BY <1>2, <2>1, <2>2 DEF Once, LockInv, UsedAsMade, RwInitTypeOK, OnceInv
<1>3. CASE GetProcAddress(t)
  <2>1. OnceInv'
    BY <1>3, OnceStutter DEF GetProcAddress
  <2>2. RwInitTypeOK'
    BY <1>3, <2>1, Functions7 DEF GetProcAddress, RwInitTypeOK, OnceInv
  <2>3. LockInv'
    BY <1>3, Functions7 DEF GetProcAddress, LockInv, RwInitTypeOK, onceVars
  <2>4. have_srwlock => pointers' = pointers
    BY <1>3, Functions7 DEF GetProcAddress, UsedAsMade, RwInitTypeOK
  <2> QED
    BY <1>3, <2>1, <2>2, <2>3, <2>4 DEF GetProcAddress, UsedAsMade
<1>4. CASE Decide(t)
  <2>1. OnceInv' /\ once_control' = once_control
    BY <1>4, OnceStep DEF Decide, RoutineReturns
  <2>2. \A u \in Threads : made[u] = "nothing"
    BY <1>4, DoneForGood DEF Decide, RoutineReturns, OnceGoto
  <2>3. have_srwlock' => pointers = ToSet(SrwFunctions)
    BY <1>4, AllThere DEF Decide, UsedAsMade
  <2>4. RwInitTypeOK'
    BY <1>4, <2>1 DEF Decide, RwInitTypeOK, OnceInv
  <2> QED
    BY <1>4, <2>1, <2>2, <2>3, <2>4 DEF Decide, LockInv, UsedAsMade
<1>5. CASE MakeLock(t)
  <2>1. OnceInv' /\ once_control' = "DONE"
    BY <1>5, OnceStutter DEF MakeLock, onceVars, OnceInv, ProgressInv
  <2> QED
    BY <1>5, <2>1 DEF MakeLock, LockInv, UsedAsMade, RwInitTypeOK, OnceInv
<1> QED
  BY <1>1, <1>2, <1>3, <1>4, <1>5 DEF RwInitInner

(* A step that changes nothing. *)
LEMMA StutterIInv == IInv /\ UNCHANGED rwInitVars => IInv'
BY OnceStutter
   DEF IInv, rwInitVars, onceVars, OnceInv, RwInitTypeOK, LockInv, UsedAsMade

(* IInv holds at any time, however many threads initialise locks.           *)
THEOREM InductiveInvariant == Spec => []IInv
<1>1. Init => IInv
  BY InitIInv
<1>2. IInv /\ [Next]_rwInitVars => IInv'
  BY StepIInv, StutterIInv DEF Next
<1> QED
  BY <1>1, <1>2, PTL DEF Spec

(* Every variable keeps its type.                                           *)
THEOREM TypeCorrect == Spec => []RwInitTypeOK
BY InductiveInvariant, PTL DEF IInv

(* my_pthread_once runs its routine once, and returns after it has ended.   *)
THEOREM OnceContract == Spec => []RoutineRunsOnce
<1>1. IInv => RoutineRunsOnce
  BY DEF IInv, OnceInv, ProgressInv, RoutineRunsOnce
<1> QED
  BY <1>1, InductiveInvariant, PTL

(* my_rw_init: every lock is used as what it was made as, and nobody calls  *)
(* through a null pointer.                                                  *)
THEOREM LocksUsedAsMade == Spec => []UsedAsMade
BY InductiveInvariant, PTL DEF IInv
=============================================================================
