------------------------------- MODULE RwInit -------------------------------
(***************************************************************************)
(* my_rw_init (my_rwlock.c) on its way to one of the two implementations:  *)
(* my_pthread_once runs check_srwlock_availability, which loads the slim   *)
(* lock functions of kernel32 one by one and decides have_srwlock; then    *)
(* the lock is initialised as a slim or as a portable one.  Every later    *)
(* operation tests have_srwlock again.                                     *)
(*                                                                         *)
(* Each thread initialises a lock of its own; once_control, the function   *)
(* pointers and have_srwlock are static and shared.                        *)
(***************************************************************************)
EXTENDS PthreadOnce, Sequences, SequencesExt

VARIABLES available,      \* the functions that kernel32 exports
          fetched,        \* how many GetProcAddress calls have been made
          pointers,       \* the function pointers that are not null
          have_srwlock,
          made            \* made[t]: what the lock of thread t was initialised as

rwInitVars == <<once_control, oncePC, begun, ended,
                available, fetched, pointers, have_srwlock, made>>

(* In the order of the GetProcAddress calls. *)
SrwFunctions == <<"InitializeSRWLock", "AcquireSRWLockExclusive", "AcquireSRWLockShared",
                  "ReleaseSRWLockExclusive", "ReleaseSRWLockShared",
                  "TryAcquireSRWLockExclusive", "TryAcquireSRWLockShared">>

TryFunctions == {"TryAcquireSRWLockExclusive", "TryAcquireSRWLockShared"}

(* Windows before Vista, Vista ("trylock APIs are missing"), and Windows 7. *)
Systems == {{}, ToSet(SrwFunctions) \ TryFunctions, ToSet(SrwFunctions)}

RwInitTypeOK == /\ OnceTypeOK
                /\ available \in Systems
                /\ fetched \in 0..Len(SrwFunctions)
                /\ pointers \subseteq available
                /\ have_srwlock \in BOOLEAN
                /\ made \in [Threads -> {"nothing", "slim", "portable"}]

Init == /\ OnceInit
        /\ available \in Systems
        /\ fetched = 0
        /\ pointers = {}
        /\ have_srwlock = FALSE
        /\ made = [t \in Threads |-> "nothing"]

(* my_rw_init calls my_pthread_once, for a first lock or for another one     *)
(* after that has been destroyed.                                           *)
MyRwInit(t) == /\ oncePC[t] = "returned" => made[t] # "nothing"
               /\ Call(t)
               /\ made' = [made EXCEPT ![t] = "nothing"]
               /\ UNCHANGED <<available, fetched, pointers, have_srwlock>>

Once(t) == /\ OnceInner(t)
           /\ UNCHANGED <<available, fetched, pointers, have_srwlock, made>>

(* Fault: a function that kernel32 lacks is taken to be there. *)
GetProcAddressBlindly(t) ==
    /\ oncePC[t] = "in_routine"
    /\ fetched < Len(SrwFunctions)
    /\ fetched' = fetched + 1
    /\ pointers' = pointers \cup {SrwFunctions[fetched + 1]}
    /\ UNCHANGED <<onceVars, available, have_srwlock, made>>

(* check_srwlock_availability, run by the thread that is in the routine. *)
GetProcAddress(t) ==
    /\ oncePC[t] = "in_routine"
    /\ fetched < Len(SrwFunctions)
    /\ fetched' = fetched + 1
    /\ pointers' = pointers \cup ({SrwFunctions[fetched + 1]} \cap available)
    /\ UNCHANGED <<onceVars, available, have_srwlock, made>>

SlimLocksUsable == "TryAcquireSRWLockExclusive" \in pointers

Decide(t) == /\ fetched = Len(SrwFunctions)
             /\ RoutineReturns(t)
             /\ have_srwlock' = (have_srwlock \/ SlimLocksUsable)
             /\ UNCHANGED <<available, fetched, pointers, made>>

(* The rest of my_rw_init: srw_init, or mutex and conditions. *)
MakeLock(t) == /\ oncePC[t] = "returned"
               /\ made[t] = "nothing"
               /\ made' = [made EXCEPT ![t] = IF have_srwlock THEN "slim" ELSE "portable"]
               /\ UNCHANGED <<onceVars, available, fetched, pointers, have_srwlock>>

RwInitInner(t) == Once(t) \/ GetProcAddress(t) \/ Decide(t) \/ MakeLock(t)

Next == \E t \in Threads : MyRwInit(t) \/ RwInitInner(t)

Spec == Init /\ [][Next]_rwInitVars

(* Every thread keeps running. *)
LiveSpec == Spec /\ \A t \in Threads : WF_rwInitVars(RwInitInner(t))
-----------------------------------------------------------------------------
(* A lock is used as what it was initialised as: every operation tests      *)
(* have_srwlock, which no longer changes once some lock has been made, and  *)
(* goes through pointers that are null where kernel32 lacks a function.     *)
UsedAsMade == /\ \A t \in Threads : /\ made[t] = "slim" => have_srwlock
                                    /\ made[t] = "portable" => ~have_srwlock
              /\ have_srwlock => pointers = ToSet(SrwFunctions)

(* Every my_rw_init returns: nobody polls for ever. *)
InitReturns == \A t \in Threads : oncePC[t] = "dirty_read" ~> made[t] # "nothing"
=============================================================================
