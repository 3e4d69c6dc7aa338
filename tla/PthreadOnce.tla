---------------------------- MODULE PthreadOnce ----------------------------
(***************************************************************************)
(* my_pthread_once (my_pthread.c): whoever calls first runs init_routine,  *)
(* everybody else returns after it has run.  A call starts with a "dirty"  *)
(* read of once_control, then tries to claim it with a compare-and-swap;   *)
(* who comes second polls until the claim is turned into DONE.             *)
(*                                                                         *)
(* The routine itself is the caller's: here it begins and ends.            *)
(***************************************************************************)
EXTENDS Integers, FiniteSets

CONSTANT Threads

VARIABLES once_control,   \* INIT, INPROGRESS or DONE
          oncePC,
          begun,          \* how often init_routine has been entered
          ended           \* ... and left (these two only observe)

onceVars == <<once_control, oncePC, begun, ended>>

OncePCs == {"idle", "dirty_read", "claim", "in_routine", "set_done", "poll", "returned"}

OnceTypeOK == /\ once_control \in {"INIT", "INPROGRESS", "DONE"}
              /\ oncePC \in [Threads -> OncePCs]
              /\ begun \in Nat
              /\ ended \in Nat

OnceInit == /\ once_control = "INIT"
            /\ oncePC = [t \in Threads |-> "idle"]
            /\ begun = 0
            /\ ended = 0

OnceGoto(t, from, to) == oncePC[t] = from /\ oncePC' = [oncePC EXCEPT ![t] = to]

Call(t) == /\ OnceGoto(t, "idle", "dirty_read") \/ OnceGoto(t, "returned", "dirty_read")
           /\ UNCHANGED <<once_control, begun, ended>>

(* Fault: the dirty read takes a claim for the end of the routine. *)
DirtyReadBelievesClaim(t) ==
    /\ OnceGoto(t, "dirty_read",
                IF once_control # "INIT" THEN "returned" ELSE "claim")
    /\ UNCHANGED <<once_control, begun, ended>>

(* The dirty read: only DONE is believed. *)
DirtyRead(t) == /\ OnceGoto(t, "dirty_read",
                            IF once_control = "DONE" THEN "returned" ELSE "claim")
                /\ UNCHANGED <<once_control, begun, ended>>

(* Fault: the claim is read but not written in the same operation. *)
ClaimWonUnmarked(t) == /\ once_control = "INIT"
                       /\ OnceGoto(t, "claim", "in_routine")
                       /\ begun' = begun + 1
                       /\ UNCHANGED <<once_control, ended>>

(* InterlockedCompareExchange and the switch on the value it returned. *)
ClaimWon(t) == /\ once_control = "INIT"
               /\ once_control' = "INPROGRESS"
               /\ OnceGoto(t, "claim", "in_routine")
               /\ begun' = begun + 1
               /\ UNCHANGED ended

ClaimLost(t) == /\ once_control # "INIT"
                /\ OnceGoto(t, "claim",
                            IF once_control = "INPROGRESS" THEN "poll" ELSE "returned")
                /\ UNCHANGED <<once_control, begun, ended>>

(* init_routine returns; then its end is made known. *)
RoutineReturns(t) == /\ OnceGoto(t, "in_routine", "set_done")
                     /\ ended' = ended + 1
                     /\ UNCHANGED <<once_control, begun>>

(* Fault: the end of the routine is never made known. *)
SetDoneForgotten(t) == /\ OnceGoto(t, "set_done", "returned")
                       /\ UNCHANGED <<once_control, begun, ended>>

SetDone(t) == /\ OnceGoto(t, "set_done", "returned")
              /\ once_control' = "DONE"
              /\ UNCHANGED <<begun, ended>>

(* One turn of the polling loop. *)
Poll(t) == /\ OnceGoto(t, "poll", IF once_control = "INPROGRESS" THEN "poll" ELSE "returned")
           /\ UNCHANGED <<once_control, begun, ended>>

(* The steps of a call, the routine apart. *)
OnceInner(t) == DirtyRead(t) \/ ClaimWon(t) \/ ClaimLost(t) \/ SetDone(t) \/ Poll(t)

OnceNext == \E t \in Threads : Call(t) \/ OnceInner(t) \/ RoutineReturns(t)

OnceSpec == OnceInit /\ [][OnceNext]_onceVars
-----------------------------------------------------------------------------
(* init_routine is entered at most once, however the callers interleave,    *)
(* and no call returns before it has ended: what it initialises is complete *)
(* for everybody who called my_pthread_once.                                *)
RoutineRunsOnce == /\ begun <= 1
                   /\ \A t \in Threads : oncePC[t] = "returned" => ended = 1
=============================================================================
