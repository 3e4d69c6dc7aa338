----------------------------- MODULE WinThreads -----------------------------
(***************************************************************************)
(* Threads on Windows (my_pthread.c): pthread_create_base, pthread_start,  *)
(* pthread_exit, pthread_join_base, pthread_cancel, and the waiting of a   *)
(* thread for a condition, with a deadline or without.                     *)
(*                                                                         *)
(* A thread is known to the system by an id and by handles.  It has its id *)
(* until it has ended and its last handle is closed; then a new thread may *)
(* get the id.  Users create, join and cancel threads; each user is at one *)
(* statement of one call.  Handles are told apart by who holds them: the   *)
(* local variable of a call, or the out_handle of a create.                *)
(***************************************************************************)
EXTENDS Integers, FiniteSets

CONSTANTS Users,
          MaxThreads,        \* bound: how many threads are ever created
          Ids,               \* the ids the system gives
          Null,
          DwordBits,         \* the width of a DWORD
          TicksPerMsec,      \* 10000: the clock counts in units of 100ns
          MaxTimeoutMsec,    \* max_timeout_msec of every deadline
          Clock              \* what the system clock may show, some numbers

ASSUME WinThreadsAssumption ==
    /\ IsFiniteSet(Users)
    /\ MaxThreads \in Nat /\ Null \notin Users \union Ids \union Int
    /\ DwordBits \in Nat /\ TicksPerMsec \in Nat \ {0}
    /\ MaxTimeoutMsec \in 0 .. 2 ^ DwordBits - 2
    /\ Clock \subseteq Int

Threads == 1 .. MaxThreads      \* in the order of their creation

VARIABLES \* the system
          life,        \* where each thread is in pthread_start and in its function
          id,          \* its id
          open,        \* how many handles of it are open
          nap,         \* for how many milliseconds it still sleeps
          param,       \* its thread_start_parameter
          cancelled,   \* threads that TerminateThread has hit
          \* the users
          pc, target,  \* the statement a user is at, and the thread it is about
          handle,      \* the thread its local variable handle refers to
          memory,      \* its local variable parameter
          \* what users keep
          known,       \* threads whose creation has returned
          saved,       \* threads whose handle is kept for joining
          claimed,     \* threads that a user joins or has joined
          joined       \* threads whose join has returned 0

system == <<life, id, open, nap, cancelled>>
local  == <<pc, target, handle, memory>>
kept   == <<known, saved, claimed, joined>>
vars   == <<life, id, open, nap, param, cancelled, pc, target, handle, memory,
            known, saved, claimed, joined>>

Created == {t \in Threads : life[t] # "none"}
Running == {t \in Created : life[t] # "ended"}

(* The threads the system still knows, by their ids. *)
Existing == {t \in Created : t \in Running \/ open[t] > 0}

INFINITE == 2 ^ DwordBits - 1
UINT_MAX == 2 ^ DwordBits - 1

Init == /\ life = [t \in Threads |-> "none"]
        /\ id = [t \in Threads |-> Null]
        /\ open = [t \in Threads |-> 0]
        /\ nap = [t \in Threads |-> 0]
        /\ param = [t \in Threads |-> "none"]
        /\ cancelled = {}
        /\ pc = [u \in Users |-> "idle"]
        /\ target = [u \in Users |-> Null]
        /\ handle = [u \in Users |-> Null]
        /\ memory = [u \in Users |-> FALSE]
        /\ known = {} /\ saved = {} /\ claimed = {} /\ joined = {}

Goto(u, where) == pc' = [pc EXCEPT ![u] = where]

(* The call returns; its locals are gone. *)
Return(u) == /\ Goto(u, "idle")
             /\ target' = [target EXCEPT ![u] = Null]
             /\ handle' = [handle EXCEPT ![u] = Null]

(* CloseHandle, and a handle more *)
CloseHandle(t) == open' = [open EXCEPT ![t] = @ - 1]
OpenHandle(t)  == open' = [open EXCEPT ![t] = @ + 1]
-----------------------------------------------------------------------------
(* pthread_create_base: malloc of the parameter (when it fails nothing is   *)
(* done).  keep tells whether there is an out_handle, as there is in        *)
(* pthread_create_get_handle and not in pthread_create.                     *)
Create(u, keep) ==
    /\ pc[u] = "idle"
    /\ memory' = [memory EXCEPT ![u] = TRUE]
    /\ Goto(u, IF keep THEN "begin keep" ELSE "begin")
    /\ UNCHANGED <<system, param, target, handle, kept>>

(* _beginthreadex: the new thread may run from now on, even before the      *)
(* creator goes on.  Its id has been stored in thread_id.                   *)
BeginThread(u) ==
    /\ pc[u] \in {"begin", "begin keep"}
    /\ \E t \in Threads \ Created, i \in Ids \ {id[o] : o \in Existing} :
          /\ \A o \in Threads \ Created : t <= o
          /\ life' = [life EXCEPT ![t] = "created"]
          /\ id' = [id EXCEPT ![t] = i]
          /\ OpenHandle(t)
          /\ param' = [param EXCEPT ![t] = "live"]
          /\ target' = [target EXCEPT ![u] = t]
          /\ handle' = [handle EXCEPT ![u] = t]
    /\ memory' = [memory EXCEPT ![u] = FALSE]
    /\ Goto(u, IF pc[u] = "begin" THEN "drop" ELSE "store")
    /\ UNCHANGED <<nap, cancelled, kept>>

(* ... or it fails, and the creator frees the parameter. *)
BeginFails(u) ==
    /\ pc[u] \in {"begin", "begin keep"}
    /\ memory' = [memory EXCEPT ![u] = FALSE]
    /\ Return(u)
    /\ UNCHANGED <<system, param, kept>>

(* CloseHandle when nobody wants the handle *)
DropHandle(u) ==
    /\ pc[u] = "drop"
    /\ CloseHandle(handle[u])
    /\ known' = known \union {target[u]}
    /\ Return(u)
    /\ UNCHANGED <<life, id, nap, param, cancelled, memory, saved, claimed, joined>>

(* *out_handle= handle *)
StoreHandle(u) ==
    /\ pc[u] = "store"
    /\ saved' = saved \union {handle[u]}
    /\ known' = known \union {target[u]}
    /\ Return(u)
    /\ UNCHANGED <<system, param, memory, claimed, joined>>
-----------------------------------------------------------------------------
(* pthread_start: func and arg are read, then the parameter is freed, ...   *)
ReadParameter(t) ==
    /\ life[t] = "created"
    /\ life' = [life EXCEPT ![t] = "read"]
    /\ UNCHANGED <<id, open, nap, param, cancelled, local, kept>>

FreeParameter(t) ==
    /\ life[t] = "read"
    /\ life' = [life EXCEPT ![t] = "running"]
    /\ param' = [param EXCEPT ![t] = IF @ = "live" THEN "freed" ELSE "freed twice"]
    /\ UNCHANGED <<id, open, nap, cancelled, local, kept>>

(* Fault: a deadline that has passed is waited for. *)
GetMillisecondsUnsigned(deadline, now) ==
    LET millis == (deadline - now) \div TicksPerMsec
    IN  IF deadline = Null THEN INFINITE
        ELSE (IF millis > MaxTimeoutMsec THEN MaxTimeoutMsec ELSE millis) % 2 ^ DwordBits

(* Fault: a clock that has been set back makes the time longer. *)
GetMillisecondsUncapped(deadline, now) ==
    LET millis == (deadline - now) \div TicksPerMsec
    IN  IF deadline = Null THEN INFINITE
        ELSE IF millis < 0 THEN 0 ELSE (IF millis > UINT_MAX THEN UINT_MAX ELSE millis) % 2 ^ DwordBits

(* get_milliseconds: how long it is from now to the deadline; now is what   *)
(* the system clock shows, which may have been set in the meantime.  There  *)
(* is none (Null) for pthread_cond_wait.                                    *)
GetMilliseconds(deadline, now) ==
    LET millis == (deadline - now) \div TicksPerMsec
        capped == IF millis > MaxTimeoutMsec THEN MaxTimeoutMsec ELSE millis
    IN  IF deadline = Null THEN INFINITE
        ELSE IF millis < 0 THEN 0
        ELSE (IF capped > UINT_MAX THEN UINT_MAX ELSE capped) % 2 ^ DwordBits

(* The function calls pthread_cond_timedwait, with a deadline reckoned from *)
(* a time when the clock showed another value.                              *)
TimedWait(t) ==
    /\ life[t] = "running"
    /\ \E asked \in Clock, now \in Clock :
          nap' = [nap EXCEPT ![t] =
                     GetMilliseconds(asked + MaxTimeoutMsec * TicksPerMsec, now)]
    /\ life' = [life EXCEPT ![t] = "waiting"]
    /\ UNCHANGED <<id, open, param, cancelled, local, kept>>

(* The function calls pthread_cond_wait, which waits without a deadline. *)
CondWait(t) ==
    /\ life[t] = "running"
    /\ nap' = [nap EXCEPT ![t] = GetMilliseconds(Null, 0)]
    /\ life' = [life EXCEPT ![t] = "blocked"]
    /\ UNCHANGED <<id, open, param, cancelled, local, kept>>

(* SleepConditionVariableCS; INFINITE is no time that passes. *)
SleepOn(t) ==
    /\ life[t] = "waiting" /\ nap[t] \notin {0, INFINITE}
    /\ nap' = [nap EXCEPT ![t] = @ - 1]
    /\ UNCHANGED <<life, id, open, param, cancelled, local, kept>>

(* The time is over. *)
TimeOut(t) ==
    /\ life[t] = "waiting" /\ nap[t] = 0
    /\ life' = [life EXCEPT ![t] = "woken"]
    /\ UNCHANGED <<id, open, nap, param, cancelled, local, kept>>

(* pthread_cond_signal by somebody. *)
Signalled(t) ==
    /\ life[t] \in {"waiting", "blocked"}
    /\ life' = [life EXCEPT ![t] = "woken"]
    /\ nap' = [nap EXCEPT ![t] = 0]
    /\ UNCHANGED <<id, open, param, cancelled, local, kept>>

(* The function returns or calls pthread_exit. *)
EndThread(t) ==
    /\ life[t] \in {"running", "woken"}
    /\ life' = [life EXCEPT ![t] = "ended"]
    /\ UNCHANGED <<id, open, nap, param, cancelled, local, kept>>
-----------------------------------------------------------------------------
(* pthread_join_with_handle of a thread whose handle was kept; it is used   *)
(* for one join only.                                                       *)
JoinWithHandle(u, t) ==
    /\ pc[u] = "idle" /\ t \in saved
    /\ saved' = saved \ {t}
    /\ claimed' = claimed \union {t}
    /\ target' = [target EXCEPT ![u] = t]
    /\ handle' = [handle EXCEPT ![u] = t]
    /\ Goto(u, "wait")
    /\ UNCHANGED <<system, param, memory, known, joined>>

(* pthread_join: the handle is looked up by the id; nobody joins a thread   *)
(* twice.                                                                   *)
Join(u, t) ==
    /\ pc[u] = "idle" /\ t \in known \ (saved \union claimed)
    /\ claimed' = claimed \union {t}
    /\ target' = [target EXCEPT ![u] = t]
    /\ Goto(u, "open")
    /\ UNCHANGED <<system, param, handle, memory, known, saved, joined>>

(* OpenThread: the id may have become that of another thread. *)
OpenById(u, where) ==
    \E o \in Existing : /\ id[o] = id[target[u]]
                        /\ OpenHandle(o)
                        /\ handle' = [handle EXCEPT ![u] = o]
                        /\ Goto(u, where)
                        /\ UNCHANGED <<life, id, nap, param, cancelled, target, memory, kept>>

JoinOpen(u) == pc[u] = "open" /\ OpenById(u, "wait")

(* It fails, as it must when nobody has the id; the join returns 1. *)
JoinOpenFails(u) == pc[u] = "open" /\ Return(u) /\ UNCHANGED <<system, param, memory, kept>>

(* Fault: the thread is not waited for. *)
JoinWaitNot(u) ==
    /\ pc[u] = "wait"
    /\ Goto(u, "close")
    /\ UNCHANGED <<system, param, target, handle, memory, kept>>

(* WaitForSingleObject *)
JoinWait(u) ==
    /\ pc[u] = "wait" /\ life[handle[u]] = "ended"
    /\ Goto(u, "close")
    /\ UNCHANGED <<system, param, target, handle, memory, kept>>

(* Fault: the handle stays open when waiting has failed. *)
JoinWaitFailsLeaking(u) ==
    /\ pc[u] = "wait"
    /\ Return(u)
    /\ UNCHANGED <<life, id, open, nap, param, cancelled, memory, kept>>

(* It fails: the handle is closed and the join returns 1. *)
JoinWaitFails(u) ==
    /\ pc[u] = "wait"
    /\ CloseHandle(handle[u])
    /\ Return(u)
    /\ UNCHANGED <<life, id, nap, param, cancelled, memory, kept>>

JoinClose(u) ==
    /\ pc[u] = "close"
    /\ CloseHandle(handle[u])
    /\ joined' = joined \union {target[u]}
    /\ Return(u)
    /\ UNCHANGED <<life, id, nap, param, cancelled, memory, known, saved, claimed>>
-----------------------------------------------------------------------------
(* pthread_cancel, of a thread that is not joined yet; it may be by now     *)
(* another one that has its id.                                             *)
Cancel(u, t) ==
    /\ pc[u] = "idle" /\ t \in known \ claimed
    /\ target' = [target EXCEPT ![u] = t]
    /\ Goto(u, "cancel")
    /\ UNCHANGED <<system, param, handle, memory, kept>>

CancelOpen(u) == pc[u] = "cancel" /\ OpenById(u, "terminate")

CancelOpenFails(u) == pc[u] = "cancel" /\ Return(u) /\ UNCHANGED <<system, param, memory, kept>>

(* TerminateThread: the thread stops where it is. *)
CancelTerminate(u) ==
    /\ pc[u] = "terminate"
    /\ IF handle[u] \in Running
         THEN /\ life' = [life EXCEPT ![handle[u]] = "ended"]
              /\ nap' = [nap EXCEPT ![handle[u]] = 0]
              /\ cancelled' = cancelled \union {handle[u]}
         ELSE UNCHANGED <<life, nap, cancelled>>
    /\ Goto(u, "cancel close")
    /\ UNCHANGED <<id, open, param, target, handle, memory, kept>>

(* It fails; pthread_cancel goes on in the same way, and returns -1. *)
CancelTerminateFails(u) ==
    /\ pc[u] = "terminate"
    /\ Goto(u, "cancel close")
    /\ UNCHANGED <<system, param, target, handle, memory, kept>>

CancelClose(u) ==
    /\ pc[u] = "cancel close"
    /\ CloseHandle(handle[u])
    /\ Return(u)
    /\ UNCHANGED <<life, id, nap, param, cancelled, memory, kept>>
-----------------------------------------------------------------------------
(* The steps of a call that has begun, but for a failing wait; those of a   *)
(* thread.                                                                  *)
Inner(u) == \/ BeginThread(u) \/ BeginFails(u) \/ DropHandle(u) \/ StoreHandle(u)
            \/ JoinOpen(u) \/ JoinOpenFails(u) \/ JoinWait(u) \/ JoinClose(u)
            \/ CancelOpen(u) \/ CancelOpenFails(u) \/ CancelTerminate(u)
            \/ CancelTerminateFails(u) \/ CancelClose(u)

Thread(t) == ReadParameter(t) \/ FreeParameter(t) \/ SleepOn(t) \/ TimeOut(t) \/ EndThread(t)

Next == \/ \E u \in Users : \/ \E keep \in BOOLEAN : Create(u, keep)
                            \/ \E t \in Threads : JoinWithHandle(u, t) \/ Join(u, t) \/ Cancel(u, t)
                            \/ Inner(u)
                            \/ JoinWaitFails(u)
        \/ \E t \in Threads : Thread(t) \/ TimedWait(t) \/ CondWait(t) \/ Signalled(t)

(* A call that has begun goes on, and so does a thread; functions of        *)
(* threads are such that they end.  Nobody need signal a condition.         *)
Spec == /\ Init /\ [][Next]_vars
        /\ \A u \in Users : WF_vars(Inner(u))
        /\ \A t \in Threads : WF_vars(Thread(t))
-----------------------------------------------------------------------------
(* No thread with a deadline sleeps longer than it was ahead when the       *)
(* thread asked, however the clock has been set since, and never for ever;  *)
(* a thread without one does.                                               *)
WinTypeOK ==
    /\ life \in [Threads -> {"none", "created", "read", "running", "waiting", "blocked", "woken", "ended"}]
    /\ id \in [Threads -> Ids \union {Null}]
    /\ open \in [Threads -> 0 .. Cardinality(Users) + 1]
    /\ nap \in [Threads -> 0 .. MaxTimeoutMsec \union {INFINITE}]
    /\ \A t \in Threads : nap[t] = INFINITE <=> life[t] = "blocked"
    /\ saved \subseteq known /\ joined \subseteq claimed /\ claimed \subseteq known
    /\ \A t, o \in Existing : id[t] = id[o] => t = o

(* Every open handle is held by one variable: none is closed twice, none is *)
(* lost, whichever way a call returns.  And a parameter belongs to the      *)
(* creator until there is a thread, and then to the thread, which reads and *)
(* frees it; a thread that is cancelled before leaves it behind.            *)
ResourcesAccounted ==
    /\ \A t \in Threads :
           open[t] = Cardinality({u \in Users : handle[u] = t}) + IF t \in saved THEN 1 ELSE 0
    /\ \A t \in Created :
           /\ life[t] \in {"created", "read"} => param[t] = "live"
           /\ param[t] = "live" => life[t] \in {"created", "read"} \/ t \in cancelled
           /\ param[t] # "freed twice"
    /\ \A u \in Users : memory[u] <=> pc[u] \in {"begin", "begin keep"}

(* When a join has returned 0 the thread it was made for has ended, even if *)
(* its id has passed to another thread, which was waited for then.          *)
JoinedHasEnded == \A t \in joined : life[t] = "ended"

(* The thread u waits for is in pthread_cond_wait, and need not come out. *)
Blocked(u) == \E t \in Threads : handle[u] = t /\ life[t] = "blocked"

(* A join returns, as all functions of threads end; those that sleep are    *)
(* woken by their deadlines.  Only a thread that waits without a deadline,  *)
(* and that nobody signals or cancels, keeps it for ever.                   *)
JoinReturns == \A u \in Users : pc[u] = "wait" ~> (pc[u] = "idle" \/ []Blocked(u))
=============================================================================
