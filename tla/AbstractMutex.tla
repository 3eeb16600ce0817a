----------------------------- MODULE AbstractMutex -----------------------------
(***************************************************************************)
(* What the callers of bionic's pthread_mutex_* functions are promised:    *)
(* every call takes effect in a single step.  There is no word, no state   *)
(* of contention and no queue.                                             *)
(***************************************************************************)
EXTENDS Naturals

CONSTANTS
    Threads,      \* the threads that use the mutex
    Types,        \* the types it may be initialised with
    CounterMax    \* a thread holds a recursive mutex at most CounterMax + 1 times

VARIABLES
    kind,       \* the type of the mutex, or "destroyed"
    depth,      \* how many times each thread holds it
    deadline,   \* the clock of each caller that is waiting with a timeout
    result      \* the errno that a caller is about to take, or "none"

vars == <<kind, depth, deadline, result>>

Held == \E t \in Threads : depth[t] > 0

OthersHold(t) == \E u \in Threads \ {t} : depth[u] > 0

Init ==
    /\ kind \in Types
    /\ depth = [t \in Threads |-> 0]
    /\ deadline = [t \in Threads |-> "none"]
    /\ result = [t \in Threads |-> "none"]

\* Lock, trylock or timed lock succeeds.
Acquire(t) ==
    /\ kind # "destroyed"
    /\ result[t] = "none"
    /\ ~OthersHold(t)
    /\ depth[t] = 0 \/ (kind = "RECURSIVE" /\ depth[t] <= CounterMax)
    /\ depth' = [depth EXCEPT ![t] = @ + 1]
    /\ deadline' = [deadline EXCEPT ![t] = "none"]
    /\ UNCHANGED <<kind, result>>

Release(t) ==
    /\ result[t] = "none"
    /\ depth[t] > 0
    /\ depth' = [depth EXCEPT ![t] = @ - 1]
    /\ UNCHANGED <<kind, deadline, result>>

\* A call ends with an errno that is true when it is decided.
Truthful(t, errno) ==
    /\ errno = "EBUSY" => Held \/ deadline[t] = "expired"
    /\ errno = "EDEADLK" => kind = "ERRORCHECK" /\ depth[t] = 1
    /\ errno = "EAGAIN" => kind = "RECURSIVE" /\ depth[t] = CounterMax + 1
    /\ errno = "EPERM" => kind # "NORMAL" /\ depth[t] = 0

Refuse(t, errno) ==
    /\ kind # "destroyed"
    /\ result[t] = "none"
    /\ Truthful(t, errno)
    /\ result' = [result EXCEPT ![t] = errno]
    /\ deadline' = [deadline EXCEPT ![t] = "none"]
    /\ UNCHANGED <<kind, depth>>

Return(t) ==
    /\ result[t] # "none"
    /\ result' = [result EXCEPT ![t] = "none"]
    /\ UNCHANGED <<kind, depth, deadline>>

\* A caller with a timeout starts to wait; its time runs out.
Wait(t) ==
    /\ kind # "destroyed"
    /\ result[t] = "none" /\ deadline[t] = "none"
    /\ deadline' = [deadline EXCEPT ![t] = "pending"]
    /\ UNCHANGED <<kind, depth, result>>

Expire(t) ==
    /\ deadline[t] = "pending"
    /\ deadline' = [deadline EXCEPT ![t] = "expired"]
    /\ UNCHANGED <<kind, depth, result>>

\* The caller of destroy may itself hold a recursive mutex.
Destroy(t) ==
    /\ kind # "destroyed"
    /\ ~OthersHold(t)
    /\ depth[t] = 0 \/ (kind = "RECURSIVE" /\ depth[t] <= CounterMax)
    /\ kind' = "destroyed"
    /\ depth' = [depth EXCEPT ![t] = 0]
    /\ UNCHANGED <<deadline, result>>

Initialise ==
    /\ kind = "destroyed"
    /\ kind' \in Types
    /\ UNCHANGED <<depth, deadline, result>>

Next ==
    \/ \E t \in Threads :
          \/ Acquire(t) \/ Release(t) \/ Return(t)
          \/ \E errno \in {"EBUSY", "EDEADLK", "EAGAIN", "EPERM"} : Refuse(t, errno)
          \/ Wait(t) \/ Expire(t) \/ Destroy(t)
    \/ Initialise

Spec == Init /\ [][Next]_vars
=============================================================================
