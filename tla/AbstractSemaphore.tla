--------------------------- MODULE AbstractSemaphore ---------------------------
(***************************************************************************)
(* What the callers of bionic's sem_* functions are promised: a counter    *)
(* between 0 and MaxValue, and calls that take effect in one step.         *)
(***************************************************************************)
EXTENDS Naturals

CONSTANTS
    Threads,    \* the threads that use the semaphore
    MaxValue    \* SEM_MAX_VALUE

VARIABLES
    value,      \* what sem_getvalue reports
    deadline,   \* the clock of each caller with a timeout
    result      \* what the call of a thread has come to, or "none"

vars == <<value, deadline, result>>

Init ==
    /\ value \in 0 .. MaxValue
    /\ deadline = [t \in Threads |-> "none"]
    /\ result = [t \in Threads |-> "none"]

\* A wait takes one unit, a post adds one.
Take(t) ==
    /\ result[t] = "none"
    /\ value > 0
    /\ value' = value - 1
    /\ result' = [result EXCEPT ![t] = "taken"]
    /\ deadline' = [deadline EXCEPT ![t] = "none"]

Give(t) ==
    /\ result[t] = "none"
    /\ value < MaxValue
    /\ value' = value + 1
    /\ result' = [result EXCEPT ![t] = "given"]
    /\ UNCHANGED deadline

\* A call that ends with an errno takes nothing and adds nothing.
Truthful(t, errno) ==
    /\ errno \in {"EAGAIN", "EBUSY"} => value = 0
    /\ errno = "EOVERFLOW" => value = MaxValue
    /\ errno = "ETIMEDOUT" => deadline[t] = "expired"
    /\ errno = "EINVAL" => deadline[t] = "invalid"
    /\ errno = "EINTR" => deadline[t] \in {"pending", "expired"}

Refuse(t, errno) ==
    /\ result[t] = "none"
    /\ Truthful(t, errno)
    /\ result' = [result EXCEPT ![t] = errno]
    /\ deadline' = [deadline EXCEPT ![t] = "none"]
    /\ UNCHANGED value

Return(t) ==
    /\ result[t] # "none"
    /\ result' = [result EXCEPT ![t] = "none"]
    /\ UNCHANGED <<value, deadline>>

StartTimed(t) ==
    /\ result[t] = "none" /\ deadline[t] = "none"
    /\ \E d \in {"pending", "invalid"} : deadline' = [deadline EXCEPT ![t] = d]
    /\ UNCHANGED <<value, result>>

Expire(t) ==
    /\ deadline[t] = "pending"
    /\ deadline' = [deadline EXCEPT ![t] = "expired"]
    /\ UNCHANGED <<value, result>>

\* sem_init, or sem_destroy: nobody else is using the semaphore.
Reset ==
    /\ value' \in 0 .. MaxValue
    /\ deadline = [t \in Threads |-> "none"]
    /\ UNCHANGED <<deadline, result>>

Next ==
    \/ \E t \in Threads :
          \/ Take(t) \/ Give(t) \/ Return(t) \/ StartTimed(t) \/ Expire(t)
          \/ \E errno \in {"EAGAIN", "EOVERFLOW", "ETIMEDOUT", "EINVAL", "EINTR", "EBUSY"} :
                Refuse(t, errno)
    \/ Reset

Spec == Init /\ [][Next]_vars
=============================================================================
