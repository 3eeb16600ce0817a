------------------------------ MODULE PthreadCond ------------------------------
(***************************************************************************)
(* The condition variable of bionic (bionic/libc/bionic/pthread.c): a      *)
(* counter that every signal and broadcast moves, and a futex queue on it. *)
(* The mutex of the waiters is taken from its abstract specification: a    *)
(* normal mutex is held by at most one thread, and locking and unlocking   *)
(* it are single steps.                                                    *)
(*                                                                         *)
(* A pulse (signal or broadcast) and a futex wait are several steps, so    *)
(* that a pulse may come between any two steps of a wait.  The shared bit  *)
(* of the word never changes and is left out.                              *)
(***************************************************************************)
EXTENDS Integers, Futex

CONSTANTS
    Threads,      \* the threads that use the condition variable
    CounterSize,  \* the counter is taken modulo this (2^31 in the code)
    NoThread      \* no holder of the mutex

ASSUME CounterAssumption == CounterSize \in Nat \ {0}
ASSUME NoThreadAssumption == NoThread \notin Threads

VARIABLES
    value,     \* the counter, or Destroyed
    queue,     \* threads asleep in FUTEX_WAIT on the word
    holder,    \* the thread that holds the waiters' mutex
    pc,        \* where each thread is in its current call
    oldvalue,  \* what each waiter loaded before it unlocked the mutex
    deadline,  \* the timeout of a timed wait
    missed     \* history: what has been sent since a waiter loaded oldvalue

vars == <<value, queue, holder, pc, oldvalue, deadline, missed>>

\* cond->value = 0xdeadc04d
Destroyed == -1

Labels == {"idle", "unlock", "wait", "sleep", "relock", "timedout", "ETIMEDOUT",
           "wakeone", "wakeall"}

TypeOK ==
    /\ value \in -1 .. CounterSize - 1
    /\ queue \subseteq Threads
    /\ holder \in Threads \cup {NoThread}
    /\ pc \in [Threads -> Labels]
    /\ oldvalue \in [Threads -> 0 .. CounterSize - 1]
    /\ deadline \in [Threads -> {"none", "pending", "expired"}]
    /\ missed \in [Threads -> {"nothing", "signal", "broadcast"}]

----------------------------------------------------------------------------
Goto(t, label) == pc' = [pc EXCEPT ![t] = label]

(* The waiters' mutex.                                                     *)

MutexLock(t) ==
    /\ pc[t] = "idle"
    /\ holder = NoThread
    /\ holder' = t
    /\ UNCHANGED <<value, queue, pc, oldvalue, deadline, missed>>

MutexUnlock(t) ==
    /\ pc[t] = "idle"
    /\ holder = t
    /\ holder' = NoThread
    /\ UNCHANGED <<value, queue, pc, oldvalue, deadline, missed>>

----------------------------------------------------------------------------
(* pthread_cond_wait, the timed waits and their common part                *)
(* __pthread_cond_timedwait_relative.                                      *)

\* An absolute deadline that has passed is reported before anything is done.
CondTimedOutAtOnce(t) ==
    /\ pc[t] = "idle" /\ holder = t /\ value # Destroyed
    /\ Goto(t, "ETIMEDOUT")
    /\ UNCHANGED <<value, queue, holder, oldvalue, deadline, missed>>

\* oldvalue = cond->value, with the mutex held.
CondWait(t, abstime) ==
    /\ pc[t] = "idle" /\ holder = t /\ value # Destroyed
    /\ oldvalue' = [oldvalue EXCEPT ![t] = value]
    /\ deadline' = [deadline EXCEPT ![t] = abstime]
    /\ missed' = [missed EXCEPT ![t] = "nothing"]
    /\ Goto(t, "unlock")
    /\ UNCHANGED <<value, queue, holder>>

\* Mutant: oldvalue is loaded after the mutex has been unlocked.
WaitUnlockLoadsLate(t) ==
    /\ pc[t] = "unlock"
    /\ holder' = NoThread
    /\ oldvalue' = [oldvalue EXCEPT ![t] = value]
    /\ Goto(t, "wait")
    /\ UNCHANGED <<value, queue, deadline, missed>>

WaitUnlock(t) ==
    /\ pc[t] = "unlock"
    /\ holder' = NoThread
    /\ Goto(t, "wait")
    /\ UNCHANGED <<value, queue, oldvalue, deadline, missed>>

\* The futex call is over: its arguments are gone, only its status is left.
Awake(t, label) ==
    /\ Goto(t, label)
    /\ oldvalue' = [oldvalue EXCEPT ![t] = 0]
    /\ deadline' = [deadline EXCEPT ![t] = "none"]
    /\ missed' = [missed EXCEPT ![t] = "nothing"]
    /\ UNCHANGED <<value, holder>>

FutexWait(t) ==
    /\ pc[t] = "wait"
    /\ \/ /\ FutexSleeps(value, oldvalue[t])
          /\ queue' = queue \cup {t}
          /\ Goto(t, "sleep")
          /\ oldvalue' = [oldvalue EXCEPT ![t] = 0]
          /\ UNCHANGED <<value, holder, deadline, missed>>
       \/ /\ ~FutexSleeps(value, oldvalue[t])
          /\ Awake(t, "relock")
          /\ UNCHANGED queue

\* FUTEX_WAIT returns 0 after a wake-up, or a signal handler interrupts it.
FutexReturns(t) ==
    /\ pc[t] = "sleep" /\ t \notin queue
    /\ Awake(t, "relock")
    /\ UNCHANGED queue

FutexInterrupted(t) ==
    /\ t \in queue
    /\ queue' = queue \ {t}
    /\ Awake(t, "relock")

FutexTimesOut(t) ==
    /\ t \in queue
    /\ deadline[t] = "expired"
    /\ queue' = queue \ {t}
    /\ Awake(t, "timedout")

\* pthread_mutex_lock(mutex), and the status of the futex call decides.
Relock(t) ==
    /\ pc[t] \in {"relock", "timedout"}
    /\ holder = NoThread
    /\ holder' = t
    /\ Goto(t, IF pc[t] = "timedout" THEN "ETIMEDOUT" ELSE "idle")
    /\ UNCHANGED <<value, queue, oldvalue, deadline, missed>>

Return(t) ==
    /\ pc[t] = "ETIMEDOUT"
    /\ Goto(t, "idle")
    /\ UNCHANGED <<value, queue, holder, oldvalue, deadline, missed>>

Expire(t) ==
    /\ deadline[t] = "pending"
    /\ deadline' = [deadline EXCEPT ![t] = "expired"]
    /\ UNCHANGED <<value, queue, holder, pc, oldvalue, missed>>

----------------------------------------------------------------------------
(* __pthread_cond_pulse.  Its compare-and-exchange loop decides nothing    *)
(* and is one atomic decrement.  The caller need not hold the mutex.       *)

Decremented(v) == (v - 1) % CounterSize

\* What a pulse of the given kind adds to the history of the waiters.
Missed(kind) ==
    [u \in Threads |->
        IF pc[u] \in {"unlock", "wait", "sleep"} /\ missed[u] # "broadcast"
          THEN kind ELSE missed[u]]

\* Bound: what the XXX comment before pthread_cond_init sets aside.  The
\* counter does not come round to the value that a thread between its load
\* and its futex wait is about to compare it with.
NoExactWrap ==
    \A u \in Threads : pc[u] \in {"unlock", "wait"} => Decremented(value) # oldvalue[u]

\* Mutant: the pulse only wakes and leaves the counter alone.
PulseOnly(t, kind) ==
    /\ pc[t] = "idle" /\ value # Destroyed
    /\ Goto(t, IF kind = "signal" THEN "wakeone" ELSE "wakeall")
    /\ missed' = Missed(kind)
    /\ UNCHANGED <<value, queue, holder, oldvalue, deadline>>

PulseDecrement(t, kind) ==
    /\ pc[t] = "idle" /\ value # Destroyed
    /\ NoExactWrap
    /\ value' = Decremented(value)
    /\ Goto(t, IF kind = "signal" THEN "wakeone" ELSE "wakeall")
    /\ missed' = Missed(kind)
    /\ UNCHANGED <<queue, holder, oldvalue, deadline>>

CondSignal(t) == PulseDecrement(t, "signal")

CondBroadcast(t) == PulseDecrement(t, "broadcast")

\* Mutant: a broadcast wakes one thread.
PulseWakeOne(t) ==
    /\ pc[t] \in {"wakeone", "wakeall"}
    /\ queue' \in FutexWakeOne(queue)
    /\ Goto(t, "idle")
    /\ UNCHANGED <<value, holder, oldvalue, deadline, missed>>

PulseWake(t) ==
    /\ \/ pc[t] = "wakeone" /\ queue' \in FutexWakeOne(queue)
       \/ pc[t] = "wakeall" /\ queue' \in FutexWakeAll(queue)
    /\ Goto(t, "idle")
    /\ UNCHANGED <<value, holder, oldvalue, deadline, missed>>

----------------------------------------------------------------------------
(* Destroying and initialising: nobody waits on the condition variable or  *)
(* is inside a pulse (which reads the shared bit again after its           *)
(* compare-and-exchange).                                                  *)

CondDestroy(t) ==
    /\ pc[t] = "idle" /\ value # Destroyed
    /\ \A u \in Threads : pc[u] \in {"idle", "relock", "timedout", "ETIMEDOUT"}
    /\ value' = Destroyed
    /\ UNCHANGED <<queue, holder, pc, oldvalue, deadline, missed>>

CondInit(t) ==
    /\ pc[t] = "idle" /\ value = Destroyed
    /\ value' = 0
    /\ UNCHANGED <<queue, holder, pc, oldvalue, deadline, missed>>

----------------------------------------------------------------------------
Init ==
    /\ value = 0
    /\ queue = {}
    /\ holder = NoThread
    /\ pc = [t \in Threads |-> "idle"]
    /\ oldvalue = [t \in Threads |-> 0]
    /\ deadline = [t \in Threads |-> "none"]
    /\ missed = [t \in Threads |-> "nothing"]

Call(t) ==
    \/ MutexLock(t) \/ MutexUnlock(t)
    \/ CondTimedOutAtOnce(t)
    \/ \E abstime \in {"none", "pending"} : CondWait(t, abstime)
    \/ CondSignal(t) \/ CondBroadcast(t)
    \/ CondDestroy(t) \/ CondInit(t)

Run(t) ==
    WaitUnlock(t) \/ FutexWait(t) \/ FutexReturns(t) \/ Relock(t) \/ Return(t) \/ PulseWake(t)

Next ==
    \E t \in Threads :
        Call(t) \/ Run(t) \/ FutexInterrupted(t) \/ FutexTimesOut(t) \/ Expire(t)

\* The scheduler runs every runnable thread and timed sleeps end.
Fairness ==
    \A t \in Threads : WF_vars(Run(t)) /\ WF_vars(Expire(t)) /\ WF_vars(FutexTimesOut(t))

Spec == Init /\ [][Next]_vars /\ Fairness

----------------------------------------------------------------------------
(* Properties.                                                             *)

\* A thread that was told, by a signal or a broadcast, after it had loaded
\* oldvalue does not go to sleep any more: the load comes before the mutex is
\* unlocked, and FUTEX_WAIT compares.
NoSleepAfterPulse ==
    [][\A t \in Threads : t \in queue' \ queue => missed[t] = "nothing"]_vars

\* No thread sleeps through a broadcast: while one that was waiting when a
\* broadcast began is still asleep, a broadcast has still to make its wake-up
\* call.
BroadcastReachesAll ==
    (\E t \in queue : missed[t] = "broadcast") => \E s \in Threads : pc[s] = "wakeall"

\* Every thread that was inside a wait when a broadcast began gets past the
\* queue, whichever step of the wait it had reached.
BroadcastWakes ==
    \A t \in Threads : missed[t] = "broadcast" ~> pc[t] \notin {"unlock", "wait", "sleep"}
=============================================================================
