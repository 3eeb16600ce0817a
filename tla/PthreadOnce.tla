------------------------------ MODULE PthreadOnce ------------------------------
(***************************************************************************)
(* pthread_once of bionic (bionic/libc/bionic/pthread.c): two flag bits in *)
(* one word, on which the threads that come second sleep.  The module has  *)
(* no specification of its own: a module that calls pthread_once extends   *)
(* it, starts a call with OnceCall, supplies the steps of the initialiser  *)
(* of a thread at "init" and ends them with OnceInitialised, and goes on   *)
(* with a thread that is "out" again.                                      *)
(***************************************************************************)
EXTENDS Integers, Futex

CONSTANT Threads  \* the threads that call pthread_once

VARIABLES
    once,   \* *once_control
    queue,  \* threads asleep in FUTEX_WAIT on it
    step    \* where each thread is in pthread_once

onceVars == <<once, queue, step>>

INITIALIZING == 1
COMPLETED == 2

Steps == {"out", "loop", "wait", "asleep", "init", "store", "wake"}

OnceTypeOK ==
    /\ once \in {0, INITIALIZING, COMPLETED}
    /\ queue \subseteq Threads
    /\ step \in [Threads -> Steps]

OnceInit ==
    /\ once = 0
    /\ queue = {}
    /\ step = [t \in Threads |-> "out"]

At(t, label) == step' = [step EXCEPT ![t] = label]

----------------------------------------------------------------------------
\* A call: the test of COMPLETED lets the common case return at once.
OnceCall(t) ==
    /\ step[t] = "out"
    /\ At(t, IF once = COMPLETED THEN "out" ELSE "loop")
    /\ UNCHANGED <<once, queue>>

\* Mutant: whoever finds INITIALIZING set takes the initialisation for done.
TryReturnsEarly(t) ==
    /\ step[t] = "loop"
    /\ IF once = 0
       THEN once' = INITIALIZING /\ At(t, "init")
       ELSE once' = once /\ At(t, "out")
    /\ UNCHANGED queue

\* The compare-and-exchange that sets INITIALIZING.  A failed one only
\* reloads and tries again.
OnceTry(t) ==
    /\ step[t] = "loop"
    /\ IF once = 0
       THEN once' = INITIALIZING /\ At(t, "init")
       ELSE once' = once /\ At(t, IF once = COMPLETED THEN "out" ELSE "wait")
    /\ UNCHANGED queue

\* Mutant: the wait names the value that the word has by now.
WaitRereads(t) ==
    /\ step[t] = "wait"
    /\ queue' = queue \cup {t} /\ At(t, "asleep")
    /\ UNCHANGED once

\* __futex_wait_ex(ocptr, 0, oldval, NULL), where oldval has INITIALIZING set.
OnceWait(t) ==
    /\ step[t] = "wait"
    /\ IF FutexSleeps(once, INITIALIZING)
       THEN queue' = queue \cup {t} /\ At(t, "asleep")
       ELSE queue' = queue /\ At(t, "loop")
    /\ UNCHANGED once

\* The sleep ended, by a wake-up or (the caller is still queued) by a signal.
OnceAwake(t) ==
    /\ step[t] = "asleep"
    /\ queue' = queue \ {t}
    /\ At(t, "loop")
    /\ UNCHANGED once

\* (*init_routine)() returned.
OnceInitialised(t) ==
    /\ step[t] = "init"
    /\ At(t, "store")
    /\ UNCHANGED <<once, queue>>

OnceStore(t) ==
    /\ step[t] = "store"
    /\ once' = COMPLETED
    /\ At(t, "wake")
    /\ UNCHANGED queue

OnceWake(t) ==
    /\ step[t] = "wake"
    /\ queue' \in FutexWakeAll(queue)
    /\ At(t, "out")
    /\ UNCHANGED once

\* The steps a thread takes by itself; a sleeper only once it was woken.
OnceRun(t) ==
    \/ OnceTry(t) \/ OnceWait(t) \/ OnceStore(t) \/ OnceWake(t)
    \/ OnceAwake(t) /\ t \notin queue

\* A signal handler interrupts the sleep.
OnceInterrupted(t) == OnceAwake(t) /\ t \in queue

----------------------------------------------------------------------------
\* Somebody runs the initialiser exactly while the word says so, it is one
\* thread, and whoever sleeps has somebody who will wake it.
OnceOK ==
    /\ once = 0 => \A t \in Threads : step[t] \in {"out", "loop"}
    /\ once = INITIALIZING => \E t \in Threads : step[t] \in {"init", "store"}
    /\ once = COMPLETED => \A t \in Threads : step[t] \notin {"init", "store"}
    /\ \A t, u \in Threads :
          step[t] \in {"init", "store", "wake"} /\ step[u] \in {"init", "store", "wake"} => t = u
    /\ \A t \in queue : step[t] = "asleep"
    /\ queue # {} => \E t \in Threads : step[t] \in {"init", "store", "wake"}
=============================================================================
