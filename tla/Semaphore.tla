------------------------------- MODULE Semaphore -------------------------------
(***************************************************************************)
(* The POSIX semaphore of bionic (bionic/libc/bionic/semaphore.c): a count *)
(* in the upper 31 bits of a word, where -1 says that threads may be       *)
(* asleep, and a futex queue on the word.  One step is one access to the   *)
(* word, one look at the clock or one system call.  The shared bit never   *)
(* changes and is left out; sem_open, sem_close and sem_unlink only report *)
(* ENOSYS.                                                                 *)
(***************************************************************************)
EXTENDS Integers, Futex

CONSTANTS
    Threads,    \* the threads that use the semaphore
    MaxValue    \* SEM_MAX_VALUE, 2^30 - 1 in the code

ASSUME MaxAssumption == MaxValue \in Nat \ {0}

VARIABLES
    count,      \* SEMCOUNT_TO_VALUE(sem->count)
    queue,      \* threads asleep in FUTEX_WAIT on the word
    pc,         \* where each thread is in its current call
    old,        \* the count each thread has loaded in a __sem_* loop, or 0
    deadline    \* the abs_timeout of a sem_timedwait call

vars == <<count, queue, pc, old, deadline>>

Values == -1 .. MaxValue

Errors == {"EAGAIN", "EOVERFLOW", "ETIMEDOUT", "EINVAL", "EINTR", "EBUSY"}

\* What a call returns: an errno, or 0 from a wait or a post.
Results == Errors \cup {"taken", "given"}

Labels == {"idle", "trydec", "trycas", "clock", "dec", "deccas", "wait", "sleep",
           "inc", "inccas", "wake"} \cup Results

TypeOK ==
    /\ count \in Values
    /\ queue \subseteq Threads
    /\ pc \in [Threads -> Labels]
    /\ old \in [Threads -> Values]
    /\ deadline \in [Threads -> {"none", "pending", "expired", "invalid"}]

----------------------------------------------------------------------------
Goto(t, label) == pc' = [pc EXCEPT ![t] = label]

\* The call of t is over, or only its wake-up call is left.
Leave(t, label) ==
    /\ Goto(t, label)
    /\ old' = [old EXCEPT ![t] = 0]
    /\ deadline' = [deadline EXCEPT ![t] = "none"]

\* A thread starts a call.  For sem_timedwait the argument is an abs_timeout
\* in the future or the past, or one that is not a time.
Call(t, label, abstime) ==
    /\ pc[t] = "idle"
    /\ Goto(t, label)
    /\ deadline' = [deadline EXCEPT ![t] = abstime]
    /\ UNCHANGED <<count, queue, old>>

SemWait(t) == Call(t, "dec", "none")

SemTryWait(t) == Call(t, "trydec", "none")

SemTimedWait(t) == \E abstime \in {"pending", "invalid"} : Call(t, "trydec", abstime)

SemPost(t) == Call(t, "inc", "none")

----------------------------------------------------------------------------
(* The loops of __sem_trydec, __sem_dec and __sem_inc: load, decide, and   *)
(* compare-and-exchange; a failure goes back to the load.                  *)

Load(t, label) ==
    /\ old' = [old EXCEPT ![t] = count]
    /\ Goto(t, label)
    /\ UNCHANGED deadline

Cas(t, new) == count = old[t] /\ count' = new

CasFails(t, label) ==
    /\ count # old[t]
    /\ old' = [old EXCEPT ![t] = 0]
    /\ Goto(t, label)
    /\ UNCHANGED <<count, queue, deadline>>

\* __sem_trydec leaves 0 and -1 alone.  Its caller is sem_trywait, which
\* reports EAGAIN, or sem_timedwait, which then looks at its argument.
TryDecLoad(t) ==
    /\ pc[t] = "trydec"
    /\ \/ count > 0 /\ Load(t, "trycas")
       \/ count <= 0 /\ deadline[t] = "none" /\ Leave(t, "EAGAIN")
       \/ count <= 0 /\ deadline[t] = "invalid" /\ Leave(t, "EINVAL")
       \/ /\ count <= 0 /\ deadline[t] \in {"pending", "expired"}
          /\ Goto(t, "clock")
          /\ UNCHANGED <<old, deadline>>
    /\ UNCHANGED <<count, queue>>

TryDecCas(t) ==
    /\ pc[t] = "trycas"
    /\ \/ /\ Cas(t, old[t] - 1)
          /\ Leave(t, "taken")
          /\ UNCHANGED queue
       \/ CasFails(t, "trydec")

\* sem_timedwait compares its timeout with CLOCK_REALTIME before each attempt.
CheckTime(t) ==
    /\ pc[t] = "clock"
    /\ \/ /\ deadline[t] = "expired"
          /\ Leave(t, "ETIMEDOUT")
       \/ /\ deadline[t] # "expired"
          /\ Goto(t, "dec")
          /\ UNCHANGED <<old, deadline>>
    /\ UNCHANGED <<count, queue>>

\* __sem_dec leaves -1 alone and turns 0 into -1; only an old value above 0
\* is a unit taken.
DecLoad(t) ==
    /\ pc[t] = "dec"
    /\ \/ count < 0 /\ Goto(t, "wait") /\ UNCHANGED <<old, deadline>>
       \/ count >= 0 /\ Load(t, "deccas")
    /\ UNCHANGED <<count, queue>>

DecCas(t) ==
    /\ pc[t] = "deccas"
    /\ \/ /\ Cas(t, old[t] - 1)
          /\ \/ old[t] > 0 /\ Leave(t, "taken")
             \/ old[t] = 0 /\ Goto(t, "wait") /\ UNCHANGED <<old, deadline>>
          /\ UNCHANGED queue
       \/ CasFails(t, "dec")

----------------------------------------------------------------------------
(* Sleeping.  The word that is waited on is always -1.                     *)

FutexWait(t) ==
    /\ pc[t] = "wait"
    /\ queue' = IF FutexSleeps(count, -1) THEN queue \cup {t} ELSE queue
    /\ Goto(t, "sleep")
    /\ UNCHANGED <<count, old, deadline>>

\* The system call returned 0 or -EWOULDBLOCK: try again.
Resume(t) ==
    /\ pc[t] = "sleep"
    /\ t \notin queue
    /\ Goto(t, IF deadline[t] = "none" THEN "dec" ELSE "clock")
    /\ UNCHANGED <<count, queue, old, deadline>>

\* A signal interrupts the sleep: sem_wait ignores it, sem_timedwait returns.
FutexInterrupted(t) ==
    /\ t \in queue
    /\ queue' = queue \ {t}
    /\ \/ deadline[t] = "none" /\ UNCHANGED <<pc, old, deadline>>
       \/ deadline[t] # "none" /\ Leave(t, "EINTR")
    /\ UNCHANGED count

\* The timeout ends the sleep before a wake-up does.
FutexTimesOut(t) ==
    /\ t \in queue
    /\ deadline[t] = "expired"
    /\ queue' = queue \ {t}
    /\ Leave(t, "ETIMEDOUT")
    /\ UNCHANGED count

Expire(t) ==
    /\ deadline[t] = "pending"
    /\ deadline' = [deadline EXCEPT ![t] = "expired"]
    /\ UNCHANGED <<count, queue, pc, old>>

----------------------------------------------------------------------------
(* sem_post                                                                *)

IncLoad(t) ==
    /\ pc[t] = "inc"
    /\ \/ count = MaxValue /\ Leave(t, "EOVERFLOW")
       \/ count # MaxValue /\ Load(t, "inccas")
    /\ UNCHANGED <<count, queue>>

\* Mutant: -1 is incremented like any other value.
IncCasPlusOne(t) ==
    /\ pc[t] = "inccas"
    /\ \/ /\ Cas(t, old[t] + 1)
          /\ Leave(t, IF old[t] < 0 THEN "wake" ELSE "given")
          /\ UNCHANGED queue
       \/ CasFails(t, "inc")

\* Mutant: the old value is not looked at, and nobody is woken.
IncCasWithoutWake(t) ==
    /\ pc[t] = "inccas"
    /\ \/ /\ Cas(t, IF old[t] < 0 THEN 1 ELSE old[t] + 1)
          /\ Leave(t, "given")
          /\ UNCHANGED queue
       \/ CasFails(t, "inc")

\* -1 goes to 1 directly, and then all sleepers are woken.
IncCas(t) ==
    /\ pc[t] = "inccas"
    /\ \/ /\ Cas(t, IF old[t] < 0 THEN 1 ELSE old[t] + 1)
          /\ Leave(t, IF old[t] < 0 THEN "wake" ELSE "given")
          /\ UNCHANGED queue
       \/ CasFails(t, "inc")

\* Mutant: one sleeper is woken, as the count has one unit.
WakeSingle(t) ==
    /\ pc[t] = "wake"
    /\ queue' \in FutexWakeOne(queue)
    /\ Goto(t, "given")
    /\ UNCHANGED <<count, old, deadline>>

Wake(t) ==
    /\ pc[t] = "wake"
    /\ queue' \in FutexWakeAll(queue)
    /\ Goto(t, "given")
    /\ UNCHANGED <<count, old, deadline>>

----------------------------------------------------------------------------
(* sem_destroy and sem_init: no other thread is inside a call, except one  *)
(* whose post has counted and whose wake-up call has not been made yet.    *)

Quiet(t) == pc[t] = "idle" /\ \A u \in Threads \ {t} : pc[u] \in {"idle", "wake"} \cup Results

\* -1 is taken for "threads are waiting", although a timed wait that gave up
\* leaves it behind.
SemDestroy(t) ==
    /\ Quiet(t)
    /\ \/ count < 0 /\ Goto(t, "EBUSY") /\ UNCHANGED count
       \/ count >= 0 /\ count' = 0 /\ UNCHANGED pc
    /\ UNCHANGED <<queue, old, deadline>>

SemInit(t, value) ==
    /\ Quiet(t)
    /\ count' = value
    /\ UNCHANGED <<queue, pc, old, deadline>>

Return(t) ==
    /\ pc[t] \in Results
    /\ Leave(t, "idle")
    /\ UNCHANGED <<count, queue>>

----------------------------------------------------------------------------
Init ==
    /\ count \in 0 .. MaxValue
    /\ queue = {}
    /\ pc = [t \in Threads |-> "idle"]
    /\ old = [t \in Threads |-> 0]
    /\ deadline = [t \in Threads |-> "none"]

Start(t) ==
    \/ SemWait(t) \/ SemTryWait(t) \/ SemTimedWait(t) \/ SemPost(t)
    \/ SemDestroy(t)
    \/ \E value \in 0 .. MaxValue : SemInit(t, value)

Run(t) ==
    \/ TryDecLoad(t) \/ TryDecCas(t) \/ CheckTime(t) \/ DecLoad(t) \/ DecCas(t)
    \/ FutexWait(t) \/ Resume(t)
    \/ IncLoad(t) \/ IncCas(t) \/ Wake(t)
    \/ Return(t)

Next ==
    \E t \in Threads :
        Start(t) \/ Run(t) \/ FutexInterrupted(t) \/ FutexTimesOut(t) \/ Expire(t)

\* The scheduler runs every runnable thread and time passes; nobody is made
\* to call, and no signal is promised.
Fairness ==
    \A t \in Threads : WF_vars(Run(t)) /\ WF_vars(Expire(t)) /\ WF_vars(FutexTimesOut(t))

Spec == Init /\ [][Next]_vars /\ Fairness

----------------------------------------------------------------------------
(* Properties.                                                             *)

\* While a thread sleeps the count says so, or a sem_post that raised it has
\* still to make its wake-up call: no unit is posted past a sleeping thread.
NoStrandedWaiter ==
    queue # {} => count = -1 \/ \E t \in Threads : pc[t] = "wake"

\* sem_getvalue: in case of contention the value is 0.
GetValue == IF count < 0 THEN 0 ELSE count

\* What the caller will be told, as soon as it is decided.
Outcome(label) ==
    IF label = "wake" THEN "given" ELSE IF label \in Results THEN label ELSE "none"

Abstract == INSTANCE AbstractSemaphore WITH
    value  <- GetValue,
    result <- [t \in Threads |-> Outcome(pc[t])]

\* Units are neither lost nor made up: behind the encoding of contention as
\* -1, "post(-1) ==> 1" and the retry loops, every call that succeeds changes
\* the value by one in one step and every call that fails leaves it alone.
ImplementsAbstractSemaphore == Abstract!Spec

\* A thread that sleeps while units are available is woken.
SleeperIsWoken ==
    \A t \in Threads : t \in queue /\ count > 0 ~> t \notin queue
=============================================================================
