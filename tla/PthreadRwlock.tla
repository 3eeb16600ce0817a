----------------------------- MODULE PthreadRwlock -----------------------------
(***************************************************************************)
(* The reader/writer lock of bionic (bionic/libc/bionic/pthread-rwlocks.c):*)
(* four counters under a mutex, and one condition variable for readers and *)
(* writers.  The mutex and the condition variable are taken from their     *)
(* abstract specifications: what is done under the mutex is one step, a    *)
(* wait gives the mutex back and goes to sleep in one step, and it ends    *)
(* after a broadcast, at its timeout, or for no reason.                    *)
(***************************************************************************)
EXTENDS Integers, FiniteSets

CONSTANTS
    Threads,       \* kernel ids of the threads that use the lock
    TimedReaders,  \* those of them that call pthread_rwlock_timedrdlock too
    TimedWriters,  \* those of them that call pthread_rwlock_timedwrlock too
    MaxHolds       \* bound: how often one thread has the lock at a time

ASSUME RwThreadsAssumption == IsFiniteSet(Threads) /\ Threads \subseteq Nat \ {0}
ASSUME RwTimedAssumption == TimedReaders \cup TimedWriters \subseteq Threads
ASSUME MaxHoldsAssumption == MaxHolds \in Nat \ {0}

VARIABLES
    numLocks,        \* read locks, or write locks of the one writer
    pendingReaders,  \* threads that wait to read
    pendingWriters,  \* threads that wait to write
    writerThreadId,  \* the writer, or 0
    ready,           \* the lock is initialised
    pc,              \* idle, asleep, awake after a wait, or the result of a call
    want,            \* what a blocked call of each thread is for
    deadline,        \* the abs_timeout of a timed call
    mode,            \* how each thread has the lock (its client's view)
    holds            \* and how many times

counters == <<numLocks, pendingReaders, pendingWriters, writerThreadId>>

vars == <<counters, ready, pc, want, deadline, mode, holds>>

Errors == {"EBUSY", "ETIMEDOUT", "EPERM"}

TypeOK ==
    /\ numLocks \in 0 .. MaxHolds * Cardinality(Threads)
    /\ pendingReaders \in 0 .. Cardinality(Threads)
    /\ pendingWriters \in 0 .. Cardinality(Threads)
    /\ writerThreadId \in Threads \cup {0}
    /\ ready \in BOOLEAN
    /\ pc \in [Threads -> {"idle", "asleep", "awake", "timedout"} \cup Errors]
    /\ want \in [Threads -> {"none", "read", "write"}]
    /\ deadline \in [Threads -> {"none", "pending", "expired"}]
    /\ mode \in [Threads -> {"none", "read", "write"}]
    /\ holds \in [Threads -> 0 .. MaxHolds]

----------------------------------------------------------------------------
\* Mutant: readers do not look at the writer that has the lock.
ReadDespiteWriter(t) == pendingWriters = 0

\* Mutant: readers do not wait for writers that wait.
ReadUnbiased(t) == writerThreadId \in {0, t}

\* read_precondition: a writer that waits keeps new readers out.
ReadPrecondition(t) ==
    /\ pendingWriters = 0
    /\ writerThreadId \in {0, t}

WritePrecondition(t) == numLocks = 0 \/ writerThreadId = t

Precondition(t, m) == IF m = "read" THEN ReadPrecondition(t) ELSE WritePrecondition(t)

\* The lock is taken: numLocks++, and for writing writerThreadId = thread_id.
Granted(t, m) ==
    /\ numLocks' = numLocks + 1
    /\ writerThreadId' = IF m = "write" THEN t ELSE writerThreadId
    /\ mode' = [mode EXCEPT ![t] = IF @ = "none" THEN m ELSE @]
    /\ holds' = [holds EXCEPT ![t] = @ + 1]

Pending(m, change) ==
    /\ pendingReaders' = pendingReaders + (IF m = "read" THEN change ELSE 0)
    /\ pendingWriters' = pendingWriters + (IF m = "write" THEN change ELSE 0)

\* A client may start a call.
Enter(t) ==
    /\ ready
    /\ pc[t] = "idle"
    /\ holds[t] < MaxHolds

----------------------------------------------------------------------------
(* pthread_rwlock_rdlock, timedrdlock, wrlock and timedwrlock.             *)

LockAtOnce(t, m) ==
    /\ Enter(t)
    /\ Precondition(t, m)
    /\ Granted(t, m)
    /\ UNCHANGED <<pendingReaders, pendingWriters, ready, pc, want, deadline>>

\* The first wait of a call that has to wait.  Client rule: a thread that
\* reads does not wait to write, it would wait for itself.
LockBlocks(t, m, abstime) ==
    /\ Enter(t)
    /\ m = "write" => mode[t] # "read"
    /\ ~Precondition(t, m)
    /\ abstime = "pending" => t \in IF m = "read" THEN TimedReaders ELSE TimedWriters
    /\ Pending(m, 1)
    /\ pc' = [pc EXCEPT ![t] = "asleep"]
    /\ want' = [want EXCEPT ![t] = m]
    /\ deadline' = [deadline EXCEPT ![t] = abstime]
    /\ UNCHANGED <<numLocks, writerThreadId, ready, mode, holds>>

\* The wait of a call whose time is up before it starts returns ETIMEDOUT
\* without giving the mutex back.
LockTooLate(t, m) ==
    /\ Enter(t)
    /\ ~Precondition(t, m)
    /\ t \in IF m = "read" THEN TimedReaders ELSE TimedWriters
    /\ pc' = [pc EXCEPT ![t] = "ETIMEDOUT"]
    /\ UNCHANGED <<counters, ready, want, deadline, mode, holds>>

\* The call is over: locals are gone.
Leave(t, label) ==
    /\ pc' = [pc EXCEPT ![t] = label]
    /\ want' = [want EXCEPT ![t] = "none"]
    /\ deadline' = [deadline EXCEPT ![t] = "none"]

\* Mutant: a call that gives up does not take back its place.
GiveUpStaysPending(t) ==
    /\ Leave(t, "ETIMEDOUT")
    /\ UNCHANGED <<counters, ready, mode, holds>>

\* ret != 0: the call is no longer pending, and nobody else is told.
GiveUp(t) ==
    /\ Pending(want[t], -1)
    /\ Leave(t, "ETIMEDOUT")
    /\ UNCHANGED <<numLocks, writerThreadId, ready, mode, holds>>

\* A wait has returned 0 and has the mutex again.
Retry(t) ==
    /\ pc[t] = "awake"
    /\ \/ /\ Precondition(t, want[t])
          /\ Granted(t, want[t])
          /\ Pending(want[t], -1)
          /\ Leave(t, "idle")
          /\ UNCHANGED ready
       \/ /\ ~Precondition(t, want[t])
          /\ deadline[t] = "expired"
          /\ GiveUp(t)
       \/ /\ ~Precondition(t, want[t])
          /\ deadline[t] # "expired"
          /\ pc' = [pc EXCEPT ![t] = "asleep"]
          /\ UNCHANGED <<counters, ready, want, deadline, mode, holds>>

\* A wait has returned ETIMEDOUT and has the mutex again; whether the lock is
\* free by now does not matter.
AfterTimeout(t) ==
    /\ pc[t] = "timedout"
    /\ GiveUp(t)

----------------------------------------------------------------------------
(* The condition variable.                                                 *)

WaitEnds(t, label) ==
    /\ pc[t] = "asleep"
    /\ pc' = [pc EXCEPT ![t] = label]
    /\ UNCHANGED <<counters, ready, want, deadline, mode, holds>>

\* The wait is interrupted by a signal.
WaitInterrupted(t) == WaitEnds(t, "awake")

WaitTimesOut(t) == deadline[t] = "expired" /\ WaitEnds(t, "timedout")

Expire(t) ==
    /\ deadline[t] = "pending"
    /\ deadline' = [deadline EXCEPT ![t] = "expired"]
    /\ UNCHANGED <<counters, ready, pc, want, mode, holds>>

----------------------------------------------------------------------------
(* pthread_rwlock_tryrdlock and trywrlock.                                 *)

TryFails(t, m) ==
    /\ Enter(t)
    /\ ~Precondition(t, m)
    /\ pc' = [pc EXCEPT ![t] = "EBUSY"]
    /\ UNCHANGED <<counters, ready, want, deadline, mode, holds>>

----------------------------------------------------------------------------
(* pthread_rwlock_unlock.                                                  *)

\* Mutant: only readers are counted as waiting.
PulseReaders == pendingReaders > 0

\* The test of _pthread_rwlock_pulse.
SomebodyWaits == pendingReaders > 0 \/ pendingWriters > 0

\* Who is asleep when the lock becomes free is woken.
Pulsed ==
    [u \in Threads |-> IF SomebodyWaits /\ pc[u] = "asleep" THEN "awake" ELSE pc[u]]

\* The checks of the code: somebody has the lock, and a writer is the caller.
MayUnlock(t) == numLocks # 0 /\ writerThreadId \in {0, t}

\* Client rule: a thread that does not read does not give back the lock of
\* another reader, which the code cannot tell.
Unlock(t) ==
    /\ ready
    /\ pc[t] = "idle"
    /\ numLocks > 0 /\ writerThreadId = 0 => holds[t] > 0
    /\ \/ /\ MayUnlock(t)
          /\ numLocks' = numLocks - 1
          /\ \/ numLocks # 1 /\ UNCHANGED <<writerThreadId, pc>>
             \/ numLocks = 1 /\ writerThreadId' = 0 /\ pc' = Pulsed
          /\ holds' = [holds EXCEPT ![t] = @ - 1]
          /\ mode' = [mode EXCEPT ![t] = IF holds[t] = 1 THEN "none" ELSE @]
       \/ /\ ~MayUnlock(t)
          /\ pc' = [pc EXCEPT ![t] = "EPERM"]
          /\ UNCHANGED <<numLocks, writerThreadId, mode, holds>>
    /\ UNCHANGED <<pendingReaders, pendingWriters, ready, want, deadline>>

----------------------------------------------------------------------------
(* Destroying and initialising: nobody is inside a call.                   *)

Destroy(t) ==
    /\ ready
    /\ pc[t] = "idle"
    /\ \A u \in Threads : want[u] = "none"
    /\ \/ /\ numLocks > 0
          /\ pc' = [pc EXCEPT ![t] = "EBUSY"]
          /\ UNCHANGED ready
       \/ /\ numLocks = 0
          /\ ready' = FALSE
          /\ UNCHANGED pc
    /\ UNCHANGED <<counters, want, deadline, mode, holds>>

InitLock(t) ==
    /\ ~ready
    /\ pc[t] = "idle"
    /\ numLocks' = 0 /\ writerThreadId' = 0
    /\ pendingReaders' = 0 /\ pendingWriters' = 0
    /\ ready' = TRUE
    /\ UNCHANGED <<pc, want, deadline, mode, holds>>

Return(t) ==
    /\ pc[t] \in Errors
    /\ Leave(t, "idle")
    /\ UNCHANGED <<counters, ready, mode, holds>>

----------------------------------------------------------------------------
Init ==
    /\ numLocks = 0 /\ writerThreadId = 0
    /\ pendingReaders = 0 /\ pendingWriters = 0
    /\ ready = TRUE
    /\ pc = [t \in Threads |-> "idle"]
    /\ want = [t \in Threads |-> "none"]
    /\ deadline = [t \in Threads |-> "none"]
    /\ mode = [t \in Threads |-> "none"]
    /\ holds = [t \in Threads |-> 0]

Call(t) ==
    \/ \E m \in {"read", "write"} :
          \/ LockAtOnce(t, m) \/ LockTooLate(t, m) \/ TryFails(t, m)
          \/ \E abstime \in {"none", "pending"} : LockBlocks(t, m, abstime)
    \/ Unlock(t)
    \/ Destroy(t) \/ InitLock(t)

Run(t) == Retry(t) \/ AfterTimeout(t) \/ Return(t)

Next == \E t \in Threads : Call(t) \/ Run(t) \/ WaitInterrupted(t) \/ WaitTimesOut(t) \/ Expire(t)

\* The scheduler runs every runnable thread, and the mutex, held for a few
\* instructions at a time, is had by everyone who asks for it.  Time passes.
\* No client has to call.
Fairness ==
    \A t \in Threads : WF_vars(Run(t)) /\ WF_vars(WaitTimesOut(t)) /\ WF_vars(Expire(t))

Spec == Init /\ [][Next]_vars /\ Fairness

----------------------------------------------------------------------------
(* Properties.                                                             *)

\* A thread that has the lock for writing is the only one that has it.
WriterIsAlone ==
    \A t, u \in Threads : mode[t] = "write" /\ mode[u] # "none" => t = u

Waiting(m) == {t \in Threads : want[t] = m}

\* The locks that the clients have, one element for each.
LocksHeld == {lock \in Threads \X (1 .. MaxHolds) : lock[2] <= holds[lock[1]]}

\* The counters tell the truth, whatever calls have timed out meanwhile:
\* numLocks is the number of locks the clients have, writerThreadId names the
\* writer, and the pending counts are the threads inside a blocked call.
CountersExact ==
    /\ numLocks = Cardinality(LocksHeld)
    /\ \A t \in Threads : writerThreadId = t <=> mode[t] = "write"
    /\ pendingReaders = Cardinality(Waiting("read"))
    /\ pendingWriters = Cardinality(Waiting("write"))

\* "each time the lock is unlocked, all waiting threads are woken", and "One
\* of them should be able to grab it after that": while the lock is free and
\* threads sleep on it, a thread whose wait has ended is on its way to it.
NoForgottenWaiter ==
    numLocks = 0 /\ (\E t \in Threads : pc[t] = "asleep")
        => \E u \in Threads : pc[u] \in {"awake", "timedout"}

\* As far as t is concerned, only readers come and go: no other thread has,
\* or waits for, the lock for writing.
OnlyReadersBeside(t) ==
    \A u \in Threads \ {t} : want[u] # "write" /\ mode[u] # "write"

\* "tries to avoid writer starvation by making the readers block": if clients
\* give the lock back, and from some time on no other writer competes, a
\* thread that waits gets the lock or times out, however many readers follow
\* each other.
ServedDespiteReaders ==
    \A t \in Threads :
        (\A u \in Threads : []<>(holds[u] = 0)) /\ <>[]OnlyReadersBeside(t)
            => (want[t] # "none" ~> want[t] = "none")
=============================================================================
