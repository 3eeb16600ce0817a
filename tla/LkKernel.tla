------------------------------- MODULE LkKernel -------------------------------
(***************************************************************************)
(* The kernel of the LK boot loader: threads, a mutex, an event, timers    *)
(* and the thread that cleans up after others (bootable/bootloader/lk/lk/  *)
(* kernel: thread.c, mutex.c, event.c, timer.c, dpc.c) on the scheduler of *)
(* module LkSched.                                                         *)
(*                                                                         *)
(* A critical section is one step, up to the switch to another thread; the *)
(* rest of it is the first step of the thread after it was switched to,    *)
(* and no interrupt comes before that.  The interrupts of the timer come   *)
(* between the steps; threads signal the event.                            *)
(*                                                                         *)
(* thread_unblock_from_wait_queue leaves the critical section count one    *)
(* too high when the thread is not BLOCKED any more.  From then on the     *)
(* interrupted thread cannot turn interrupts off.  The model records that  *)
(* in leaked and does not follow the system any further.                   *)
(***************************************************************************)
EXTENDS LkSched

CONSTANTS
    Bootstrap2,  \* the thread that kmain creates
    Timed,       \* the threads that wait with a timeout, or sleep
    Waiters,     \* the threads that wait for the event
    Mortal       \* the threads that exit

ASSUME BootAssumption == Bootstrap2 \in Threads /\ Timed \cup Waiters \cup Mortal \subseteq Threads

VARIABLES
    k,          \* the scheduler
    pc,         \* what a thread does when it runs
    timers,     \* threads whose timer, on their stack, is in timer_queue
    count,      \* mutex: threads that hold it or want it
    holder,     \* mutex: its holder, or 0
    signalled,  \* the event, and dpc_event
    auto,       \* the event has EVENT_FLAG_AUTOUNSIGNAL
    dpcs,       \* dpc_list: the threads to clean up
    cleaning,   \* the one that the dpc thread has taken off the list, or 0
    missed,     \* ghost: a release has found nobody to give the mutex to
    leaked,     \* a thread runs with its critical section count too high
    ticking     \* the timer interrupt has fired a timer and goes on

mutexVars == <<count, holder, missed>>
eventVars == <<signalled, auto>>
dpcVars   == <<dpcs, cleaning>>
irqVars   == <<leaked, ticking>>
vars == <<k, pc, timers, mutexVars, eventVars, dpcVars, irqVars>>

Current == k.current

\* A thread is out of the kernel, or in a wait, with or without a timeout;
\* the dpc thread is about to wait, to take a job, or to do it.
Waits == {"mutex", "mutexTimed", "event", "eventTimed", "sleep", "dpc"}
Labels == Waits \cup {"run", "loop", "take", "cleanup"}

\* The wait queue of a thread that is in a wait.
QueueOf(t) ==
    CASE pc[t] \in {"mutex", "mutexTimed"} -> "mutex"
      [] pc[t] \in {"event", "eventTimed"} -> "event"
      [] pc[t] = "dpc" -> "dpc"
      [] OTHER -> "none"

TypeOK ==
    /\ k \in Scheds
    /\ pc \in [All -> Labels]
    /\ timers \subseteq Timed
    /\ count \in Nat /\ holder \in Threads \cup {0}
    /\ signalled \in [{"event", "dpc"} -> BOOLEAN] /\ auto \in BOOLEAN
    /\ dpcs \in Seq(Threads) /\ cleaning \in Threads \cup {0}
    /\ missed \in BOOLEAN /\ leaked \in BOOLEAN /\ ticking \in BOOLEAN

Init ==
    /\ k = BootSched(Bootstrap2)
    /\ pc = [t \in All |-> IF t = Dpc THEN "dpc" ELSE "run"]
    /\ timers = {}
    /\ count = 0 /\ holder = 0 /\ missed = FALSE
    /\ signalled = [e \in {"event", "dpc"} |-> FALSE] /\ auto \in BOOLEAN
    /\ dpcs = <<>> /\ cleaning = 0
    /\ leaked = FALSE /\ ticking = FALSE

----------------------------------------------------------------------------
Goto(t, label) == pc' = [pc EXCEPT ![t] = label]

\* The thread runs, not interrupted, and is at that place.
At(t, label) == ~leaked /\ ~ticking /\ Current = t /\ pc[t] = label

\* timer_set_oneshot of a timer on the caller's stack, if there is a timeout.
SetTimer(t, timed) == timers' = IF timed THEN timers \cup {t} ELSE timers

\* wait_queue_block_ret is not read again before the next wait sets it; here
\* it goes back to NO_ERROR.
Forget(t) == [k EXCEPT !.ret[t] = "NO_ERROR"]

----------------------------------------------------------------------------
(* Threads.                                                                *)

ThreadCreate(t, u) ==
    /\ At(t, "run") /\ k.state[u] = "NONE"
    /\ k' = SetState(k, u, "SUSPENDED")
    /\ UNCHANGED <<pc, timers, mutexVars, eventVars, dpcVars, irqVars>>

ThreadResume(t, u) ==
    /\ At(t, "run") /\ k.state[u] = "SUSPENDED"
    /\ k' = Yield(ReadyAtHead(k, u))
    /\ UNCHANGED <<pc, timers, mutexVars, eventVars, dpcVars, irqVars>>

ThreadYield(t) ==
    /\ At(t, "run")
    /\ k' = Yield(k)
    /\ UNCHANGED <<pc, timers, mutexVars, eventVars, dpcVars, irqVars>>

ThreadSleep(t) ==
    /\ At(t, "run") /\ t \in Timed
    /\ SetTimer(t, TRUE)
    /\ k' = Resched[SetState(k, t, "SLEEPING")]
    /\ Goto(t, "sleep")
    /\ UNCHANGED <<mutexVars, eventVars, dpcVars, irqVars>>

SleepReturns(t) ==
    /\ At(t, "sleep")
    /\ Goto(t, "run")
    /\ UNCHANGED <<k, timers, mutexVars, eventVars, dpcVars, irqVars>>

\* thread_exit queues a job for the dpc thread, without giving up the CPU to
\* it before its own reschedule.
ThreadExit(t) ==
    /\ At(t, "run") /\ t \in Mortal /\ holder # t
    /\ dpcs' = Append(dpcs, t)
    /\ signalled' = [signalled EXCEPT !["dpc"] = TRUE]
    /\ LET dead == SetState(k, t, "DEATH")
       IN  k' = Resched[IF signalled["dpc"] THEN dead ELSE WakeAll(dead, "dpc", FALSE)]
    /\ UNCHANGED <<pc, timers, mutexVars, auto, cleaning, irqVars>>

----------------------------------------------------------------------------
(* dpc_thread_routine.                                                     *)

DpcWait ==
    /\ At(Dpc, "loop")
    /\ IF signalled["dpc"] THEN k' = k /\ Goto(Dpc, "take")
                           ELSE k' = Block(k, "dpc") /\ Goto(Dpc, "dpc")
    /\ UNCHANGED <<timers, mutexVars, eventVars, dpcVars, irqVars>>

DpcAwake ==
    /\ At(Dpc, "dpc")
    /\ Goto(Dpc, "take")
    /\ UNCHANGED <<k, timers, mutexVars, eventVars, dpcVars, irqVars>>

\* The next job, or event_unsignal.
DpcTake ==
    /\ At(Dpc, "take")
    /\ IF dpcs = <<>>
       THEN /\ signalled' = [signalled EXCEPT !["dpc"] = FALSE]
            /\ Goto(Dpc, "loop")
            /\ UNCHANGED dpcVars
       ELSE /\ cleaning' = Head(dpcs)
            /\ dpcs' = Tail(dpcs)
            /\ Goto(Dpc, "cleanup")
            /\ UNCHANGED signalled
    /\ UNCHANGED <<k, timers, mutexVars, auto, irqVars>>

\* thread_cleanup_dpc.  A new thread has no time slice yet.
DpcCleanup ==
    /\ At(Dpc, "cleanup")
    /\ k' = [SetState(k, cleaning, "NONE") EXCEPT !.quantum[cleaning] = 0]
    /\ cleaning' = 0
    /\ Goto(Dpc, "loop")
    /\ UNCHANGED <<timers, mutexVars, eventVars, dpcs, irqVars>>

----------------------------------------------------------------------------
(* The mutex.  To acquire it twice, or to release another thread's, is a   *)
(* panic, and no thread exits while it holds it.                           *)

\* mutex_acquire, and mutex_acquire_timeout with a timeout that is not zero.
MutexAcquire(t, timed) ==
    /\ At(t, "run") /\ holder # t
    /\ timed => t \in Timed
    /\ count' = count + 1
    /\ IF count = 0
       THEN holder' = t /\ UNCHANGED <<k, pc, timers>>
       ELSE /\ SetTimer(t, timed)
            /\ k' = Block(k, "mutex")
            /\ Goto(t, IF timed THEN "mutexTimed" ELSE "mutex")
            /\ UNCHANGED holder
    /\ UNCHANGED <<missed, eventVars, dpcVars, irqVars>>

\* mutex_acquire_timeout with a zero timeout: a mutex that is not free only
\* has its count go up and down again.
MutexTry(t) ==
    /\ At(t, "run") /\ holder # t /\ count = 0
    /\ count' = 1 /\ holder' = t
    /\ UNCHANGED <<k, pc, timers, missed, eventVars, dpcVars, irqVars>>

\* Mutant: a thread that gave up does not take itself off the count.
TimedOutStaysCounted(t) ==
    /\ At(t, "mutex") \/ At(t, "mutexTimed")
    /\ timers' = timers \ {t}
    /\ IF k.ret[t] = "TIMED_OUT" THEN UNCHANGED <<count, holder>>
                                 ELSE holder' = t /\ UNCHANGED count
    /\ Goto(t, "run")
    /\ k' = Forget(t)
    /\ UNCHANGED <<missed, eventVars, dpcVars, irqVars>>

\* The thread runs again: it has the mutex, or it gave up.
MutexReturns(t) ==
    /\ At(t, "mutex") \/ At(t, "mutexTimed")
    /\ timers' = timers \ {t}
    /\ IF k.ret[t] = "TIMED_OUT" THEN count' = count - 1 /\ UNCHANGED holder
                                 ELSE holder' = t /\ UNCHANGED count
    /\ Goto(t, "run")
    /\ k' = Forget(t)
    /\ UNCHANGED <<missed, eventVars, dpcVars, irqVars>>

\* Mutant: wakes a thread only if two more want the mutex.
ReleaseOffByOne(t) ==
    /\ At(t, "run") /\ holder = t
    /\ holder' = 0
    /\ count' = count - 1
    /\ IF count > 2 /\ k.wait["mutex"] # <<>>
       THEN k' = WakeOne(k, "mutex", TRUE) /\ UNCHANGED missed
       ELSE missed' = (missed \/ count > 2) /\ UNCHANGED k
    /\ UNCHANGED <<pc, timers, eventVars, dpcVars, irqVars>>

MutexRelease(t) ==
    /\ At(t, "run") /\ holder = t
    /\ holder' = 0
    /\ count' = count - 1
    /\ IF count > 1 /\ k.wait["mutex"] # <<>>
       THEN k' = WakeOne(k, "mutex", TRUE) /\ UNCHANGED missed
       ELSE missed' = (missed \/ count > 1) /\ UNCHANGED k
    /\ UNCHANGED <<pc, timers, eventVars, dpcVars, irqVars>>

----------------------------------------------------------------------------
(* The event.                                                              *)

\* event_wait_timeout; a zero timeout never waits.
EventWait(t, timeout) ==
    /\ At(t, "run") /\ t \in Waiters
    /\ timeout # "infinite" => t \in Timed
    /\ IF signalled["event"]
       THEN /\ signalled' = [signalled EXCEPT !["event"] = ~auto]
            /\ UNCHANGED <<k, pc, timers>>
       ELSE /\ timeout # "zero"
            /\ SetTimer(t, timeout = "some")
            /\ k' = Block(k, "event")
            /\ Goto(t, IF timeout = "some" THEN "eventTimed" ELSE "event")
            /\ UNCHANGED signalled
    /\ UNCHANGED <<mutexVars, auto, dpcVars, irqVars>>

EventReturns(t) ==
    /\ At(t, "event") \/ At(t, "eventTimed")
    /\ timers' = timers \ {t}
    /\ Goto(t, "run")
    /\ k' = Forget(t)
    /\ UNCHANGED <<mutexVars, eventVars, dpcVars, irqVars>>

\* event_signal, of an event that is not signalled.  With AUTOUNSIGNAL the
\* flag is set only if there is no thread to let through.
EventSignal(t, reschedule) ==
    /\ At(t, "run") /\ ~signalled["event"]
    /\ signalled' = [signalled EXCEPT !["event"] = ~auto \/ k.wait["event"] = <<>>]
    /\ k' = IF k.wait["event"] = <<>> THEN k
            ELSE IF auto THEN WakeOne(k, "event", reschedule)
                         ELSE WakeAll(k, "event", reschedule)
    /\ UNCHANGED <<pc, timers, mutexVars, auto, dpcVars, irqVars>>

EventUnsignal(t) ==
    /\ At(t, "run") /\ signalled["event"]
    /\ signalled' = [signalled EXCEPT !["event"] = FALSE]
    /\ UNCHANGED <<k, pc, timers, mutexVars, auto, dpcVars, irqVars>>

----------------------------------------------------------------------------
(* The timer interrupt.                                                    *)

\* A thread that has not yet come out of its wait has interrupts off.
Interruptible == ~leaked /\ pc[Current] \notin Waits

\* The timer of a thread that is not BLOCKED any more.
Late(t) == pc[t] # "sleep" /\ k.state[t] # "BLOCKED"

\* The loop of timer_tick takes a timer that is due off the queue, any of
\* them for the model, and calls thread_sleep_handler or
\* wait_queue_timeout_handler for its thread.  One that was woken and has not
\* run yet is left alone.  The idle thread never enters a critical section
\* and so does not mind a count that is too high.
TimerFires(t) ==
    /\ Interruptible /\ t \in timers
    /\ ticking' = TRUE
    /\ timers' = timers \ {t}
    /\ k' = CASE pc[t] = "sleep" -> ReadyAtHead(k, t)
              [] Late(t) -> k
              [] OTHER -> Unblock(k, QueueOf(t), t)
    /\ leaked' = (Late(t) /\ Current # Idle)
    /\ UNCHANGED <<pc, mutexVars, eventVars, dpcVars>>

\* The rest of timer_tick, if there is no timer that is due or none any more:
\* the time slice shrinks, and arm_irq calls thread_preempt in any case.
Tick ==
    /\ Interruptible
    /\ ticking' = FALSE
    /\ k' = Preempt[TimerTick(k)]
    /\ UNCHANGED <<pc, timers, mutexVars, eventVars, dpcVars, leaked>>

TickIn(t) == Current = t /\ Tick

\* What comes after the count went wrong is not modelled.
NotFollowed == leaked /\ UNCHANGED vars

----------------------------------------------------------------------------
\* What the kernel does for a thread that runs, and an interrupt to its end.
KernelStep ==
    \/ DpcWait \/ DpcAwake \/ DpcTake \/ DpcCleanup
    \/ \E t \in Threads : SleepReturns(t) \/ MutexReturns(t) \/ EventReturns(t)
    \/ ticking /\ Tick

Program(t) ==
    \/ \E u \in Threads : ThreadCreate(t, u) \/ ThreadResume(t, u)
    \/ ThreadYield(t) \/ ThreadSleep(t) \/ ThreadExit(t)
    \/ \E timed \in BOOLEAN : MutexAcquire(t, timed)
    \/ MutexTry(t) \/ MutexRelease(t)
    \/ \E timeout \in {"infinite", "some", "zero"} : EventWait(t, timeout)
    \/ \E reschedule \in BOOLEAN : EventSignal(t, reschedule)
    \/ EventUnsignal(t)

Next ==
    \/ KernelStep
    \/ \E t \in Threads : Program(t)
    \/ \E t \in timers : TimerFires(t)
    \/ \E t \in All : TickIn(t)
    \/ NotFollowed

\* The CPU goes on inside the kernel.  Outside, a thread may compute for
\* ever; but the tick comes again and again, and it is not in step with what
\* the threads do: a thread that runs again and again meets it again and
\* again.
Fairness ==
    /\ WF_vars(KernelStep)
    /\ WF_vars(TickIn(Idle))
    /\ \A t \in Threads : SF_vars(TickIn(t))

Spec == Init /\ [][Next]_vars /\ Fairness

----------------------------------------------------------------------------
(* Properties.                                                             *)

In(state) == {t \in All : k.state[t] = state}

\* The queues say what the states say.  One thread runs; whoever is READY is
\* in the run queue of its priority, once, and the bitmap knows of it; who
\* is BLOCKED is in the queue it waits for, once; who sleeps has a timer; a
\* timer on a stack is gone when the wait returns; and a thread is cleaned
\* up once, after it has died.
QueuesExact ==
    /\ TypeOK
    /\ In("RUNNING") = {Current}
    /\ \A p \in Priorities :
          /\ IsInjective(k.runq[p])
          /\ Range(k.runq[p]) = {t \in In("READY") : Priority(t) = p}
    /\ k.bitmap = {p \in Priorities : k.runq[p] # <<>>}
    /\ \A q \in Queues :
          /\ IsInjective(k.wait[q])
          /\ Range(k.wait[q]) = {t \in In("BLOCKED") : QueueOf(t) = q}
    /\ In("SLEEPING") \subseteq timers
    /\ \A t \in timers : pc[t] \in {"sleep", "mutexTimed", "eventTimed"}
    /\ IsInjective(dpcs)
    /\ In("DEATH") = Range(dpcs) \cup ({cleaning} \ {0})
    /\ cleaning \notin Range(dpcs)

\* Threads that a release has made the next holder, and threads that gave
\* up, before they have run again.
InMutexWait == {t \in In("READY") \cup In("RUNNING") : QueueOf(t) = "mutex"}
Handed == {t \in InMutexWait : k.ret[t] = "NO_ERROR"}
GaveUp == InMutexWait \ Handed

Holders == {holder} \ {0}

\* At most one thread has the mutex or is about to, and the count has every
\* thread that holds it, waits for it or has not come back from waiting.
MutexAccounted ==
    /\ Cardinality(Holders \cup Handed) <= 1
    /\ count = Cardinality(Holders \cup Handed \cup GaveUp) + Len(k.wait["mutex"])

\* mutex_acquire waits "for a mutex to become available": nobody waits for a
\* mutex that no thread has or is about to get.
NoWaiterOnFreeMutex ==
    k.wait["mutex"] # <<>> => Holders \cup Handed # {}

\* Whoever waits is waiting for something that is still to come: no thread
\* waits for an event that is signalled, the dpc thread sleeps through no
\* job, and, unless a release was misled by a thread that gave up and has
\* not run yet, a mutex that has waiters is not free.
NobodyForgotten ==
    /\ missed \/ NoWaiterOnFreeMutex
    /\ signalled["event"] => k.wait["event"] = <<>>
    /\ dpcs # <<>> => signalled["dpc"]
    /\ signalled["dpc"] => k.wait["dpc"] = <<>>

\* mutex_release takes the count for the number of threads that hold the mutex
\* or are in its queue.  Only a thread that gave up and has not run again to
\* take itself off the count can mislead it.
MisledByTimeout ==
    [][missed' /\ ~missed => GaveUp # {}]_vars

\* No thread of a higher priority wants the CPU.
TurnOf(t) == \A u \in In("READY") \cup In("RUNNING") : Priority(u) <= Priority(t)

\* Threads of one priority take turns: a READY thread gets the CPU, if those
\* of higher priority leave it again and again.
ReadyRuns ==
    \A t \in Threads :
        []<>TurnOf(t) /\ []~leaked =>
            (k.state[t] = "READY" ~> k.state[t] = "RUNNING")
=============================================================================
