----------------------------- MODULE PthreadTimers -----------------------------
(***************************************************************************)
(* The SIGEV_THREAD timers of bionic (bionic/libc/bionic/pthread-timers.c):*)
(* a table of slots with a free list, a thread for each timer, and fork(), *)
(* which stops all timers around the system call (bionic/libc/bionic/      *)
(* fork.c).  The table is made by pthread_once (module PthreadOnce).       *)
(*                                                                         *)
(* Mutexes and condition variables are the abstract ones: what is done     *)
(* under the table lock or under the mutex of a timer is one step, except  *)
(* the walk of fork, which keeps the table lock while it takes the mutex   *)
(* of one timer after the other.  A time is "none" (zero), "future" or     *)
(* "past"; Elapse turns the second into the third.  Timers of the kernel   *)
(* (any other sigev_notify) are not modelled.                              *)
(***************************************************************************)
EXTENDS PthreadOnce, Sequences, FiniteSets, SequencesExt

CONSTANTS
    Forkers,            \* those of the threads that call fork()
    Armed,              \* the slots whose timers the program arms
    MAX_THREAD_TIMERS,  \* slots of the table (32 in the code)
    DELAYTIMER_MAX,     \* largest overrun count (2^31 - 1 in the code)
    ForkDuringCreate    \* may fork() walk a slot that timer_create has not set up?

ASSUME TimerThreadsAssumption == IsFiniteSet(Threads) /\ Threads \subseteq Nat \ {0} /\ Forkers \subseteq Threads
ASSUME SlotsAssumption == MAX_THREAD_TIMERS \in Nat \ {0} /\ DELAYTIMER_MAX \in Nat \ {0}
ASSUME ForkAssumption == ForkDuringCreate \in BOOLEAN

Slots == 1 .. MAX_THREAD_TIMERS

VARIABLES
    table,     \* __timer_table: "null", allocated ("raw") or set up ("ready")
    tlock,     \* holder of table->lock across steps: a thread in fork, or 0
    free,      \* the list that starts at table->free_timer
    id,        \* slots whose id is not TIMER_ID_NONE
    done,      \* timer->done
    stopped,   \* timer->stopped
    expires,   \* timer->expires
    period,    \* timer->period is not zero
    overruns,  \* timer->overruns
    worker,    \* where timer_thread_start of each slot is
    copy,      \* what it has read: nothing, or a setting, with or without a
               \* period, that timer_settime may have replaced since ("stale")
    pc,        \* where each thread is in a timer call or in fork
    slot,      \* the slot that call is about, 0 if none
    stop,      \* the argument of thr_timer_table_start_stop
    handles    \* ids that the program has and has not deleted

tableVars == <<table, tlock, free, id>>
settings  == <<expires, period>>
flags     == <<done, stopped>>
vars == <<onceVars, tableVars, flags, settings, overruns, worker, copy, pc, slot, stop, handles>>

Times == {"none", "future", "past"}

Nothing == [again |-> FALSE, stale |-> FALSE]
Copies == [again : BOOLEAN, stale : BOOLEAN]

Workers == {"none", "failed", "lock", "asleep", "timed", "expired", "call", "return", "exit"}

Calls == {"idle", "alloc", "setup", "spawn", "mark", "settime", "signal",
          "table", "walk", "fork"}

TypeOK ==
    /\ OnceTypeOK
    /\ table \in {"null", "raw", "ready"} /\ tlock \in Threads \cup {0}
    /\ free \in Seq(Slots) /\ id \subseteq Slots /\ handles \subseteq Slots
    /\ done \in [Slots -> BOOLEAN] /\ stopped \in [Slots -> BOOLEAN]
    /\ expires \in [Slots -> Times] /\ period \in [Slots -> BOOLEAN]
    /\ overruns \in [Slots -> 0 .. DELAYTIMER_MAX]
    /\ worker \in [Slots -> Workers] /\ copy \in [Slots -> Copies]
    /\ pc \in [Threads -> Calls] /\ slot \in [Threads -> Slots \cup {0}]
    /\ stop \in [Threads -> BOOLEAN]

Init ==
    /\ OnceInit
    /\ table = "null" /\ tlock = 0 /\ free = <<>> /\ id = {} /\ handles = {}
    /\ done = [s \in Slots |-> FALSE] /\ stopped = [s \in Slots |-> FALSE]
    /\ expires = [s \in Slots |-> "none"] /\ period = [s \in Slots |-> FALSE]
    /\ overruns = [s \in Slots |-> 0]
    /\ worker = [s \in Slots |-> "none"] /\ copy = [s \in Slots |-> Nothing]
    /\ pc = [t \in Threads |-> "idle"] /\ slot = [t \in Threads |-> 0]
    /\ stop = [t \in Threads |-> FALSE]

----------------------------------------------------------------------------
Goto(t, label) == pc' = [pc EXCEPT ![t] = label]

\* The call is over.
Return(t) == Goto(t, "idle") /\ slot' = [slot EXCEPT ![t] = 0]

\* __timer_table_get() has returned.
Got(t) == step[t] = "out"

\* pthread_cond_signal(&timer->cond): only the timer's thread waits there.
Signal(s) ==
    IF worker[s] \in {"asleep", "timed"}
    THEN /\ worker' = [worker EXCEPT ![s] = "lock"]
         /\ copy' = [copy EXCEPT ![s] = Nothing]
    ELSE UNCHANGED <<worker, copy>>

----------------------------------------------------------------------------
(* The table.                                                              *)

OnceSteps(t) ==
    /\ OnceRun(t)
    /\ UNCHANGED <<tableVars, flags, settings, overruns, worker, copy, pc, slot, stop, handles>>

\* A signal handler interrupts the sleep of a thread in pthread_once.
InterruptedInOnce(t) ==
    /\ OnceInterrupted(t)
    /\ UNCHANGED <<tableVars, flags, settings, overruns, worker, copy, pc, slot, stop, handles>>

\* __timer_table_init: calloc sets the pointer, then the table is filled in.
TableCalloc(t) ==
    /\ step[t] = "init" /\ table = "null"
    /\ table' = "raw"
    /\ UNCHANGED <<onceVars, tlock, free, id, flags, settings, overruns, worker, copy,
                   pc, slot, stop, handles>>

\* Without memory pthread_once completes all the same, and the table stays NULL.
TableCallocFails(t) ==
    /\ table = "null"
    /\ OnceInitialised(t)
    /\ UNCHANGED <<tableVars, flags, settings, overruns, worker, copy, pc, slot, stop, handles>>

TableInit(t) ==
    /\ table = "raw"
    /\ OnceInitialised(t)
    /\ table' = "ready"
    /\ free' = [s \in Slots |-> s]
    /\ UNCHANGED <<tlock, id, flags, settings, overruns, worker, copy, pc, slot, stop, handles>>

----------------------------------------------------------------------------
(* timer_create.                                                           *)

TimerCreate(t) ==
    /\ pc[t] = "idle"
    /\ OnceCall(t)
    /\ Goto(t, "alloc")
    /\ UNCHANGED <<tableVars, flags, settings, overruns, worker, copy, slot, stop, handles>>

\* No table or no free slot: ENOMEM.
AllocFails(t) ==
    /\ pc[t] = "alloc" /\ Got(t) /\ tlock = 0
    /\ table = "null" \/ free = <<>>
    /\ Return(t)
    /\ UNCHANGED <<onceVars, tableVars, flags, settings, overruns, worker, copy, stop, handles>>

\* thr_timer_table_alloc.
Alloc(t) ==
    /\ pc[t] = "alloc" /\ Got(t) /\ tlock = 0
    /\ table # "null" /\ free # <<>>
    /\ slot' = [slot EXCEPT ![t] = Head(free)]
    /\ free' = Tail(free)
    /\ id' = id \cup {Head(free)}
    /\ Goto(t, "setup")
    /\ UNCHANGED <<onceVars, table, tlock, flags, settings, overruns, worker, copy, stop, handles>>

\* The fields of the timer, its mutex and its condition variable.
Setup(t) ==
    LET s == slot[t] IN
    /\ pc[t] = "setup"
    /\ done' = [done EXCEPT ![s] = FALSE]
    /\ stopped' = [stopped EXCEPT ![s] = FALSE]
    /\ expires' = [expires EXCEPT ![s] = "none"]
    /\ period' = [period EXCEPT ![s] = FALSE]
    /\ overruns' = [overruns EXCEPT ![s] = 0]
    /\ Goto(t, "spawn")
    /\ UNCHANGED <<onceVars, tableVars, worker, copy, slot, stop, handles>>

\* pthread_create.  Its errors are positive, so the test for "< 0" lets a
\* timer whose thread could not be made pass as created.
Spawn(t) ==
    /\ pc[t] = "spawn"
    /\ \E w \in {"lock", "failed"} : worker' = [worker EXCEPT ![slot[t]] = w]
    /\ handles' = handles \cup {slot[t]}
    /\ Return(t)
    /\ UNCHANGED <<onceVars, tableVars, flags, settings, overruns, copy, stop>>

----------------------------------------------------------------------------
(* timer_delete and timer_settime.  Client rule: a timer is not deleted    *)
(* while another call on it is under way, and not used after that.         *)

InUse(s) == \E t \in Threads : pc[t] \in {"mark", "settime", "signal"} /\ slot[t] = s

\* thr_timer_table_from_id with remove = 1.
TimerDelete(t, s) ==
    /\ pc[t] = "idle" /\ Got(t) /\ tlock = 0
    /\ s \in handles /\ s \in id /\ ~InUse(s)
    /\ slot' = [slot EXCEPT ![t] = s]
    /\ id' = id \ {s}
    /\ handles' = handles \ {s}
    /\ Goto(t, "mark")
    /\ UNCHANGED <<onceVars, table, tlock, free, flags, settings, overruns, worker, copy, stop>>

\* Mutant: timer_delete frees the timer without waiting for its thread.
MarkDoneFrees(t) ==
    /\ pc[t] = "mark" /\ tlock = 0
    /\ done' = [done EXCEPT ![slot[t]] = TRUE]
    /\ Signal(slot[t])
    /\ free' = <<slot[t]>> \o free
    /\ Return(t)
    /\ UNCHANGED <<onceVars, table, tlock, id, stopped, settings, overruns, stop, handles>>

\* Mutant: the timer's thread is not told.
MarkDoneSilently(t) ==
    /\ pc[t] = "mark"
    /\ done' = [done EXCEPT ![slot[t]] = TRUE]
    /\ Return(t)
    /\ UNCHANGED <<onceVars, tableVars, stopped, settings, overruns, worker, copy, stop, handles>>

MarkDone(t) ==
    /\ pc[t] = "mark"
    /\ done' = [done EXCEPT ![slot[t]] = TRUE]
    /\ Signal(slot[t])
    /\ Return(t)
    /\ UNCHANGED <<onceVars, tableVars, stopped, settings, overruns, stop, handles>>

\* The lookup, under the table lock.
TimerSettime(t, s) ==
    /\ s \in Armed
    /\ pc[t] = "idle" /\ Got(t) /\ tlock = 0
    /\ s \in handles /\ s \in id
    /\ slot' = [slot EXCEPT ![t] = s]
    /\ Goto(t, "settime")
    /\ UNCHANGED <<onceVars, tableVars, flags, settings, overruns, worker, copy, stop, handles>>

\* The new setting, under the timer's mutex.  A time that has passed already
\* (TIMER_ABSTIME) becomes the present one; the interval of a timer that is
\* disarmed does not matter.
SetWrite(t, e, p) ==
    LET s == slot[t] IN
    /\ e = "none" => ~p
    /\ pc[t] = "settime"
    /\ expires' = [expires EXCEPT ![s] = e]
    /\ period' = [period EXCEPT ![s] = p]
    /\ copy' = [copy EXCEPT ![s].stale = worker[s] \in {"timed", "expired"}]
    /\ Goto(t, "signal")
    /\ UNCHANGED <<onceVars, tableVars, flags, overruns, worker, slot, stop, handles>>

\* The signal, after the mutex was given back.
SetSignal(t) ==
    /\ pc[t] = "signal"
    /\ Signal(slot[t])
    /\ Return(t)
    /\ UNCHANGED <<onceVars, tableVars, flags, settings, overruns, stop, handles>>

----------------------------------------------------------------------------
(* fork and thr_timer_table_start_stop.                                    *)

\* __timer_table_start_stop does nothing while the pointer is NULL;
\* otherwise it waits in pthread_once for a table that is being made.
StartStop(t, arg, next) ==
    IF table = "null"
    THEN Goto(t, next) /\ UNCHANGED <<onceVars, stop>>
    ELSE Goto(t, "table") /\ OnceCall(t) /\ stop' = [stop EXCEPT ![t] = arg]

Fork(t) ==
    /\ t \in Forkers
    /\ pc[t] = "idle" /\ Got(t)
    /\ StartStop(t, TRUE, "fork")
    /\ UNCHANGED <<tableVars, flags, settings, overruns, worker, copy, slot, handles>>

\* __fork() returned, in the parent or with an error.
ForkReturns(t) ==
    /\ pc[t] = "fork"
    /\ StartStop(t, FALSE, "idle")
    /\ UNCHANGED <<tableVars, flags, settings, overruns, worker, copy, slot, handles>>

WalkBegins(t) ==
    /\ pc[t] = "table" /\ Got(t) /\ tlock = 0
    /\ ForkDuringCreate \/ \A u \in Threads : pc[u] # "setup"
    /\ tlock' = t
    /\ Goto(t, "walk")
    /\ UNCHANGED <<onceVars, table, free, id, flags, settings, overruns, worker, copy,
                   slot, stop, handles>>

\* The slots the walk has still to visit: no id changes while it lasts.
Ahead(t) == {s \in id : s > slot[t]}

\* Mutant: the thread of a timer that is started again is not told.
VisitSilently(t, s) ==
    /\ pc[t] = "walk"
    /\ s \in Ahead(t) /\ \A r \in Ahead(t) : s <= r
    /\ stopped' = [stopped EXCEPT ![s] = stop[t]]
    /\ slot' = [slot EXCEPT ![t] = s]
    /\ UNCHANGED <<onceVars, tableVars, done, settings, overruns, worker, copy, pc, stop, handles>>

Visit(t, s) ==
    /\ pc[t] = "walk"
    /\ s \in Ahead(t) /\ \A r \in Ahead(t) : s <= r
    /\ stopped' = [stopped EXCEPT ![s] = stop[t]]
    /\ Signal(s)
    /\ slot' = [slot EXCEPT ![t] = s]
    /\ UNCHANGED <<onceVars, tableVars, done, settings, overruns, pc, stop, handles>>

WalkEnds(t) ==
    /\ pc[t] = "walk" /\ Ahead(t) = {}
    /\ tlock' = 0
    /\ slot' = [slot EXCEPT ![t] = 0]
    /\ Goto(t, IF stop[t] THEN "fork" ELSE "idle")
    /\ UNCHANGED <<onceVars, table, free, id, flags, settings, overruns, worker, copy,
                   stop, handles>>

----------------------------------------------------------------------------
(* timer_thread_start.                                                     *)

Work(s, label) == worker' = [worker EXCEPT ![s] = label]

\* timer->expires after an expiration.
Reloaded(again) == IF again THEN "future" ELSE "none"

\* The thread has the mutex and is at the top of the loop: after its start,
\* after a wait, and after the callback, when it clears the overruns.
AtTop(s) ==
    /\ worker[s] \in {"lock", "return"}
    /\ overruns' = [overruns EXCEPT ![s] = 0]

\* The loop is over.
WorkerStops(s) ==
    /\ AtTop(s) /\ done[s]
    /\ Work(s, "exit")
    /\ UNCHANGED <<onceVars, tableVars, flags, settings, copy, pc, slot, stop, handles>>

\* Stopped or disarmed: pthread_cond_wait.
WorkerWaits(s) ==
    /\ AtTop(s) /\ ~done[s]
    /\ stopped[s] \/ expires[s] = "none"
    /\ Work(s, "asleep")
    /\ UNCHANGED <<onceVars, tableVars, flags, settings, copy, pc, slot, stop, handles>>

Running(s) == ~done[s] /\ ~stopped[s] /\ expires[s] # "none"

\* __pthread_cond_timedwait_relative, with copies of the setting.
WorkerWaitsTimed(s) ==
    /\ AtTop(s) /\ Running(s) /\ expires[s] = "future"
    /\ copy' = [copy EXCEPT ![s] = [again |-> period[s], stale |-> FALSE]]
    /\ Work(s, "timed")
    /\ UNCHANGED <<onceVars, tableVars, flags, expires, period, pc, slot, stop, handles>>

\* The time had passed before the wait: count what was missed, then fire.
WorkerOverrun(s) ==
    /\ worker[s] \in {"lock", "return"} /\ Running(s) /\ expires[s] = "past"
    /\ \E n \in IF period[s] THEN 1 .. DELAYTIMER_MAX ELSE {1} :
          overruns' = [overruns EXCEPT ![s] = n]
    /\ expires' = [expires EXCEPT ![s] = Reloaded(period[s])]
    /\ Work(s, "call")
    /\ UNCHANGED <<onceVars, tableVars, flags, period, copy, pc, slot, stop, handles>>

\* After ETIMEDOUT the timer is reloaded from the copies, and fires.
WorkerFires(s) ==
    /\ worker[s] = "expired"
    /\ expires' = [expires EXCEPT ![s] = Reloaded(copy[s].again)]
    /\ copy' = [copy EXCEPT ![s] = Nothing]
    /\ Work(s, "call")
    /\ UNCHANGED <<onceVars, tableVars, flags, period, overruns, pc, slot, stop, handles>>

\* The timed wait ends with ETIMEDOUT at the time that was read.
TimedOut(s) ==
    /\ worker[s] = "timed"
    /\ expires[s] = "past" \/ copy[s].stale
    /\ Work(s, "expired")
    /\ UNCHANGED <<onceVars, tableVars, flags, settings, overruns, copy, pc, slot, stop, handles>>

\* A signal handler interrupts a wait, which then returns 0.
Interrupted(s) ==
    /\ worker[s] \in {"asleep", "timed"}
    /\ Signal(s)
    /\ UNCHANGED <<onceVars, tableVars, flags, settings, overruns, pc, slot, stop, handles>>

CallbackReturns(s) ==
    /\ worker[s] = "call"
    /\ Work(s, "return")
    /\ UNCHANGED <<onceVars, tableVars, flags, settings, overruns, copy, pc, slot, stop, handles>>

\* thr_timer_table_free.  What the fields of a free slot hold is not read
\* before timer_create has set them again; here they are zero.
WorkerFrees(s) ==
    /\ worker[s] = "exit" /\ tlock = 0
    /\ id' = id \ {s}
    /\ free' = <<s>> \o free
    /\ Work(s, "none")
    /\ done' = [done EXCEPT ![s] = FALSE]
    /\ stopped' = [stopped EXCEPT ![s] = FALSE]
    /\ expires' = [expires EXCEPT ![s] = "none"]
    /\ period' = [period EXCEPT ![s] = FALSE]
    /\ UNCHANGED <<onceVars, table, tlock, overruns, copy, pc, slot, stop, handles>>

\* The clock reaches the expiration time of a timer that somebody looks at.
Elapse(s) ==
    /\ expires[s] = "future" /\ worker[s] # "failed"
    /\ expires' = [expires EXCEPT ![s] = "past"]
    /\ UNCHANGED <<onceVars, tableVars, flags, period, overruns, worker, copy,
                   pc, slot, stop, handles>>

----------------------------------------------------------------------------
\* What a thread does once it has called.
Continue(t) ==
    \/ OnceSteps(t) \/ TableCalloc(t) \/ TableCallocFails(t) \/ TableInit(t)
    \/ Alloc(t) \/ AllocFails(t) \/ Setup(t) \/ Spawn(t)
    \/ MarkDone(t) \/ SetSignal(t)
    \/ \E e \in Times, p \in BOOLEAN : SetWrite(t, e, p)
    \/ ForkReturns(t) \/ WalkBegins(t) \/ WalkEnds(t)
    \/ \E s \in Slots : Visit(t, s)

Client(t) ==
    \/ TimerCreate(t) \/ Fork(t)
    \/ \E s \in Slots : TimerDelete(t, s) \/ TimerSettime(t, s)

WorkerRun(s) ==
    \/ WorkerStops(s) \/ WorkerWaits(s) \/ WorkerWaitsTimed(s)
    \/ WorkerOverrun(s) \/ WorkerFires(s) \/ TimedOut(s) \/ CallbackReturns(s)
    \/ WorkerFrees(s)

Next ==
    \/ \E t \in Threads : Continue(t) \/ Client(t) \/ InterruptedInOnce(t)
    \/ \E s \in Slots : WorkerRun(s) \/ Interrupted(s) \/ Elapse(s)

\* Threads that can run do, time passes, waits end at their timeout and
\* callbacks return.  Nothing makes the program call, and no signal comes
\* for certain.
Fairness ==
    /\ \A t \in Threads : WF_vars(Continue(t))
    /\ \A s \in Slots : WF_vars(WorkerRun(s)) /\ WF_vars(Elapse(s))

Spec == Init /\ [][Next]_vars /\ Fairness

----------------------------------------------------------------------------
(* Properties.                                                             *)

\* The slots that somebody works with: a timer_create that has not returned,
\* a timer's thread, or a thread that could not be made.
Owned == {s \in Slots : worker[s] # "none"}
         \cup {slot[t] : t \in {u \in Threads : pc[u] \in {"setup", "spawn"}}}

\* The free list has every slot that nobody works with, once, and no other:
\* "the object and its timer_id cannot be reused before" the thread has freed
\* it, and no two creations get the same slot.
SlotsAccounted ==
    /\ TypeOK
    /\ IsInjective(free)
    /\ table = "ready" => Range(free) = Slots \ Owned
    /\ \A t, u \in Threads :
          pc[t] \in {"setup", "spawn"} /\ pc[u] \in {"setup", "spawn", "mark"} /\ slot[t] = slot[u]
              => t = u

\* pthread_once lets nobody pass before the initialiser has returned, and
\* runs it once: no call touches a table that is allocated and not filled in.
TableReadyBeforeUse ==
    /\ OnceOK
    /\ table = "raw" => \A t \in Threads : step[t] = "out" => pc[t] \in {"idle", "fork"}

\* Whoever calls pthread_once gets out of it: a thread that sleeps while the
\* initialiser runs is woken.
OnceReturns ==
    \A t \in Threads : step[t] # "out" ~> step[t] = "out"

\* "the thread will call __timer_table_free()": a deleted timer whose thread
\* exists is freed, once no more forks compete with it for the table lock.
DeletedIsFreed ==
    <>[](\A t \in Threads : pc[t] # "walk") =>
        \A s \in Slots : (done[s] /\ worker[s] \notin {"none", "failed"}) ~> worker[s] = "none"

Quiet == \A t \in Threads : pc[t] = "idle"

\* Once the program makes no more calls, an armed timer fires, or has been
\* disarmed or deleted.  Forks that stopped it have started it again.
ArmedFires ==
    <>[]Quiet =>
        \A s \in Armed :
            (expires[s] # "none" /\ worker[s] # "failed")
                ~> (expires[s] = "none" \/ worker[s] \in {"none", "call"})
=============================================================================
