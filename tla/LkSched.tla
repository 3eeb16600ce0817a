-------------------------------- MODULE LkSched --------------------------------
(***************************************************************************)
(* The scheduler of the LK boot loader (bootable/bootloader/lk/lk/kernel/  *)
(* thread.c): run queues by priority, the bitmap that says which of them   *)
(* have a thread, and wait queues.  One CPU, interrupts off: every         *)
(* operator maps the scheduler's state, a record, to the state after a     *)
(* piece of code that runs inside a critical section.                      *)
(***************************************************************************)
EXTENDS Integers, Sequences, FiniteSets, Functions

CONSTANTS
    Threads,  \* threads that the boot loader creates
    Low,      \* those of LOW_PRIORITY, the others have DEFAULT_PRIORITY
    Quantum   \* ticks of a time slice (5 in the code)

\* The bootstrap thread that became the idle one, and the thread of dpc.c.
Idle == 0
Dpc == 1

ASSUME LkThreadsAssumption ==
    /\ Threads \subseteq Nat \ {Idle, Dpc} /\ IsFiniteSet(Threads)
    /\ Low \subseteq Threads
ASSUME QuantumAssumption == Quantum \in Nat \ {0}

All == Threads \cup {Idle, Dpc}

\* IDLE_PRIORITY < LOW_PRIORITY < DEFAULT_PRIORITY < DPC_PRIORITY.
Priorities == 0 .. 3
Priority(t) ==
    CASE t = Idle -> 0
      [] t \in Low -> 1
      [] t = Dpc -> 3
      [] OTHER -> 2

\* The wait queues: of the mutex, of the event, and of dpc_event.
Queues == {"mutex", "event", "dpc"}

\* "NONE" is a thread that is not created, or whose memory has been freed.
States == {"NONE", "SUSPENDED", "READY", "RUNNING", "BLOCKED", "SLEEPING", "DEATH"}

\* What wait_queue_block returns.
Results == {"NO_ERROR", "TIMED_OUT"}

\* The scheduler's state.  The idle thread and the dpc thread are alone at
\* their priority, where the time slice decides nothing: they have none.
Scheds ==
    [current : All,
     state   : [All -> States],
     runq    : [Priorities -> Seq(All)],
     bitmap  : SUBSET Priorities,
     quantum : [Threads -> 0 .. Quantum],
     wait    : [Queues -> Seq(All)],
     ret     : [All -> Results]]

\* Boot has ended: the idle thread runs, dpc waits, bootstrap2 is ready.
BootSched(bootstrap2) ==
    [current |-> Idle,
     state   |-> [t \in All |-> CASE t = Idle -> "RUNNING"
                                  [] t = Dpc -> "BLOCKED"
                                  [] t = bootstrap2 -> "READY"
                                  [] OTHER -> "NONE"],
     runq    |-> [p \in Priorities |-> IF p = Priority(bootstrap2) THEN <<bootstrap2>> ELSE <<>>],
     bitmap  |-> {Priority(bootstrap2)},
     quantum |-> [t \in Threads |-> 0],
     wait    |-> [q \in Queues |-> IF q = "dpc" THEN <<Dpc>> ELSE <<>>],
     ret     |-> [t \in All |-> "NO_ERROR"]]

----------------------------------------------------------------------------
(* Run queues.                                                             *)

SetState(k, t, s) == [k EXCEPT !.state[t] = s]

\* The thread becomes READY, at the head or at the tail of its run queue.
ReadyAtHead(k, t) ==
    [k EXCEPT !.state[t] = "READY",
              !.runq[Priority(t)] = <<t>> \o @,
              !.bitmap = @ \cup {Priority(t)}]

ReadyAtTail(k, t) ==
    [k EXCEPT !.state[t] = "READY",
              !.runq[Priority(t)] = Append(@, t),
              !.bitmap = @ \cup {Priority(t)}]

Highest(k) == CHOOSE p \in k.bitmap : \A r \in k.bitmap : r <= p

\* thread_resched: the head of the highest queue that has a thread runs, with
\* a new time slice if its last one is used up and it did not run before.
Resched[k \in Scheds] ==
    LET p == Highest(k)
        t == Head(k.runq[p])
    IN  [k EXCEPT !.runq[p] = Tail(@),
                  !.bitmap = IF Len(k.runq[p]) = 1 THEN @ \ {p} ELSE @,
                  !.state[t] = "RUNNING",
                  !.quantum = IF t \in Threads \ {k.current} /\ @[t] = 0
                              THEN [@ EXCEPT ![t] = Quantum] ELSE @,
                  !.current = t]

\* thread_yield: to the tail, without what is left of the time slice.
Yield(k) ==
    Resched[ReadyAtTail([k EXCEPT !.quantum[k.current] = 0], k.current)]

\* Mutant: the thread that is interrupted always goes back to the head.
BackToHead(k) == ReadyAtHead(k, k.current)

\* Where a thread goes that is interrupted: to the head of its queue while
\* there is some of its time slice left.
Back(k) ==
    IF k.current \in Threads /\ k.quantum[k.current] > 0
    THEN ReadyAtHead(k, k.current)
    ELSE ReadyAtTail(k, k.current)

\* thread_preempt.
Preempt[k \in Scheds] == Resched[Back(k)]

\* thread_timer_tick.  The slice may be overdrawn; that is as good as 0.
TimerTick(k) ==
    IF k.current \notin Threads \/ k.quantum[k.current] = 0
    THEN k
    ELSE [k EXCEPT !.quantum[k.current] = @ - 1]

----------------------------------------------------------------------------
(* Wait queues.                                                            *)

\* The first half of wait_queue_block: the current thread queues up and
\* another one runs.
Block(k, q) ==
    Resched[[k EXCEPT !.wait[q] = Append(@, k.current),
                      !.state[k.current] = "BLOCKED",
                      !.ret[k.current] = "NO_ERROR"]]

\* wait_queue_wake_one of a queue that has a thread.
WakeOne(k, q, reschedule) ==
    LET t == Head(k.wait[q])
        k1 == [k EXCEPT !.wait[q] = Tail(@), !.ret[t] = "NO_ERROR"]
    IN  IF reschedule
        THEN Resched[ReadyAtHead(ReadyAtHead(k1, k.current), t)]
        ELSE ReadyAtHead(k1, t)

\* Later(queue, t, u): t came to the queue later than u.
Later(queue, t, u) == \E i, j \in DOMAIN queue : i > j /\ queue[i] = t /\ queue[j] = u

\* The threads of a wait queue that have priority p, the last one first: so
\* they stand in the run queue after each was put, in turn, at its head.
LastFirst(queue, p) ==
    LET who == {t \in Range(queue) : Priority(t) = p}
        n == Cardinality(who)
    IN  CHOOSE s \in [1 .. n -> who] :
            /\ Range(s) = who
            /\ \A i, j \in 1 .. n : i < j => Later(queue, s[i], s[j])

\* The threads of a wait queue all become READY.
ReadyAll(k, q) ==
    LET woken == Range(k.wait[q])
    IN  [k EXCEPT !.wait[q] = <<>>,
                  !.ret = [t \in All |-> IF t \in woken THEN "NO_ERROR" ELSE k.ret[t]],
                  !.state = [t \in All |-> IF t \in woken THEN "READY" ELSE k.state[t]],
                  !.runq = [p \in Priorities |-> LastFirst(k.wait[q], p) \o k.runq[p]],
                  !.bitmap = @ \cup {Priority(t) : t \in woken}]

\* wait_queue_wake_all; with a reschedule, of a queue that has a thread.
WakeAll(k, q, reschedule) ==
    IF reschedule THEN Resched[ReadyAll(ReadyAtHead(k, k.current), q)]
                  ELSE ReadyAll(k, q)

\* Mutant: the thread stays in the wait queue.
UnblockLeavesQueued(k, q, t) == ReadyAtHead([k EXCEPT !.ret[t] = "TIMED_OUT"], t)

\* list_delete.
Removed(queue, t) ==
    LET i == CHOOSE i \in DOMAIN queue : queue[i] = t
    IN  SubSeq(queue, 1, i - 1) \o SubSeq(queue, i + 1, Len(queue))

\* thread_unblock_from_wait_queue, of a BLOCKED thread, by the handler of a
\* timeout.
Unblock(k, q, t) ==
    ReadyAtHead([k EXCEPT !.wait[q] = Removed(@, t),
                          !.ret[t] = "TIMED_OUT"], t)
=============================================================================
