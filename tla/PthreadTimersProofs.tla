-------------------------- MODULE PthreadTimersProofs --------------------------
(***************************************************************************)
(* Theorems about pthread_once and the table of timers that it guards, for *)
(* any number of threads and timers.                                       *)
(***************************************************************************)
EXTENDS PthreadTimers, TLAPS

ThreadTypes == OnceTypeOK /\ pc \in [Threads -> Calls]

\* What keeps the table from being seen half made.  It is "raw" only while
\* somebody runs the initialiser; a thread is in pthread_once only on behalf of
\* a call that needs the table; and a call that has gone past it, or an id that
\* came from one, is there only after COMPLETED was stored.
GuardOK ==
    /\ table = "raw" => \E t \in Threads : step[t] = "init"
    /\ \A t \in Threads :
          /\ step[t] # "out" => pc[t] \in {"alloc", "table"}
          /\ step[t] = "out" /\ pc[t] \notin {"idle", "fork"} => once = COMPLETED
          /\ step[t] = "wake" => once = COMPLETED
    /\ handles # {} => once = COMPLETED

IInv == ThreadTypes /\ OnceOK /\ GuardOK

----------------------------------------------------------------------------
\* The invariant holds before the first call.
LEMMA InitIInv == Init => IInv
<1> SUFFICES ASSUME Init PROVE IInv
    OBVIOUS
<1>1. ThreadTypes
    BY DEF Init, OnceInit, ThreadTypes, OnceTypeOK, Steps, Calls, INITIALIZING, COMPLETED
<1>2. OnceOK
    BY DEF Init, OnceInit, OnceOK, INITIALIZING, COMPLETED
<1>3. GuardOK
    BY DEF Init, OnceInit, GuardOK
<1> QED
    BY <1>1, <1>2, <1>3 DEF IInv

\* The steps of pthread_once itself: the call, the compare-and-exchange, the
\* wait and its end, the end of the initialiser, the store and the wake-up.
OnceStep(t) ==
    \/ OnceCall(t) \/ OnceTry(t) \/ OnceWait(t) \/ OnceAwake(t)
    \/ OnceInitialised(t) \/ OnceStore(t) \/ OnceWake(t)

\* pthread_once keeps its types whatever the threads around it do.
LEMMA OnceStepTyped ==
    ASSUME OnceTypeOK, NEW t \in Threads, OnceStep(t)
    PROVE  OnceTypeOK'
<1> USE DEF OnceTypeOK, At, Steps, INITIALIZING, COMPLETED
<1>1. CASE OnceCall(t)
    BY <1>1 DEF OnceCall
<1>2. CASE OnceTry(t)
    BY <1>2 DEF OnceTry
<1>3. CASE OnceWait(t)
    BY <1>3 DEF OnceWait
<1>4. CASE OnceAwake(t)
    BY <1>4 DEF OnceAwake
<1>5. CASE OnceInitialised(t)
    BY <1>5 DEF OnceInitialised
<1>6. CASE OnceStore(t)
    BY <1>6 DEF OnceStore
<1>7. CASE OnceWake(t)
    BY <1>7 DEF OnceWake, FutexWakeAll
<1> QED
    BY <1>1, <1>2, <1>3, <1>4, <1>5, <1>6, <1>7 DEF OnceStep

\* One thread runs the initialiser, nobody starts it a second time, and a
\* sleeper has somebody who will wake it: each step of pthread_once keeps this.
LEMMA OnceStepSafe ==
    ASSUME OnceTypeOK, OnceOK, NEW t \in Threads, OnceStep(t)
    PROVE  OnceOK'
<1> USE DEF OnceTypeOK, OnceOK, At, Steps, INITIALIZING, COMPLETED
<1>1. CASE OnceCall(t)
    BY <1>1 DEF OnceCall
<1>2. CASE OnceTry(t)
    BY <1>2 DEF OnceTry
<1>3. CASE OnceWait(t)
    BY <1>3 DEF OnceWait, FutexSleeps
<1>4. CASE OnceAwake(t)
    BY <1>4 DEF OnceAwake
<1>5. CASE OnceInitialised(t)
    BY <1>5 DEF OnceInitialised
<1>6. CASE OnceStore(t)
    BY <1>6 DEF OnceStore
<1>7. CASE OnceWake(t)
    BY <1>7 DEF OnceWake, FutexWakeAll
<1> QED
    BY <1>1, <1>2, <1>3, <1>4, <1>5, <1>6, <1>7 DEF OnceStep

\* A step of anybody that leaves the word alone keeps what is said about it.
LEMMA OnceStutters ==
    ASSUME OnceTypeOK, OnceOK, UNCHANGED onceVars
    PROVE  OnceTypeOK' /\ OnceOK'
BY DEF OnceTypeOK, OnceOK, onceVars

----------------------------------------------------------------------------
\* The steps in which a call of the program begins or continues.
LEMMA ContinueIInv ==
    ASSUME IInv, NEW t \in Threads, Continue(t)
    PROVE  IInv'
<1> USE DEF IInv, ThreadTypes, GuardOK
<1>1. CASE OnceSteps(t)
  <2>1. OnceStep(t) /\ UNCHANGED <<table, pc, handles>>
      BY <1>1 DEF OnceSteps, OnceRun, OnceStep, tableVars
  <2>2. OnceTypeOK' /\ OnceOK'
      BY <2>1, OnceStepTyped, OnceStepSafe
  <2>3. ~OnceCall(t) /\ ~OnceInitialised(t)
      BY <1>1 DEF OnceSteps, OnceRun, OnceCall, OnceInitialised, OnceTry, OnceWait, OnceStore, OnceWake, OnceAwake
  <2>4. GuardOK'
    <3> USE DEF OnceTypeOK, OnceOK, At, Steps, INITIALIZING, COMPLETED
    <3>1. CASE OnceTry(t)
        BY <2>1, <3>1 DEF OnceTry
    <3>2. CASE OnceWait(t)
        BY <2>1, <3>2 DEF OnceWait
    <3>3. CASE OnceAwake(t)
        BY <2>1, <3>3 DEF OnceAwake
    <3>4. CASE OnceStore(t)
        BY <2>1, <3>4 DEF OnceStore
    <3>5. CASE OnceWake(t)
        BY <2>1, <3>5 DEF OnceWake
    <3> QED
        BY <2>1, <2>3, <3>1, <3>2, <3>3, <3>4, <3>5 DEF OnceStep
  <2> QED
      BY <2>1, <2>2, <2>4
<1>2. CASE TableCalloc(t)
    BY <1>2, OnceStutters DEF TableCalloc, onceVars
<1>3. CASE TableCallocFails(t) \/ TableInit(t)
  <2>1. OnceInitialised(t) /\ UNCHANGED <<pc, handles>> /\ table' # "raw"
      BY <1>3 DEF TableCallocFails, TableInit, tableVars
  <2>2. OnceTypeOK' /\ OnceOK'
      BY <2>1, OnceStepTyped, OnceStepSafe DEF OnceStep
  <2> QED
      BY <2>1, <2>2 DEF OnceInitialised, At, OnceTypeOK, Steps
<1>4. CASE Alloc(t) \/ AllocFails(t) \/ Setup(t) \/ Spawn(t)
  <2>1. UNCHANGED <<onceVars, table>> /\ step[t] = "out"
      BY <1>4 DEF Alloc, AllocFails, Setup, Spawn, Got, tableVars
  <2>2. /\ pc[t] \in {"alloc", "setup", "spawn"}
        /\ \E l \in {"idle", "setup", "spawn"} : pc' = [pc EXCEPT ![t] = l]
      BY <1>4 DEF Alloc, AllocFails, Setup, Spawn, Return, Goto
  <2>3. handles' = handles \/ once = COMPLETED
      BY <1>4, <2>1, <2>2 DEF Alloc, AllocFails, Setup, Spawn
  <2> QED
      BY <2>1, <2>2, <2>3, OnceStutters DEF onceVars, Calls
<1>5. CASE MarkDone(t) \/ SetSignal(t) \/ \E e \in Times, p \in BOOLEAN : SetWrite(t, e, p)
  <2>1. UNCHANGED <<onceVars, table, handles>>
      BY <1>5 DEF MarkDone, SetSignal, SetWrite, tableVars
  <2>2. /\ pc[t] \in {"mark", "signal", "settime"}
        /\ \E l \in {"idle", "signal"} : pc' = [pc EXCEPT ![t] = l]
      BY <1>5 DEF MarkDone, SetSignal, SetWrite, Return, Goto
  <2> QED
      BY <2>1, <2>2, OnceStutters DEF onceVars, Calls
<1>6. CASE ForkReturns(t)
  <2>1. CASE table = "null"
    <3>1. UNCHANGED <<onceVars, table, handles>> /\ pc' = [pc EXCEPT ![t] = "idle"]
        BY <1>6, <2>1 DEF ForkReturns, StartStop, Goto, tableVars
    <3> QED
        BY <1>6, <3>1, OnceStutters DEF ForkReturns, onceVars, Calls
  <2>2. CASE table # "null"
    <3>1. OnceCall(t) /\ UNCHANGED <<table, handles>> /\ pc' = [pc EXCEPT ![t] = "table"]
        BY <1>6, <2>2 DEF ForkReturns, StartStop, Goto, tableVars
    <3>2. OnceTypeOK' /\ OnceOK'
        BY <3>1, OnceStepTyped, OnceStepSafe DEF OnceStep
    <3> QED
        BY <3>1, <3>2 DEF OnceCall, At, OnceTypeOK, Steps, Calls
  <2> QED
      BY <2>1, <2>2
<1>7. CASE WalkBegins(t) \/ WalkEnds(t) \/ \E s \in Slots : Visit(t, s)
  <2>1. UNCHANGED <<onceVars, table, handles>>
      BY <1>7 DEF WalkBegins, WalkEnds, Visit, tableVars
  <2>2. \/ pc' = pc
        \/ /\ pc[t] \in {"table", "walk"} /\ step[t] = "out"
           /\ \E l \in {"walk", "fork", "idle"} : pc' = [pc EXCEPT ![t] = l]
      BY <1>7 DEF WalkBegins, WalkEnds, Visit, Goto, Got
  <2> QED
      BY <2>1, <2>2, OnceStutters DEF onceVars, Calls
<1> QED
    BY <1>1, <1>2, <1>3, <1>4, <1>5, <1>6, <1>7 DEF Continue

\* The steps in which the program calls timer_create, timer_delete,
\* timer_settime or fork.
LEMMA ClientIInv ==
    ASSUME IInv, NEW t \in Threads, Client(t)
    PROVE  IInv'
<1> USE DEF IInv, ThreadTypes, GuardOK
<1>1. CASE TimerCreate(t)
  <2>1. OnceCall(t) /\ UNCHANGED <<table, handles>> /\ pc' = [pc EXCEPT ![t] = "alloc"]
      BY <1>1 DEF TimerCreate, Goto, tableVars
  <2>2. OnceTypeOK' /\ OnceOK'
      BY <2>1, OnceStepTyped, OnceStepSafe DEF OnceStep
  <2> QED
      BY <2>1, <2>2 DEF OnceCall, At, OnceTypeOK, Steps, Calls
<1>2. CASE Fork(t)
  <2>1. CASE table = "null"
    <3>1. UNCHANGED <<onceVars, table, handles>> /\ pc' = [pc EXCEPT ![t] = "fork"]
        BY <1>2, <2>1 DEF Fork, StartStop, Goto, tableVars
    <3> QED
        BY <1>2, <3>1, OnceStutters DEF Fork, Got, onceVars, Calls
  <2>2. CASE table # "null"
    <3>1. OnceCall(t) /\ UNCHANGED <<table, handles>> /\ pc' = [pc EXCEPT ![t] = "table"]
        BY <1>2, <2>2 DEF Fork, StartStop, Goto, tableVars
    <3>2. OnceTypeOK' /\ OnceOK'
        BY <3>1, OnceStepTyped, OnceStepSafe DEF OnceStep
    <3> QED
        BY <3>1, <3>2 DEF OnceCall, At, OnceTypeOK, Steps, Calls
  <2> QED
      BY <2>1, <2>2
<1>3. CASE \E s \in Slots : TimerDelete(t, s) \/ TimerSettime(t, s)
  <2>1. UNCHANGED <<onceVars, table>> /\ step[t] = "out"
      BY <1>3 DEF TimerDelete, TimerSettime, Got, tableVars
  <2>2. handles # {} /\ \E l \in {"mark", "settime"} : pc' = [pc EXCEPT ![t] = l]
      BY <1>3 DEF TimerDelete, TimerSettime, Goto
  <2> QED
      BY <2>1, <2>2, OnceStutters DEF onceVars, Calls
<1> QED
    BY <1>1, <1>2, <1>3 DEF Client

\* The threads of the timers, the clock and signals touch neither the word nor
\* the pointer to the table.
LEMMA OthersIInv ==
    ASSUME IInv,
           \/ \E s \in Slots : WorkerRun(s) \/ Interrupted(s) \/ Elapse(s)
           \/ UNCHANGED vars
    PROVE  IInv'
<1>1. UNCHANGED <<onceVars, table, pc, handles>>
  <2>1. CASE UNCHANGED vars
      BY <2>1 DEF vars, tableVars
  <2>2. ASSUME NEW s \in Slots, WorkerRun(s) \/ Interrupted(s) \/ Elapse(s)
        PROVE  UNCHANGED <<onceVars, table, pc, handles>>
      BY <2>2 DEF WorkerRun, WorkerStops, WorkerWaits, WorkerWaitsTimed, WorkerOverrun, WorkerFires,
                  TimedOut, CallbackReturns, WorkerFrees, Interrupted, Elapse, tableVars
  <2> QED
      BY <2>1, <2>2
<1> QED
    BY <1>1, OnceStutters DEF IInv, ThreadTypes, GuardOK, onceVars

\* Every step of the program, its timers, the clock and signals keeps the invariant.
LEMMA NextIInv == IInv /\ [Next]_vars => IInv'
<1> SUFFICES ASSUME IInv, [Next]_vars PROVE IInv'
    OBVIOUS
<1>1. ASSUME NEW t \in Threads, InterruptedInOnce(t) PROVE IInv'
  <2>1. OnceAwake(t) /\ UNCHANGED <<table, pc, handles>>
      BY <1>1 DEF InterruptedInOnce, OnceInterrupted, tableVars
  <2>2. OnceTypeOK' /\ OnceOK'
      BY <2>1, OnceStepTyped, OnceStepSafe DEF IInv, ThreadTypes, OnceStep
  <2> QED
      BY <2>1, <2>2 DEF IInv, ThreadTypes, GuardOK, OnceAwake, At, OnceTypeOK, Steps
<1> QED
    BY <1>1, ContinueIInv, ClientIInv, OthersIInv DEF Next

\* In every behaviour the word of pthread_once tells who runs the initialiser,
\* and the table is only used once it is ready.
THEOREM Invariance == Spec => []IInv
BY InitIInv, NextIInv, PTL DEF Spec

\* pthread_once runs the initialiser of the timer table once, lets no call past
\* before it has returned, and leaves no sleeper without somebody to wake it;
\* no call touches a table that is allocated and not filled in.
THEOREM TableGuarded == Spec => []TableReadyBeforeUse
<1>1. IInv => TableReadyBeforeUse
    BY DEF IInv, GuardOK, OnceOK, TableReadyBeforeUse
<1> QED
    BY <1>1, Invariance, PTL

----------------------------------------------------------------------------
(* The free list.                                                          *)

\* What is left once the first slot is taken off a list without repetitions.
LEMMA TakenOff ==
    ASSUME NEW S, NEW q \in Seq(S), IsInjective(q), q # <<>>
    PROVE  /\ Head(q) \in S /\ Head(q) \in Range(q)
           /\ Tail(q) \in Seq(S) /\ IsInjective(Tail(q))
           /\ \A s \in S : s \in Range(Tail(q)) <=> s \in Range(q) /\ s # Head(q)
<1>1. /\ Len(q) \in Nat \ {0} /\ DOMAIN q = 1 .. Len(q)
      /\ Head(q) = q[1] /\ \A i \in 1 .. Len(q) : q[i] \in S
    OBVIOUS
<1>2. /\ Tail(q) \in Seq(S) /\ DOMAIN Tail(q) = 1 .. Len(q) - 1
      /\ \A i \in 1 .. Len(q) - 1 : Tail(q)[i] = q[i + 1]
    OBVIOUS
<1>3. IsInjective(Tail(q))
    BY <1>1, <1>2 DEF IsInjective
<1>4. ASSUME NEW s \in S, s \in Range(Tail(q))
      PROVE  s \in Range(q) /\ s # Head(q)
  <2>1. PICK i \in 1 .. Len(q) - 1 : s = q[i + 1]
    BY <1>2, <1>4 DEF Range
  <2>2. i + 1 \in DOMAIN q /\ i + 1 # 1 /\ 1 \in DOMAIN q
    BY <1>1
  <2>3. QED
    BY <1>1, <2>1, <2>2 DEF Range, IsInjective
<1>5. ASSUME NEW s \in S, s \in Range(q), s # Head(q)
      PROVE  s \in Range(Tail(q))
  <2>1. PICK i \in 1 .. Len(q) : s = q[i]
    BY <1>1, <1>5 DEF Range
  <2>2. i - 1 \in 1 .. Len(q) - 1
    BY <1>1, <1>5, <2>1
  <2>3. Tail(q)[i - 1] = q[i]
    BY <1>2, <2>2
  <2>4. QED
    BY <1>2, <2>1, <2>2, <2>3 DEF Range
<1>6. Head(q) \in Range(q)
    BY <1>1 DEF Range
<1>7. QED
    BY <1>1, <1>2, <1>3, <1>4, <1>5, <1>6

\* A slot that is not on the list is put in front of it.
LEMMA PutBack ==
    ASSUME NEW S, NEW q \in Seq(S), IsInjective(q), NEW s \in S, s \notin Range(q)
    PROVE  /\ <<s>> \o q \in Seq(S) /\ IsInjective(<<s>> \o q)
           /\ \A r \in S : r \in Range(<<s>> \o q) <=> r = s \/ r \in Range(q)
<1> DEFINE p == <<s>> \o q
<1>1. /\ Len(q) \in Nat /\ DOMAIN q = 1 .. Len(q)
    OBVIOUS
<1>2. /\ p \in Seq(S) /\ DOMAIN p = 1 .. Len(q) + 1
      /\ p[1] = s /\ \A i \in 1 .. Len(q) : p[i + 1] = q[i]
    OBVIOUS
<1> HIDE DEF p
<1>3. \A i \in DOMAIN p : i = 1 \/ (i - 1 \in 1 .. Len(q) /\ p[i] = q[i - 1])
  <2> SUFFICES ASSUME NEW i \in DOMAIN p, i # 1
               PROVE  i - 1 \in 1 .. Len(q) /\ p[i] = q[i - 1]
    OBVIOUS
  <2>1. i \in Nat /\ i - 1 \in 1 .. Len(q) /\ (i - 1) + 1 = i
    BY <1>1, <1>2
  <2>2. p[(i - 1) + 1] = q[i - 1]
    BY <1>2, <2>1
  <2>3. QED
    BY <2>1, <2>2
<1>4. \A i \in 1 .. Len(q) : q[i] \in Range(q)
    BY <1>1 DEF Range
<1>5. ASSUME NEW a \in DOMAIN p, NEW b \in DOMAIN p, p[a] = p[b]
      PROVE  a = b
  <2>1. CASE a = 1 /\ b # 1
    BY <1>2, <1>3, <1>4, <1>5, <2>1
  <2>2. CASE a # 1 /\ b = 1
    BY <1>2, <1>3, <1>4, <1>5, <2>2
  <2>3. CASE a # 1 /\ b # 1
    <3>1. q[a - 1] = q[b - 1] /\ a - 1 \in DOMAIN q /\ b - 1 \in DOMAIN q
      BY <1>1, <1>3, <1>5, <2>3
    <3>2. a - 1 = b - 1 /\ a \in Nat /\ b \in Nat
      BY <1>1, <1>2, <3>1 DEF IsInjective
    <3>3. QED
      BY <3>2
  <2>4. QED
    BY <2>1, <2>2, <2>3
<1>6. IsInjective(p)
    BY <1>5 DEF IsInjective
<1>7. ASSUME NEW r \in S
      PROVE  r \in Range(p) <=> r = s \/ r \in Range(q)
  <2>1. r \in Range(p) => r = s \/ r \in Range(q)
    BY <1>2, <1>3, <1>4 DEF Range
  <2>2. s \in Range(p)
    BY <1>1, <1>2 DEF Range
  <2>3. ASSUME r \in Range(q)
        PROVE  r \in Range(p)
    <3>1. PICK i \in 1 .. Len(q) : r = q[i]
      BY <1>1, <2>3 DEF Range
    <3>2. i + 1 \in DOMAIN p /\ p[i + 1] = r
      BY <1>1, <1>2, <3>1
    <3>3. QED
      BY <3>2 DEF Range
  <2>4. QED
    BY <2>1, <2>2, <2>3
<1>8. QED
    BY <1>2, <1>6, <1>7 DEF p

----------------------------------------------------------------------------
(* The slots.  To know that a slot that is taken off the free list has no  *)
(* other user, the invariant follows a slot through its life: a creation   *)
(* that owns it, a thread that runs and is not told to end as long as the  *)
(* program has the id or timer_delete is under way, and the thread's last  *)
(* step, which alone puts the slot back.                                   *)

Creating == {"setup", "spawn"}

Using == Creating \cup {"mark", "settime", "signal"}

\* The thread of slot s exists and has not been told to end.
Alive(s) == worker[s] \notin {"none", "exit"} /\ ~done[s]

FreeOK ==
    /\ IsInjective(free)
    /\ table # "ready" =>
          /\ free = <<>>
          /\ \A s \in Slots : worker[s] = "none"
          /\ \A t \in Threads : pc[t] \notin Creating
    /\ table = "ready" =>
          \A s \in Slots :
             s \in Range(free) <=> /\ worker[s] = "none"
                                   /\ \A t \in Threads : pc[t] \in Creating => slot[t] # s

CallsOK ==
    \A t \in Threads :
        /\ pc[t] \in Using => slot[t] \in Slots
        /\ pc[t] \in Creating => worker[slot[t]] = "none"
        /\ pc[t] = "spawn" => ~done[slot[t]]
        /\ pc[t] = "mark" => slot[t] \notin handles /\ Alive(slot[t])

HandlesOK == \A s \in handles : Alive(s)

\* No two calls that create or delete a timer are about the same slot.
Apart ==
    \A t, u \in Threads :
        /\ pc[t] \in Creating \cup {"mark"} /\ pc[u] \in Creating \cup {"mark"}
        /\ slot[t] = slot[u]
        => t = u

SlotInv == FreeOK /\ CallsOK /\ HandlesOK /\ Apart

SInv == IInv /\ TypeOK /\ SlotInv

LEMMA InitSInv == Init => SInv
<1> SUFFICES ASSUME Init PROVE SInv
    OBVIOUS
<1>1. TypeOK
    BY InitIInv, SlotsAssumption
    DEF Init, IInv, ThreadTypes, TypeOK, Times, Workers, Copies, Nothing
<1>2. SlotInv
    BY DEF Init, SlotInv, FreeOK, CallsOK, HandlesOK, Apart, Creating, Using, IsInjective
<1>3. QED
    BY <1>1, <1>2, InitIInv DEF SInv

----------------------------------------------------------------------------
(* Types.                                                                  *)

LEMMA CopyFacts ==
    /\ Nothing \in Copies
    /\ \A c \in Copies, b \in BOOLEAN : [c EXCEPT !.stale = b] \in Copies
    /\ \A b \in BOOLEAN : [again |-> b, stale |-> FALSE] \in Copies
<1>1. Nothing \in Copies
    BY DEF Nothing, Copies
<1>2. ASSUME NEW c \in Copies, NEW b \in BOOLEAN
      PROVE  [c EXCEPT !.stale = b] \in Copies
    BY DEF Copies
<1>3. ASSUME NEW b \in BOOLEAN
      PROVE  [again |-> b, stale |-> FALSE] \in Copies
    BY DEF Copies
<1>4. QED
    BY <1>1, <1>2, <1>3

\* pthread_cond_signal moves a waiting thread of a timer to the mutex.
LEMMA SignalFacts ==
    ASSUME worker \in [Slots -> Workers], copy \in [Slots -> Copies], NEW s \in Slots, Signal(s)
    PROVE  /\ worker' \in [Slots -> Workers] /\ copy' \in [Slots -> Copies]
           /\ \A r \in Slots : \/ worker'[r] = worker[r]
                               \/ worker[r] \in {"asleep", "timed"} /\ worker'[r] = "lock"
BY CopyFacts DEF Signal, Workers

LEMMA CallTyped ==
    ASSUME SInv, IInv', NEW t \in Threads, Continue(t) \/ Client(t) \/ InterruptedInOnce(t)
    PROVE  TypeOK'
<1>0. OnceTypeOK' /\ pc' \in [Threads -> Calls]
    BY DEF IInv, ThreadTypes
<1> USE <1>0 DEF TypeOK
<1>1. CASE UNCHANGED <<tableVars, flags, settings, overruns, worker, copy, slot, stop, handles>>
    BY <1>1 DEF SInv, tableVars, flags, settings
<1>2. CASE TableCalloc(t)
    BY <1>2 DEF TableCalloc, SInv, flags, settings
<1>3. CASE TableInit(t)
  <2>1. free' \in Seq(Slots)
    BY <1>3, SlotsAssumption DEF TableInit, Slots
  <2>2. QED
    BY <1>3, <2>1 DEF TableInit, SInv, flags, settings
<1>4. CASE AllocFails(t)
    BY <1>4 DEF AllocFails, Return, SInv, tableVars, flags, settings
<1>5. CASE Alloc(t)
  <2>1. Head(free) \in Slots /\ Tail(free) \in Seq(Slots)
    BY <1>5, TakenOff DEF Alloc, SInv, SlotInv, FreeOK
  <2>2. QED
    BY <1>5, <2>1 DEF Alloc, SInv, flags, settings
<1>6. CASE Setup(t)
  <2>1. done' \in [Slots -> BOOLEAN] /\ stopped' \in [Slots -> BOOLEAN]
    BY <1>6 DEF Setup, SInv
  <2>2. expires' \in [Slots -> Times]
    BY <1>6 DEF Setup, SInv, Times
  <2>3. period' \in [Slots -> BOOLEAN]
    BY <1>6 DEF Setup, SInv
  <2>4. overruns' \in [Slots -> 0 .. DELAYTIMER_MAX]
    <3>1. overruns \in [Slots -> 0 .. DELAYTIMER_MAX] /\ 0 \in 0 .. DELAYTIMER_MAX
      BY SlotsAssumption DEF SInv
    <3>2. overruns' = [overruns EXCEPT ![slot[t]] = 0]
      BY <1>6 DEF Setup
    <3>3. QED
      BY <3>1, <3>2
  <2>5. QED
    BY <1>6, <2>1, <2>2, <2>3, <2>4 DEF Setup, SInv, tableVars
<1>7. CASE Spawn(t)
  <2>1. slot[t] \in Slots
    BY <1>7 DEF Spawn, SInv, SlotInv, CallsOK, Using, Creating
  <2>2. QED
    BY <1>7, <2>1 DEF Spawn, Return, SInv, tableVars, flags, settings, Workers
<1>8. CASE MarkDone(t)
  <2>1. slot[t] \in Slots
    BY <1>8 DEF MarkDone, SInv, SlotInv, CallsOK, Using, Creating
  <2>2. worker' \in [Slots -> Workers] /\ copy' \in [Slots -> Copies]
    BY <1>8, <2>1, SignalFacts DEF MarkDone, SInv
  <2>3. QED
    BY <1>8, <2>2 DEF MarkDone, Return, SInv, tableVars, settings
<1>9. CASE SetSignal(t)
  <2>1. slot[t] \in Slots
    BY <1>9 DEF SetSignal, SInv, SlotInv, CallsOK, Using, Creating
  <2>2. worker' \in [Slots -> Workers] /\ copy' \in [Slots -> Copies]
    BY <1>9, <2>1, SignalFacts DEF SetSignal, SInv
  <2>3. QED
    BY <1>9, <2>2 DEF SetSignal, Return, SInv, tableVars, flags, settings
<1>10. ASSUME NEW e \in Times, NEW p \in BOOLEAN, SetWrite(t, e, p)
       PROVE  TypeOK'
  <2>1. slot[t] \in Slots
    BY <1>10 DEF SetWrite, SInv, SlotInv, CallsOK, Using, Creating
  <2>2. copy' \in [Slots -> Copies]
    <3> DEFINE b == worker[slot[t]] \in {"timed", "expired"}
    <3>0. b \in BOOLEAN
      OBVIOUS
    <3>1. copy' = [copy EXCEPT ![slot[t]] = [copy[slot[t]] EXCEPT !.stale = b]]
      BY <1>10 DEF SetWrite
    <3> HIDE DEF b
    <3>2. copy \in [Slots -> Copies] /\ copy[slot[t]] \in Copies
      BY <2>1 DEF SInv
    <3>3. [copy[slot[t]] EXCEPT !.stale = b] \in Copies
      BY <3>0, <3>2, CopyFacts
    <3>4. QED
      BY <3>1, <3>2, <3>3
  <2>3. QED
    BY <1>10, <2>2 DEF SetWrite, SInv, tableVars, flags
<1>11. CASE Fork(t) \/ ForkReturns(t)
    BY <1>11 DEF Fork, ForkReturns, StartStop, SInv, tableVars, flags, settings
<1>12. CASE WalkBegins(t) \/ WalkEnds(t)
    BY <1>12 DEF WalkBegins, WalkEnds, SInv, flags, settings
<1>13. ASSUME NEW s \in Slots, Visit(t, s)
       PROVE  TypeOK'
  <2>1. worker' \in [Slots -> Workers] /\ copy' \in [Slots -> Copies]
    BY <1>13, SignalFacts DEF Visit, SInv
  <2>2. QED
    BY <1>13, <2>1 DEF Visit, SInv, tableVars, settings
<1>14. ASSUME NEW s \in Slots, TimerDelete(t, s) \/ TimerSettime(t, s)
       PROVE  TypeOK'
    BY <1>14 DEF TimerDelete, TimerSettime, SInv, tableVars, flags, settings
<1>15. QED
    BY <1>1, <1>2, <1>3, <1>4, <1>5, <1>6, <1>7, <1>8, <1>9, <1>10, <1>11, <1>12, <1>13, <1>14
    DEF Continue, Client, OnceSteps, InterruptedInOnce, TableCallocFails, TimerCreate

LEMMA WorkerTyped ==
    ASSUME SInv, IInv', NEW s \in Slots, WorkerRun(s) \/ Interrupted(s) \/ Elapse(s)
    PROVE  TypeOK'
<1>0. OnceTypeOK' /\ pc' \in [Threads -> Calls]
    BY DEF IInv, ThreadTypes
<1> USE <1>0 DEF TypeOK
<1>1. CASE WorkerStops(s) \/ WorkerWaits(s) \/ WorkerWaitsTimed(s)
  <2>1. overruns' \in [Slots -> 0 .. DELAYTIMER_MAX]
    <3>1. overruns \in [Slots -> 0 .. DELAYTIMER_MAX] /\ 0 \in 0 .. DELAYTIMER_MAX
      BY SlotsAssumption DEF SInv
    <3>2. overruns' = [overruns EXCEPT ![s] = 0]
      BY <1>1 DEF WorkerStops, WorkerWaits, WorkerWaitsTimed, AtTop
    <3>3. QED
      BY <3>1, <3>2
  <2>2. worker' \in [Slots -> Workers]
    BY <1>1 DEF WorkerStops, WorkerWaits, WorkerWaitsTimed, Work, SInv, Workers
  <2>3. copy' \in [Slots -> Copies]
    <3>1. CASE WorkerWaitsTimed(s)
      <4>1. period[s] \in BOOLEAN /\ copy \in [Slots -> Copies]
        BY DEF SInv
      <4>2. [again |-> period[s], stale |-> FALSE] \in Copies
        BY <4>1, CopyFacts
      <4>3. QED
        BY <3>1, <4>1, <4>2 DEF WorkerWaitsTimed
    <3>2. QED
      BY <1>1, <3>1 DEF WorkerStops, WorkerWaits, SInv
  <2>4. QED
    BY <1>1, <2>1, <2>2, <2>3
    DEF WorkerStops, WorkerWaits, WorkerWaitsTimed, SInv, tableVars, flags, settings
<1>2. CASE WorkerOverrun(s)
  <2>1. overruns' \in [Slots -> 0 .. DELAYTIMER_MAX]
    BY <1>2, SlotsAssumption DEF WorkerOverrun, SInv
  <2>2. QED
    BY <1>2, <2>1 DEF WorkerOverrun, Reloaded, Work, SInv, tableVars, flags, Workers, Times
<1>3. CASE WorkerFires(s)
    BY <1>3 DEF WorkerFires, Reloaded, Work, SInv, tableVars, flags, Workers, Times, Copies, Nothing
<1>4. CASE TimedOut(s) \/ CallbackReturns(s)
    BY <1>4 DEF TimedOut, CallbackReturns, Work, SInv, tableVars, flags, settings, Workers
<1>5. CASE WorkerFrees(s)
  <2>1. s \notin Range(free)
    BY <1>5 DEF WorkerFrees, SInv, SlotInv, FreeOK
  <2>2. free' \in Seq(Slots)
    BY <1>5, <2>1, PutBack DEF WorkerFrees, SInv, SlotInv, FreeOK
  <2>3. QED
    BY <1>5, <2>2 DEF WorkerFrees, Work, SInv, Workers, Times
<1>6. CASE Interrupted(s)
  <2>1. worker' \in [Slots -> Workers] /\ copy' \in [Slots -> Copies]
    BY <1>6, SignalFacts DEF Interrupted, SInv
  <2>2. QED
    BY <1>6, <2>1 DEF Interrupted, SInv, tableVars, flags, settings
<1>7. CASE Elapse(s)
    BY <1>7 DEF Elapse, SInv, tableVars, flags, Times
<1>8. QED
    BY <1>1, <1>2, <1>3, <1>4, <1>5, <1>6, <1>7 DEF WorkerRun

----------------------------------------------------------------------------
(* The steps.                                                              *)

\* What the invariant says of one thread and of the slots.
LEMMA SlotFacts ==
    ASSUME SInv
    PROVE  /\ free \in Seq(Slots) /\ worker \in [Slots -> Workers] /\ copy \in [Slots -> Copies]
           /\ done \in [Slots -> BOOLEAN] /\ slot \in [Threads -> Slots \cup {0}]
           /\ pc \in [Threads -> Calls] /\ handles \subseteq Slots
           /\ FreeOK /\ CallsOK /\ HandlesOK /\ Apart
BY DEF SInv, TypeOK, SlotInv

\* A step that moves no slot between its owners: nobody starts to create or
\* delete a timer or stops doing so, and no thread of a timer begins or ends.
LEMMA QuietStep ==
    ASSUME SInv, UNCHANGED <<free, handles, done>>, table' = "ready" <=> table = "ready",
           \A t \in Threads :
               /\ pc[t] \in Creating \cup {"mark"} \/ pc'[t] \in Creating \cup {"mark"} =>
                     pc'[t] = pc[t] /\ slot'[t] = slot[t]
               /\ pc'[t] \in Using => slot'[t] \in Slots,
           \A s \in Slots : \/ worker'[s] = worker[s]
                            \/ worker[s] \notin {"none", "exit"} /\ worker'[s] \notin {"none", "exit"}
    PROVE  SlotInv'
<1>1. \A s \in Slots : /\ worker'[s] = "none" <=> worker[s] = "none"
                       /\ Alive(s) => Alive(s)'
    BY DEF Alive
<1>2. \A t \in Threads : /\ pc'[t] \in Creating <=> pc[t] \in Creating
                         /\ pc[t] \in Creating => slot'[t] = slot[t]
    OBVIOUS
<1>3. FreeOK'
  <2>1. IsInjective(free)'
    BY SlotFacts DEF FreeOK
  <2>2. CASE table = "ready"
    <3>1. ASSUME NEW s \in Slots
          PROVE  s \in Range(free') <=>
                    /\ worker'[s] = "none"
                    /\ \A t \in Threads : pc'[t] \in Creating => slot'[t] # s
      <4>1. s \in Range(free) <=> /\ worker[s] = "none"
                                  /\ \A t \in Threads : pc[t] \in Creating => slot[t] # s
        BY <2>2, SlotFacts DEF FreeOK
      <4>2. QED
        BY <1>1, <1>2, <4>1
    <3>2. QED
      BY <2>1, <2>2, <3>1 DEF FreeOK
  <2>3. CASE table # "ready"
    BY <1>1, <1>2, <2>1, <2>3, SlotFacts DEF FreeOK
  <2>4. QED
    BY <2>2, <2>3
<1>4. CallsOK'
  <2> SUFFICES ASSUME NEW t \in Threads
               PROVE  /\ pc'[t] \in Using => slot'[t] \in Slots
                      /\ pc'[t] \in Creating => worker'[slot'[t]] = "none"
                      /\ pc'[t] = "spawn" => ~done'[slot'[t]]
                      /\ pc'[t] = "mark" => slot'[t] \notin handles' /\ Alive(slot[t])'
    BY DEF CallsOK
  <2>1. /\ pc[t] \in Using => slot[t] \in Slots
        /\ pc[t] \in Creating => worker[slot[t]] = "none"
        /\ pc[t] = "spawn" => ~done[slot[t]]
        /\ pc[t] = "mark" => slot[t] \notin handles /\ Alive(slot[t])
    BY SlotFacts DEF CallsOK
  <2>2. CASE pc'[t] \in Creating
    BY <1>1, <2>1, <2>2 DEF Creating, Using
  <2>3. CASE pc'[t] = "mark"
    <3>1. slot'[t] = slot[t] /\ slot[t] \in Slots /\ Alive(slot[t]) /\ slot[t] \notin handles
      BY <2>1, <2>3 DEF Using
    <3>2. worker'[slot[t]] \notin {"none", "exit"} /\ ~done'[slot[t]]
      BY <1>1, <3>1 DEF Alive
    <3>3. QED
      BY <2>3, <3>1, <3>2 DEF Alive, Creating
  <2>4. QED
    BY <2>2, <2>3 DEF Creating
<1>5. HandlesOK'
    BY <1>1, SlotFacts DEF HandlesOK
<1>6. Apart'
    BY SlotFacts DEF Apart
<1>7. QED
    BY <1>3, <1>4, <1>5, <1>6 DEF SlotInv

\* The threads of the timers, except for their last two steps; the clock.
LEMMA WorkerQuiet ==
    ASSUME SInv, NEW s \in Slots,
           \/ WorkerWaits(s) \/ WorkerWaitsTimed(s) \/ WorkerOverrun(s) \/ WorkerFires(s)
           \/ TimedOut(s) \/ CallbackReturns(s) \/ Interrupted(s) \/ Elapse(s)
    PROVE  SlotInv'
<1>1. UNCHANGED <<free, table, handles, done, pc, slot>>
    BY DEF WorkerWaits, WorkerWaitsTimed, WorkerOverrun, WorkerFires, TimedOut, CallbackReturns,
       Interrupted, Elapse, tableVars, flags
<1>2. \A r \in Slots : \/ worker'[r] = worker[r]
                       \/ worker[r] \notin {"none", "exit"} /\ worker'[r] \notin {"none", "exit"}
  <2>1. CASE Interrupted(s)
    BY <2>1, SlotFacts, SignalFacts DEF Interrupted
  <2>2. CASE Elapse(s)
    BY <2>2 DEF Elapse
  <2>3. QED
    BY <2>1, <2>2, SlotFacts
    DEF WorkerWaits, WorkerWaitsTimed, WorkerOverrun, WorkerFires, TimedOut, CallbackReturns,
        AtTop, Work
<1>3. \A t \in Threads : pc[t] \in Using => slot[t] \in Slots
    BY SlotFacts DEF CallsOK
<1>4. QED
    BY <1>1, <1>2, <1>3, QuietStep

\* The steps of a call that only moves the caller.
LEMMA CallQuiet ==
    ASSUME SInv, NEW t \in Threads,
           \/ OnceSteps(t) \/ InterruptedInOnce(t) \/ TableCalloc(t) \/ TableCallocFails(t)
           \/ TimerCreate(t) \/ AllocFails(t) \/ SetSignal(t) \/ Fork(t) \/ ForkReturns(t)
           \/ WalkBegins(t) \/ WalkEnds(t)
           \/ \E e \in Times, p \in BOOLEAN : SetWrite(t, e, p)
           \/ \E s \in Slots : Visit(t, s) \/ TimerSettime(t, s)
    PROVE  SlotInv'
<1>1. UNCHANGED <<free, handles, done>> /\ (table' = "ready" <=> table = "ready")
    BY DEF OnceSteps, InterruptedInOnce, TableCalloc, TableCallocFails, TimerCreate, AllocFails,
       SetSignal, Fork, ForkReturns, WalkBegins, WalkEnds, SetWrite, Visit, TimerSettime,
       tableVars, flags
<1>2. \A r \in Slots : \/ worker'[r] = worker[r]
                       \/ worker[r] \notin {"none", "exit"} /\ worker'[r] \notin {"none", "exit"}
  <2>1. CASE SetSignal(t)
    <3>1. slot[t] \in Slots /\ Signal(slot[t])
      BY <2>1, SlotFacts DEF SetSignal, CallsOK, Using
    <3>2. QED
      BY <3>1, SlotFacts, SignalFacts
  <2>2. CASE \E s \in Slots : Visit(t, s)
    BY <2>2, SlotFacts, SignalFacts DEF Visit
  <2>3. QED
    BY <2>1, <2>2
    DEF OnceSteps, InterruptedInOnce, TableCalloc, TableCallocFails, TimerCreate, AllocFails,
       Fork, ForkReturns, WalkBegins, WalkEnds, SetWrite, TimerSettime
<1>3. \A u \in Threads \ {t} : pc'[u] = pc[u] /\ slot'[u] = slot[u]
    BY SlotFacts
    DEF OnceSteps, InterruptedInOnce, TableCalloc, TableCallocFails, TimerCreate, AllocFails,
       SetSignal, Fork, ForkReturns, StartStop, WalkBegins, WalkEnds, SetWrite, Visit, TimerSettime,
       Return, Goto
<1>4. \/ pc'[t] = pc[t] /\ slot'[t] = slot[t]
      \/ /\ pc[t] \notin Creating \cup {"mark"} /\ pc'[t] \notin Creating \cup {"mark"}
         /\ pc'[t] \in Using => slot'[t] \in Slots
  <2>1. CASE OnceSteps(t) \/ InterruptedInOnce(t) \/ TableCalloc(t) \/ TableCallocFails(t)
    BY <2>1 DEF OnceSteps, InterruptedInOnce, TableCalloc, TableCallocFails
  <2>2. CASE TimerCreate(t) \/ AllocFails(t) \/ SetSignal(t)
    BY <2>2, SlotFacts DEF TimerCreate, AllocFails, SetSignal, Return, Goto, Creating, Using
  <2>3. CASE Fork(t) \/ ForkReturns(t)
    BY <2>3, SlotFacts DEF Fork, ForkReturns, StartStop, Goto, Creating, Using
  <2>4. CASE WalkBegins(t) \/ WalkEnds(t)
    BY <2>4, SlotFacts DEF WalkBegins, WalkEnds, Goto, Creating, Using
  <2>5. ASSUME NEW e \in Times, NEW p \in BOOLEAN, SetWrite(t, e, p)
        PROVE  /\ pc[t] \notin Creating \cup {"mark"} /\ pc'[t] \notin Creating \cup {"mark"}
               /\ pc'[t] \in Using => slot'[t] \in Slots
    BY <2>5, SlotFacts DEF SetWrite, Goto, Creating, Using, CallsOK
  <2>6. ASSUME NEW s \in Slots, Visit(t, s) \/ TimerSettime(t, s)
        PROVE  /\ pc[t] \notin Creating \cup {"mark"} /\ pc'[t] \notin Creating \cup {"mark"}
               /\ pc'[t] \in Using => slot'[t] \in Slots
    BY <2>6, SlotFacts DEF Visit, TimerSettime, Goto, Creating, Using
  <2>7. QED
    BY <2>1, <2>2, <2>3, <2>4, <2>5, <2>6
<1>5. \A u \in Threads : pc[u] \in Using => slot[u] \in Slots
    BY SlotFacts DEF CallsOK
<1>6. \A u \in Threads :
          /\ pc[u] \in Creating \cup {"mark"} \/ pc'[u] \in Creating \cup {"mark"} =>
                pc'[u] = pc[u] /\ slot'[u] = slot[u]
          /\ pc'[u] \in Using => slot'[u] \in Slots
    BY <1>3, <1>4, <1>5
<1>7. QED
    BY <1>1, <1>2, <1>6, QuietStep

\* The slots with a thread or a creation are those that are not free.
LEMMA FreeFacts ==
    ASSUME SInv, NEW s \in Slots
    PROVE  /\ s \in Range(free) => worker[s] = "none"
           /\ s \in Range(free) => \A t \in Threads : pc[t] \in Creating => slot[t] # s
           /\ worker[s] # "none" => table = "ready" /\ s \notin Range(free)
           /\ \A t \in Threads : pc[t] \in Creating => table = "ready" /\ slot[t] \notin Range(free)
<1>1. CASE table = "ready"
  <2>1. \A r \in Slots : r \in Range(free) <=>
            /\ worker[r] = "none"
            /\ \A t \in Threads : pc[t] \in Creating => slot[t] # r
    BY <1>1, SlotFacts DEF FreeOK
  <2>2. \A t \in Threads : pc[t] \in Creating => slot[t] \in Slots
    BY SlotFacts DEF CallsOK, Using
  <2>3. QED
    BY <1>1, <2>1, <2>2
<1>2. CASE table # "ready"
  <2>1. free = <<>> /\ worker[s] = "none" /\ \A t \in Threads : pc[t] \notin Creating
    BY <1>2, SlotFacts DEF FreeOK
  <2>2. Range(free) = {}
    BY <2>1 DEF Range
  <2>3. QED
    BY <2>1, <2>2
<1>3. QED
    BY <1>1, <1>2

\* What the invariant says of a call.
LEMMA CallFacts ==
    ASSUME SInv, NEW t \in Threads
    PROVE  /\ pc[t] \in Using => slot[t] \in Slots
           /\ pc[t] \in Creating => worker[slot[t]] = "none"
           /\ pc[t] = "spawn" => ~done[slot[t]]
           /\ pc[t] = "mark" => slot[t] \notin handles /\ Alive(slot[t])
           /\ \A u \in Threads : /\ pc[t] \in Creating \cup {"mark"}
                                 /\ pc[u] \in Creating \cup {"mark"} /\ slot[t] = slot[u]
                                 => t = u
BY SlotFacts DEF CallsOK, Apart

LEMMA TableInitSlots ==
    ASSUME SInv, NEW t \in Threads, TableInit(t)
    PROVE  SlotInv'
<1>1. UNCHANGED <<handles, done, worker, pc, slot>> /\ table # "ready" /\ table' = "ready"
    BY DEF TableInit, flags
<1>2. free' = [s \in Slots |-> s]
    BY DEF TableInit
<1>3. /\ \A s \in Slots : worker[s] = "none"
      /\ \A u \in Threads : pc[u] \notin Creating
    BY <1>1, SlotFacts DEF FreeOK
<1>4. IsInjective(free)' /\ \A s \in Slots : s \in Range(free')
    BY <1>2 DEF IsInjective, Range
<1>5. FreeOK'
    BY <1>1, <1>3, <1>4 DEF FreeOK
<1>6. CallsOK' /\ HandlesOK' /\ Apart'
    BY <1>1, SlotFacts DEF CallsOK, HandlesOK, Apart, Alive
<1>7. QED
    BY <1>5, <1>6 DEF SlotInv

\* thr_timer_table_alloc: a slot that is on the free list has no thread and
\* no other creation.
LEMMA AllocSlots ==
    ASSUME SInv, NEW t \in Threads, Alloc(t)
    PROVE  SlotInv'
<1> DEFINE s == Head(free)
<1>1. /\ s \in Slots /\ s \in Range(free) /\ IsInjective(Tail(free))
      /\ \A r \in Slots : r \in Range(Tail(free)) <=> r \in Range(free) /\ r # s
    BY SlotFacts, TakenOff DEF Alloc, FreeOK
<1>2. /\ UNCHANGED <<handles, done, worker, table>> /\ free' = Tail(free)
      /\ pc' = [pc EXCEPT ![t] = "setup"] /\ slot' = [slot EXCEPT ![t] = s]
      /\ pc[t] = "alloc"
    BY DEF Alloc, Goto, flags
<1> HIDE DEF s
<1>3. worker[s] = "none" /\ \A u \in Threads : pc[u] \in Creating => slot[u] # s
    BY <1>1, FreeFacts
<1>4. table = "ready"
  <2>1. free # <<>>
    BY DEF Alloc
  <2>2. QED
    BY <2>1, SlotFacts DEF FreeOK
<1>5. /\ pc'[t] = "setup" /\ slot'[t] = s
      /\ \A u \in Threads \ {t} : pc'[u] = pc[u] /\ slot'[u] = slot[u]
    BY <1>2, SlotFacts
<1>6. FreeOK'
  <2>1. ASSUME NEW r \in Slots
        PROVE  r \in Range(free') <=>
                  /\ worker'[r] = "none"
                  /\ \A u \in Threads : pc'[u] \in Creating => slot'[u] # r
    <3>1. r \in Range(free) <=> /\ worker[r] = "none"
                                /\ \A u \in Threads : pc[u] \in Creating => slot[u] # r
      BY <1>4, SlotFacts DEF FreeOK
    <3>2. r \in Range(free') <=> r \in Range(free) /\ r # s
      BY <1>1, <1>2
    <3>3. (\A u \in Threads : pc'[u] \in Creating => slot'[u] # r) <=>
              r # s /\ \A u \in Threads : pc[u] \in Creating => slot[u] # r
      BY <1>2, <1>5 DEF Creating
    <3>4. QED
      BY <1>2, <3>1, <3>2, <3>3
  <2>2. IsInjective(free)'
    BY <1>1, <1>2
  <2>3. QED
    BY <1>2, <1>4, <2>1, <2>2 DEF FreeOK
<1>7. CallsOK'
  <2> SUFFICES ASSUME NEW u \in Threads
               PROVE  /\ pc'[u] \in Using => slot'[u] \in Slots
                      /\ pc'[u] \in Creating => worker'[slot'[u]] = "none"
                      /\ pc'[u] = "spawn" => ~done'[slot'[u]]
                      /\ pc'[u] = "mark" => slot'[u] \notin handles' /\ Alive(slot[u])'
    BY DEF CallsOK
  <2>1. CASE u = t
    BY <1>1, <1>2, <1>3, <1>5, <2>1
  <2>2. CASE u # t
    BY <1>2, <1>5, <2>2, CallFacts DEF Alive
  <2>3. QED
    BY <2>1, <2>2
<1>8. HandlesOK'
    BY <1>2, SlotFacts DEF HandlesOK, Alive
<1>9. Apart'
  <2>1. ASSUME NEW u \in Threads, u # t, pc[u] \in Creating \cup {"mark"}
        PROVE  slot[u] # s
    BY <1>3, <2>1, CallFacts DEF Alive
  <2>2. QED
    BY <1>5, <2>1, SlotFacts DEF Apart
<1>10. QED
    BY <1>6, <1>7, <1>8, <1>9 DEF SlotInv

LEMMA SetupSlots ==
    ASSUME SInv, NEW t \in Threads, Setup(t)
    PROVE  SlotInv'
<1>1. /\ UNCHANGED <<handles, worker, table, free, slot>> /\ pc[t] = "setup"
      /\ pc' = [pc EXCEPT ![t] = "spawn"] /\ done' = [done EXCEPT ![slot[t]] = FALSE]
    BY DEF Setup, Goto, tableVars
<1>2. slot[t] \in Slots /\ worker[slot[t]] = "none"
    BY <1>1, CallFacts DEF Using, Creating
<1>3. /\ pc'[t] = "spawn" /\ \A u \in Threads \ {t} : pc'[u] = pc[u]
      /\ \A s \in Slots : done[s] = FALSE => done'[s] = FALSE
      /\ done'[slot[t]] = FALSE /\ \A s \in Slots : done[s] \in BOOLEAN
    BY <1>1, <1>2, SlotFacts
<1>4. \A u \in Threads : /\ pc'[u] \in Creating <=> pc[u] \in Creating
                         /\ pc'[u] = "mark" <=> pc[u] = "mark"
                         /\ pc'[u] \in Using <=> pc[u] \in Using
    BY <1>1, <1>3 DEF Creating, Using
<1>5. \A s \in Slots : Alive(s) => Alive(s)'
    BY <1>1, <1>3 DEF Alive
<1>6. FreeOK'
    BY <1>1, <1>4, SlotFacts DEF FreeOK
<1>7. CallsOK'
  <2> SUFFICES ASSUME NEW u \in Threads
               PROVE  /\ pc'[u] \in Using => slot'[u] \in Slots
                      /\ pc'[u] \in Creating => worker'[slot'[u]] = "none"
                      /\ pc'[u] = "spawn" => ~done'[slot'[u]]
                      /\ pc'[u] = "mark" => slot'[u] \notin handles' /\ Alive(slot[u])'
    BY DEF CallsOK
  <2>1. pc'[u] = "spawn" => ~done'[slot'[u]]
    BY <1>1, <1>3, CallFacts DEF Using, Creating
  <2>2. pc'[u] = "mark" => slot'[u] \notin handles' /\ Alive(slot[u])'
    BY <1>1, <1>3, <1>4, CallFacts DEF Alive, Using
  <2>3. QED
    BY <1>1, <1>4, <2>1, <2>2, CallFacts
<1>8. HandlesOK' /\ Apart'
    BY <1>1, <1>4, <1>5, SlotFacts DEF HandlesOK, Apart
<1>9. QED
    BY <1>6, <1>7, <1>8 DEF SlotInv

LEMMA SpawnSlots ==
    ASSUME SInv, NEW t \in Threads, Spawn(t)
    PROVE  SlotInv'
<1> DEFINE s == slot[t]
<1>1. /\ UNCHANGED <<done, table, free>> /\ handles' = handles \cup {s} /\ pc[t] = "spawn"
      /\ pc' = [pc EXCEPT ![t] = "idle"] /\ slot' = [slot EXCEPT ![t] = 0]
    BY DEF Spawn, Return, Goto, tableVars, flags
<1>2. PICK w \in {"lock", "failed"} : worker' = [worker EXCEPT ![s] = w]
    BY DEF Spawn
<1>3. /\ s \in Slots /\ worker[s] = "none" /\ ~done[s]
      /\ \A u \in Threads \ {t} : pc[u] \in Creating \cup {"mark"} => slot[u] # s
      /\ table = "ready" /\ s \notin Range(free)
    BY <1>1, CallFacts, FreeFacts DEF Using, Creating
<1> HIDE DEF s
<1>4. /\ pc'[t] = "idle" /\ \A u \in Threads \ {t} : pc'[u] = pc[u] /\ slot'[u] = slot[u]
      /\ worker'[s] \in {"lock", "failed"} /\ \A r \in Slots \ {s} : worker'[r] = worker[r]
    BY <1>1, <1>2, <1>3, SlotFacts
<1>5. FreeOK'
  <2>1. ASSUME NEW r \in Slots
        PROVE  r \in Range(free') <=>
                  /\ worker'[r] = "none"
                  /\ \A u \in Threads : pc'[u] \in Creating => slot'[u] # r
    <3>1. CASE r = s
      BY <1>1, <1>3, <1>4, <3>1
    <3>2. CASE r # s
      <4>1. r \in Range(free) <=> /\ worker[r] = "none"
                                  /\ \A u \in Threads : pc[u] \in Creating => slot[u] # r
        BY <1>3, SlotFacts DEF FreeOK
      <4>2. (\A u \in Threads : pc'[u] \in Creating => slot'[u] # r) <=>
                \A u \in Threads : pc[u] \in Creating => slot[u] # r
        BY <1>4, <3>2 DEF Creating, s
      <4>3. QED
        BY <1>1, <1>4, <3>2, <4>1, <4>2
    <3>3. QED
      BY <3>1, <3>2
  <2>2. IsInjective(free)'
    BY <1>1, SlotFacts DEF FreeOK
  <2>3. QED
    BY <1>1, <1>3, <2>1, <2>2 DEF FreeOK
<1>6. CallsOK'
  <2> SUFFICES ASSUME NEW u \in Threads
               PROVE  /\ pc'[u] \in Using => slot'[u] \in Slots
                      /\ pc'[u] \in Creating => worker'[slot'[u]] = "none"
                      /\ pc'[u] = "spawn" => ~done'[slot'[u]]
                      /\ pc'[u] = "mark" => slot'[u] \notin handles' /\ Alive(slot[u])'
    BY DEF CallsOK
  <2>1. CASE u = t
    BY <1>4, <2>1 DEF Creating, Using
  <2>2. CASE u # t /\ pc[u] \in Creating \cup {"mark"}
    BY <1>1, <1>3, <1>4, <2>2, CallFacts DEF Alive, Creating, Using
  <2>3. CASE u # t /\ pc[u] \notin Creating \cup {"mark"}
    BY <1>4, <2>3, CallFacts DEF Creating
  <2>4. QED
    BY <2>1, <2>2, <2>3
<1>7. HandlesOK'
  <2>1. ASSUME NEW r \in handles, r # s
        PROVE  Alive(r)'
    BY <1>1, <1>4, <2>1, SlotFacts DEF HandlesOK, Alive
  <2>2. worker'[s] \notin {"none", "exit"} /\ ~done'[s]
    BY <1>1, <1>3, <1>4
  <2>3. QED
    BY <1>1, <2>1, <2>2 DEF HandlesOK, Alive
<1>8. Apart'
    BY <1>4, SlotFacts DEF Apart, Creating
<1>9. QED
    BY <1>5, <1>6, <1>7, <1>8 DEF SlotInv

LEMMA TimerDeleteSlots ==
    ASSUME SInv, NEW t \in Threads, NEW s \in Slots, TimerDelete(t, s)
    PROVE  SlotInv'
<1>1. /\ UNCHANGED <<done, worker, table, free>> /\ handles' = handles \ {s} /\ s \in handles
      /\ pc[t] = "idle"
      /\ pc' = [pc EXCEPT ![t] = "mark"] /\ slot' = [slot EXCEPT ![t] = s]
    BY DEF TimerDelete, Goto, flags
<1>2. Alive(s) /\ worker[s] # "none"
    BY <1>1, SlotFacts DEF HandlesOK, Alive
<1>3. /\ pc'[t] = "mark" /\ slot'[t] = s
      /\ \A u \in Threads \ {t} : pc'[u] = pc[u] /\ slot'[u] = slot[u]
    BY <1>1, SlotFacts
<1>4. \A u \in Threads : pc[u] \in Creating \cup {"mark"} => slot[u] # s
    BY <1>1, <1>2, CallFacts
<1>5. FreeOK'
  <2>1. \A u \in Threads : /\ pc'[u] \in Creating <=> pc[u] \in Creating
                           /\ pc[u] \in Creating => slot'[u] = slot[u]
    BY <1>1, <1>3 DEF Creating
  <2>2. ASSUME NEW r \in Slots
        PROVE  (\A u \in Threads : pc'[u] \in Creating => slot'[u] # r) <=>
                  \A u \in Threads : pc[u] \in Creating => slot[u] # r
    BY <2>1
  <2>3. QED
    BY <1>1, <2>1, <2>2, SlotFacts DEF FreeOK
<1>6. CallsOK'
  <2> SUFFICES ASSUME NEW u \in Threads
               PROVE  /\ pc'[u] \in Using => slot'[u] \in Slots
                      /\ pc'[u] \in Creating => worker'[slot'[u]] = "none"
                      /\ pc'[u] = "spawn" => ~done'[slot'[u]]
                      /\ pc'[u] = "mark" => slot'[u] \notin handles' /\ Alive(slot[u])'
    BY DEF CallsOK
  <2>1. CASE u = t
    <3>1. worker'[slot'[t]] \notin {"none", "exit"} /\ ~done'[slot'[t]]
      BY <1>1, <1>2, <1>3 DEF Alive
    <3>2. QED
      BY <1>1, <1>3, <2>1, <3>1 DEF Creating, Alive
  <2>2. CASE u # t
    BY <1>1, <1>3, <2>2, CallFacts DEF Alive
  <2>3. QED
    BY <2>1, <2>2
<1>7. HandlesOK'
    BY <1>1, SlotFacts DEF HandlesOK, Alive
<1>8. Apart'
    BY <1>3, <1>4, SlotFacts DEF Apart
<1>9. QED
    BY <1>5, <1>6, <1>7, <1>8 DEF SlotInv

\* The thread of the timer is told to end: nobody else may know the slot.
LEMMA MarkDoneSlots ==
    ASSUME SInv, NEW t \in Threads, MarkDone(t)
    PROVE  SlotInv'
<1> DEFINE s == slot[t]
<1>1. /\ UNCHANGED <<handles, table, free>> /\ pc[t] = "mark" /\ Signal(s)
      /\ pc' = [pc EXCEPT ![t] = "idle"] /\ slot' = [slot EXCEPT ![t] = 0]
      /\ done' = [done EXCEPT ![s] = TRUE]
    BY DEF MarkDone, Return, Goto, tableVars
<1>2. /\ s \in Slots /\ s \notin handles
      /\ \A u \in Threads \ {t} : pc[u] \in Creating \cup {"mark"} => slot[u] # s
    BY <1>1, CallFacts DEF Using
<1> HIDE DEF s
<1>3. /\ pc'[t] = "idle" /\ \A u \in Threads \ {t} : pc'[u] = pc[u] /\ slot'[u] = slot[u]
      /\ \A r \in Slots \ {s} : done'[r] = done[r]
    BY <1>1, SlotFacts
<1>4. \A r \in Slots : \/ worker'[r] = worker[r]
                       \/ worker[r] \notin {"none", "exit"} /\ worker'[r] \notin {"none", "exit"}
    BY <1>1, <1>2, SlotFacts, SignalFacts
<1>5. \A r \in Slots : worker'[r] = "none" <=> worker[r] = "none"
    BY <1>4
<1>6. \A r \in Slots \ {s} :
          worker[r] \notin {"none", "exit"} /\ ~done[r] =>
             worker'[r] \notin {"none", "exit"} /\ ~done'[r]
    BY <1>3, <1>4
<1>7. FreeOK'
  <2>1. \A u \in Threads : /\ pc'[u] \in Creating <=> pc[u] \in Creating
                           /\ pc[u] \in Creating => slot'[u] = slot[u]
    BY <1>1, <1>3 DEF Creating
  <2>2. ASSUME NEW r \in Slots
        PROVE  (\A u \in Threads : pc'[u] \in Creating => slot'[u] # r) <=>
                  \A u \in Threads : pc[u] \in Creating => slot[u] # r
    BY <2>1
  <2>3. QED
    BY <1>1, <1>5, <2>1, <2>2, SlotFacts DEF FreeOK
<1>8. CallsOK'
  <2> SUFFICES ASSUME NEW u \in Threads
               PROVE  /\ pc'[u] \in Using => slot'[u] \in Slots
                      /\ pc'[u] \in Creating => worker'[slot'[u]] = "none"
                      /\ pc'[u] = "spawn" => ~done'[slot'[u]]
                      /\ pc'[u] = "mark" => slot'[u] \notin handles' /\ Alive(slot[u])'
    BY DEF CallsOK
  <2>1. CASE u = t
    BY <1>3, <2>1 DEF Creating, Using
  <2>2. CASE u # t /\ pc[u] \in Creating \cup {"mark"}
    BY <1>1, <1>2, <1>3, <1>5, <1>6, <2>2, CallFacts DEF Alive, Creating, Using
  <2>3. CASE u # t /\ pc[u] \notin Creating \cup {"mark"}
    BY <1>3, <2>3, CallFacts DEF Creating
  <2>4. QED
    BY <2>1, <2>2, <2>3
<1>9. HandlesOK'
    BY <1>1, <1>2, <1>6, SlotFacts DEF HandlesOK, Alive
<1>10. Apart'
    BY <1>3, SlotFacts DEF Apart, Creating
<1>11. QED
    BY <1>7, <1>8, <1>9, <1>10 DEF SlotInv

\* A thread ends only when it was told to.
LEMMA WorkerStopsSlots ==
    ASSUME SInv, NEW s \in Slots, WorkerStops(s)
    PROVE  SlotInv'
<1>1. /\ UNCHANGED <<handles, table, free, done, pc, slot>> /\ done[s]
      /\ worker[s] \in {"lock", "return"} /\ worker' = [worker EXCEPT ![s] = "exit"]
    BY DEF WorkerStops, AtTop, Work, tableVars, flags
<1>2. /\ \A r \in Slots : worker'[r] = "none" <=> worker[r] = "none"
      /\ \A r \in Slots \ {s} : worker'[r] = worker[r]
    BY <1>1, SlotFacts
<1>3. \A r \in Slots : Alive(r) => Alive(r)'
    BY <1>1, <1>2 DEF Alive
<1>4. FreeOK'
    BY <1>1, <1>2, SlotFacts DEF FreeOK
<1>5. CallsOK'
  <2> SUFFICES ASSUME NEW u \in Threads
               PROVE  /\ pc'[u] \in Using => slot'[u] \in Slots
                      /\ pc'[u] \in Creating => worker'[slot'[u]] = "none"
                      /\ pc'[u] = "spawn" => ~done'[slot'[u]]
                      /\ pc'[u] = "mark" => slot'[u] \notin handles' /\ Alive(slot[u])'
    BY DEF CallsOK
  <2>1. pc[u] = "mark" => slot[u] # s
    BY <1>1, CallFacts DEF Alive
  <2>2. QED
    BY <1>1, <1>2, <2>1, CallFacts DEF Alive, Creating, Using
<1>6. HandlesOK' /\ Apart'
    BY <1>1, <1>3, SlotFacts DEF HandlesOK, Apart
<1>7. QED
    BY <1>4, <1>5, <1>6 DEF SlotInv

\* thr_timer_table_free: the thread is the last that knows the slot.
LEMMA WorkerFreesSlots ==
    ASSUME SInv, NEW s \in Slots, WorkerFrees(s)
    PROVE  SlotInv'
<1>1. /\ UNCHANGED <<handles, table, pc, slot>> /\ free' = <<s>> \o free
      /\ worker[s] = "exit" /\ worker' = [worker EXCEPT ![s] = "none"]
      /\ done' = [done EXCEPT ![s] = FALSE]
    BY DEF WorkerFrees, Work
<1>2. /\ table = "ready" /\ s \notin Range(free)
    BY <1>1, FreeFacts
<1>3. /\ IsInjective(free)'
      /\ \A r \in Slots : r \in Range(free') <=> r = s \/ r \in Range(free)
    BY <1>1, <1>2, SlotFacts, PutBack DEF FreeOK
<1>4. /\ worker'[s] = "none"
      /\ \A r \in Slots \ {s} : worker'[r] = worker[r] /\ done'[r] = done[r]
    BY <1>1, SlotFacts
<1>5. /\ s \notin handles
      /\ \A u \in Threads : pc[u] \in Creating \cup {"mark"} => slot[u] # s
    BY <1>1, SlotFacts, CallFacts DEF HandlesOK, Alive
<1>6. FreeOK'
  <2>1. ASSUME NEW r \in Slots
        PROVE  r \in Range(free') <=>
                  /\ worker'[r] = "none"
                  /\ \A u \in Threads : pc'[u] \in Creating => slot'[u] # r
    <3>1. CASE r = s
      BY <1>1, <1>3, <1>4, <1>5, <3>1
    <3>2. CASE r # s
      <4>1. r \in Range(free) <=> /\ worker[r] = "none"
                                  /\ \A u \in Threads : pc[u] \in Creating => slot[u] # r
        BY <1>2, SlotFacts DEF FreeOK
      <4>2. QED
        BY <1>1, <1>3, <1>4, <3>2, <4>1
    <3>3. QED
      BY <3>1, <3>2
  <2>2. QED
    BY <1>1, <1>2, <1>3, <2>1 DEF FreeOK
<1>7. CallsOK'
  <2> SUFFICES ASSUME NEW u \in Threads
               PROVE  /\ pc'[u] \in Using => slot'[u] \in Slots
                      /\ pc'[u] \in Creating => worker'[slot'[u]] = "none"
                      /\ pc'[u] = "spawn" => ~done'[slot'[u]]
                      /\ pc'[u] = "mark" => slot'[u] \notin handles' /\ Alive(slot[u])'
    BY DEF CallsOK
  <2>1. CASE pc[u] \in Creating \cup {"mark"}
    BY <1>1, <1>4, <1>5, <2>1, CallFacts DEF Alive, Using
  <2>2. CASE pc[u] \notin Creating \cup {"mark"}
    BY <1>1, <2>2, CallFacts DEF Creating
  <2>3. QED
    BY <2>1, <2>2
<1>8. HandlesOK' /\ Apart'
    BY <1>1, <1>4, <1>5, SlotFacts DEF HandlesOK, Apart, Alive
<1>9. QED
    BY <1>6, <1>7, <1>8 DEF SlotInv

\* Every step keeps the slots accounted for.
LEMMA NextSInv == SInv /\ [Next]_vars => SInv'
<1> SUFFICES ASSUME SInv, [Next]_vars PROVE SInv'
    OBVIOUS
<1>0. IInv'
    BY NextIInv DEF SInv
<1>1. CASE UNCHANGED vars
  <2>1. TypeOK'
    BY <1>0, <1>1 DEF SInv, TypeOK, IInv, ThreadTypes, vars, tableVars, flags, settings
  <2>2. SlotInv'
    BY <1>1, SlotFacts
    DEF vars, tableVars, flags, SlotInv, FreeOK, CallsOK, HandlesOK, Apart, Alive
  <2>3. QED
    BY <1>0, <2>1, <2>2 DEF SInv
<1>2. ASSUME NEW t \in Threads, Continue(t) \/ Client(t) \/ InterruptedInOnce(t)
      PROVE  SInv'
  <2>1. TypeOK'
    BY <1>0, <1>2, CallTyped
  <2>2. SlotInv'
    BY <1>2, CallQuiet, TableInitSlots, AllocSlots, SetupSlots, SpawnSlots, MarkDoneSlots,
       TimerDeleteSlots DEF Continue, Client
  <2>3. QED
    BY <1>0, <2>1, <2>2 DEF SInv
<1>3. ASSUME NEW s \in Slots, WorkerRun(s) \/ Interrupted(s) \/ Elapse(s)
      PROVE  SInv'
  <2>1. TypeOK'
    BY <1>0, <1>3, WorkerTyped
  <2>2. SlotInv'
    BY <1>3, WorkerQuiet, WorkerStopsSlots, WorkerFreesSlots DEF WorkerRun
  <2>3. QED
    BY <1>0, <2>1, <2>2 DEF SInv
<1>4. QED
    BY <1>1, <1>2, <1>3 DEF Next

\* A slot of the timer table is on the free list, once, exactly while nobody
\* works with it: its thread has freed it, and no creation has it; in
\* particular no two timer_create calls ever get the same slot.
THEOREM SlotsAreAccounted == Spec => []SlotsAccounted
<1>1. Spec => []SInv
    BY InitSInv, NextSInv, PTL DEF Spec
<1>2. SInv => SlotsAccounted
  <2> SUFFICES ASSUME SInv PROVE SlotsAccounted
    OBVIOUS
  <2>1. TypeOK /\ IsInjective(free)
    BY SlotFacts DEF SInv, FreeOK
  <2>2. ASSUME table = "ready"
        PROVE  Range(free) = Slots \ Owned
    <3>1. Range(free) \subseteq Slots
      BY SlotFacts DEF Range
    <3>2. \A s \in Slots : s \in Range(free) <=>
              /\ worker[s] = "none"
              /\ \A t \in Threads : pc[t] \in Creating => slot[t] # s
      BY <2>2, SlotFacts DEF FreeOK
    <3>3. \A s \in Slots : s \in Owned <=>
              \/ worker[s] # "none"
              \/ \E t \in Threads : pc[t] \in Creating /\ slot[t] = s
      BY DEF Owned, Creating
    <3>4. QED
      BY <3>1, <3>2, <3>3
  <2>3. ASSUME NEW t \in Threads, NEW u \in Threads,
               pc[t] \in {"setup", "spawn"}, pc[u] \in {"setup", "spawn", "mark"}, slot[t] = slot[u]
        PROVE  t = u
    BY <2>3, SlotFacts DEF Apart, Creating
  <2>4. QED
    BY <2>1, <2>2, <2>3 DEF SlotsAccounted
<1>3. QED
    BY <1>1, <1>2, PTL
=============================================================================
