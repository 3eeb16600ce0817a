---------------------------- MODULE SemCondProofs ----------------------------
(***************************************************************************)
(* Proofs about Semaphore and PthreadCond, the two that sleep on a futex   *)
(* word without a mutex of their own, for every set of threads.            *)
(*                                                                         *)
(* Semaphore, for every maximal value: its types, that no sleeper is       *)
(* forgotten, and that it implements AbstractSemaphore.                    *)
(*                                                                         *)
(* PthreadCond, for every size of the counter: its types, that a thread    *)
(* told of a pulse does not go to sleep any more, and that a broadcast     *)
(* reaches every sleeper.  It is an instance here, over constants and      *)
(* variables of the same names, and its names have the prefix Cond.        *)
(***************************************************************************)
EXTENDS Semaphore, TLAPS

----------------------------------------------------------------------------
(* The inductive invariant.                                                *)

\* A thread at label p that has loaded o, with deadline d: what was decided
\* when o was loaded still holds of o, and only the timed wait has a deadline.
CallOK(p, o, d) ==
    /\ p = "trycas" => o > 0
    /\ p = "deccas" => o >= 0
    /\ p = "inccas" => o # MaxValue
    /\ p \in {"idle", "inc", "inccas", "wake"} \cup Results => d = "none"
    /\ p = "clock" => d \in {"pending", "expired"}
    /\ p \in {"dec", "deccas", "wait", "sleep"} => d # "invalid"

CallsOK == \A t \in Threads : CallOK(pc[t], old[t], deadline[t])

QueueOK == \A t \in queue : pc[t] = "sleep"

IInv == TypeOK /\ CallsOK /\ QueueOK /\ NoStrandedWaiter

LEMMA InitIInv == Init => IInv
BY MaxAssumption DEF Init, IInv, TypeOK, CallsOK, CallOK, QueueOK, NoStrandedWaiter,
    Values, Labels, Results, Errors

----------------------------------------------------------------------------
(* What one step of one thread does to the invariant.                      *)

\* t moves to label p with loaded count o and deadline d, and may change the
\* count, if no sleeper is left behind.
LEMMA ThreadStep ==
    ASSUME IInv, NEW t \in Threads,
           NEW p \in Labels, NEW o \in Values,
           NEW d \in {"none", "pending", "expired", "invalid"},
           CallOK(p, o, d),
           t \notin queue,
           pc' = [pc EXCEPT ![t] = p],
           old' = [old EXCEPT ![t] = o],
           deadline' = [deadline EXCEPT ![t] = d],
           queue' = queue,
           count' \in Values,
           queue = {} \/ count' = -1 \/ p = "wake" \/ \E u \in Threads \ {t} : pc[u] = "wake"
    PROVE  IInv'
<1>1. TypeOK'
    BY DEF IInv, TypeOK
<1>2. CallsOK'
    BY DEF IInv, TypeOK, CallsOK
<1>3. QueueOK'
    BY DEF IInv, TypeOK, QueueOK
<1>4. NoStrandedWaiter'
  <2>1. pc'[t] = p /\ \A u \in Threads \ {t} : pc'[u] = pc[u]
    BY DEF IInv, TypeOK
  <2>2. QED
    BY <2>1 DEF NoStrandedWaiter
<1>5. QED
    BY <1>1, <1>2, <1>3, <1>4 DEF IInv

\* The same for a step that leaves the count alone.
LEMMA LocalStep ==
    ASSUME IInv, NEW t \in Threads,
           NEW p \in Labels, NEW o \in Values,
           NEW d \in {"none", "pending", "expired", "invalid"},
           CallOK(p, o, d),
           t \notin queue, pc[t] # "wake",
           pc' = [pc EXCEPT ![t] = p],
           old' = [old EXCEPT ![t] = o],
           deadline' = [deadline EXCEPT ![t] = d],
           UNCHANGED <<count, queue>>
    PROVE  IInv'
<1>1. count' \in Values
    BY DEF IInv, TypeOK
<1>2. queue = {} \/ count' = -1 \/ \E u \in Threads \ {t} : pc[u] = "wake"
    BY DEF IInv, NoStrandedWaiter
<1>3. QED
    BY <1>1, <1>2, ThreadStep

\* What is known of a thread in a state of the invariant.
LEMMA ThreadFacts ==
    ASSUME IInv, NEW t \in Threads
    PROVE  /\ pc[t] \in Labels
           /\ old[t] \in Values
           /\ deadline[t] \in {"none", "pending", "expired", "invalid"}
           /\ CallOK(pc[t], old[t], deadline[t])
           /\ pc[t] # "sleep" => t \notin queue
           /\ pc = [pc EXCEPT ![t] = pc[t]]
           /\ old = [old EXCEPT ![t] = old[t]]
           /\ deadline = [deadline EXCEPT ![t] = deadline[t]]
           /\ count \in Values
BY DEF IInv, TypeOK, CallsOK, QueueOK

LEMMA LabelFacts ==
    /\ 0 \in Values /\ 1 \in Values /\ -1 \in Values
    /\ Results \subseteq Labels
    /\ "idle" \notin Results /\ "wake" \notin Results /\ "none" \notin Results
    /\ \A o, d : CallOK("idle", o, d) <=> d = "none"
    /\ \A o, d : \A p \in Results \cup {"wake"} : CallOK(p, o, d) <=> d = "none"
BY MaxAssumption DEF Values, Results, Errors, Labels, CallOK

----------------------------------------------------------------------------
(* The steps, one by one.                                                  *)

LEMMA CallStep ==
    ASSUME IInv, NEW t \in Threads, NEW label, NEW abstime,
           <<label, abstime>> \in {<<"dec", "none">>, <<"trydec", "none">>,
               <<"trydec", "pending">>, <<"trydec", "invalid">>, <<"inc", "none">>},
           Call(t, label, abstime)
    PROVE  IInv'
<1>1. label \in Labels /\ abstime \in {"none", "pending", "expired", "invalid"}
    BY DEF Labels
<1>2. CallOK(label, old[t], abstime)
    BY ThreadFacts DEF CallOK, Results, Errors
<1>3. old' = [old EXCEPT ![t] = old[t]]
    BY ThreadFacts DEF Call
<1>4. old[t] \in Values /\ t \notin queue
    BY ThreadFacts DEF Call
<1>5. QED
    BY <1>1, <1>2, <1>3, <1>4, LocalStep DEF Call, Goto

LEMMA LeaveStep ==
    ASSUME IInv, NEW t \in Threads, NEW label \in Results \cup {"idle"},
           pc[t] \notin {"sleep", "wake"},
           Leave(t, label), UNCHANGED <<count, queue>>
    PROVE  IInv'
<1>1. label \in Labels /\ label # "wake" /\ CallOK(label, 0, "none")
    BY LabelFacts DEF Labels
<1>2. QED
    BY <1>1, ThreadFacts, LabelFacts, LocalStep DEF Leave, Goto

LEMMA LoadStep ==
    ASSUME IInv, NEW t \in Threads, NEW label \in {"trycas", "deccas", "inccas"},
           CallOK(label, count, deadline[t]),
           pc[t] \notin {"sleep", "wake"},
           Load(t, label), UNCHANGED <<count, queue>>
    PROVE  IInv'
<1>1. label \in Labels
    BY DEF Labels
<1>2. deadline' = [deadline EXCEPT ![t] = deadline[t]]
    BY ThreadFacts DEF Load
<1>3. count \in Values /\ deadline[t] \in {"none", "pending", "expired", "invalid"} /\ t \notin queue
    BY ThreadFacts
<1>4. QED
    BY <1>1, <1>2, <1>3, LocalStep DEF Load, Goto

LEMMA CasFailsStep ==
    ASSUME IInv, NEW t \in Threads, NEW label \in {"trydec", "dec", "inc"},
           CallOK(label, 0, deadline[t]),
           pc[t] \notin {"sleep", "wake"},
           CasFails(t, label)
    PROVE  IInv'
<1>1. label \in Labels
    BY DEF Labels
<1>2. deadline' = [deadline EXCEPT ![t] = deadline[t]]
    BY ThreadFacts DEF CasFails
<1>3. 0 \in Values /\ deadline[t] \in {"none", "pending", "expired", "invalid"} /\ t \notin queue
    BY ThreadFacts, LabelFacts
<1>4. QED
    BY <1>1, <1>2, <1>3, LocalStep DEF CasFails, Goto

LEMMA MoveStep ==
    ASSUME IInv, NEW t \in Threads, NEW label \in {"clock", "dec", "wait"},
           CallOK(label, old[t], deadline[t]),
           pc[t] # "wake", t \notin queue,
           Goto(t, label), UNCHANGED <<count, queue, old, deadline>>
    PROVE  IInv'
<1>1. label \in Labels
    BY DEF Labels
<1>2. old' = [old EXCEPT ![t] = old[t]] /\ deadline' = [deadline EXCEPT ![t] = deadline[t]]
    BY ThreadFacts
<1>3. old[t] \in Values /\ deadline[t] \in {"none", "pending", "expired", "invalid"}
    BY ThreadFacts
<1>4. QED
    BY <1>1, <1>2, <1>3, LocalStep DEF Goto

LEMMA TryDecLoadStep ==
    ASSUME IInv, NEW t \in Threads, TryDecLoad(t)
    PROVE  IInv'
<1>1. CASE count > 0 /\ Load(t, "trycas")
    BY <1>1, LoadStep DEF TryDecLoad, CallOK, Results, Errors
<1>2. CASE Leave(t, "EAGAIN") \/ Leave(t, "EINVAL")
    BY <1>2, LeaveStep DEF TryDecLoad, Results, Errors
<1>3. CASE /\ deadline[t] \in {"pending", "expired"} /\ Goto(t, "clock")
           /\ UNCHANGED <<old, deadline>>
    BY <1>3, MoveStep, ThreadFacts DEF TryDecLoad, CallOK, Results, Errors
<1>4. QED
    BY <1>1, <1>2, <1>3 DEF TryDecLoad

\* A unit is taken by a compare-and-exchange from a count above 0.
LEMMA TakeStep ==
    ASSUME IInv, NEW t \in Threads, pc[t] \in {"trycas", "deccas"},
           old[t] > 0, Cas(t, old[t] - 1), Leave(t, "taken"), UNCHANGED queue
    PROVE  IInv'
<1>1. count' \in Values /\ count > 0
    BY ThreadFacts, MaxAssumption DEF Cas, Values
<1>2. queue = {} \/ \E u \in Threads \ {t} : pc[u] = "wake"
    BY <1>1 DEF IInv, NoStrandedWaiter
<1>3. "taken" \in Labels /\ CallOK("taken", 0, "none")
    BY DEF Labels, Results, Errors, CallOK
<1>4. QED
    BY <1>1, <1>2, <1>3, ThreadFacts, LabelFacts, ThreadStep DEF Leave, Goto

LEMMA TryDecCasStep ==
    ASSUME IInv, NEW t \in Threads, TryDecCas(t)
    PROVE  IInv'
<1>1. CASE Cas(t, old[t] - 1) /\ Leave(t, "taken") /\ UNCHANGED queue
    BY <1>1, TakeStep, ThreadFacts DEF TryDecCas, CallOK
<1>2. CASE CasFails(t, "trydec")
    BY <1>2, CasFailsStep DEF TryDecCas, CallOK, Results, Errors
<1>3. QED
    BY <1>1, <1>2 DEF TryDecCas

LEMMA CheckTimeStep ==
    ASSUME IInv, NEW t \in Threads, CheckTime(t)
    PROVE  IInv'
<1>1. CASE Leave(t, "ETIMEDOUT")
    BY <1>1, LeaveStep DEF CheckTime, Results, Errors
<1>2. CASE Goto(t, "dec") /\ UNCHANGED <<old, deadline>>
    BY <1>2, MoveStep, ThreadFacts DEF CheckTime, CallOK, Results, Errors
<1>3. QED
    BY <1>1, <1>2 DEF CheckTime

LEMMA DecLoadStep ==
    ASSUME IInv, NEW t \in Threads, DecLoad(t)
    PROVE  IInv'
<1>1. CASE Goto(t, "wait") /\ UNCHANGED <<old, deadline>>
    BY <1>1, MoveStep, ThreadFacts DEF DecLoad, CallOK, Results, Errors
<1>2. CASE count >= 0 /\ Load(t, "deccas")
    BY <1>2, LoadStep, ThreadFacts DEF DecLoad, CallOK, Results, Errors
<1>3. QED
    BY <1>1, <1>2 DEF DecLoad

LEMMA DecCasStep ==
    ASSUME IInv, NEW t \in Threads, DecCas(t)
    PROVE  IInv'
<1>1. CASE Cas(t, old[t] - 1) /\ old[t] > 0 /\ Leave(t, "taken") /\ UNCHANGED queue
    BY <1>1, TakeStep DEF DecCas
<1>2. CASE /\ Cas(t, old[t] - 1) /\ old[t] = 0
           /\ Goto(t, "wait") /\ UNCHANGED <<queue, old, deadline>>
  <2>1. count' = -1
    BY <1>2 DEF Cas
  <2>2. "wait" \in Labels /\ CallOK("wait", old[t], deadline[t])
    BY ThreadFacts DEF DecCas, Labels, Results, Errors, CallOK
  <2>3. old' = [old EXCEPT ![t] = old[t]] /\ deadline' = [deadline EXCEPT ![t] = deadline[t]]
    BY <1>2, ThreadFacts
  <2>4. /\ count' \in Values /\ old[t] \in Values /\ t \notin queue
        /\ deadline[t] \in {"none", "pending", "expired", "invalid"}
    BY <2>1, ThreadFacts, LabelFacts DEF DecCas
  <2>5. QED
    BY <1>2, <2>1, <2>2, <2>3, <2>4, ThreadStep DEF Goto
<1>3. CASE CasFails(t, "dec")
    BY <1>3, CasFailsStep, ThreadFacts DEF DecCas, CallOK, Results, Errors
<1>4. QED
    BY <1>1, <1>2, <1>3 DEF DecCas

\* Going to sleep needs the count to be -1, which is what says that somebody
\* sleeps.
LEMMA FutexWaitStep ==
    ASSUME IInv, NEW t \in Threads, FutexWait(t)
    PROVE  IInv'
<1>1. pc' = [pc EXCEPT ![t] = "sleep"] /\ UNCHANGED <<count, old, deadline>>
    BY DEF FutexWait, Goto
<1>2. pc[t] = "wait" /\ (queue' = queue \/ (count = -1 /\ queue' = queue \cup {t}))
    BY DEF FutexWait, FutexSleeps
<1>3. TypeOK'
    BY <1>1, <1>2 DEF IInv, TypeOK, Labels
<1>4. CallsOK'
    BY <1>1, <1>2 DEF IInv, TypeOK, CallsOK, CallOK, Results, Errors
<1>5. QueueOK'
    BY <1>1, <1>2 DEF IInv, TypeOK, QueueOK
<1>6. NoStrandedWaiter'
  <2>1. \A u \in Threads : pc[u] = "wake" => pc'[u] = "wake"
    BY <1>1, <1>2 DEF IInv, TypeOK
  <2>2. QED
    BY <1>1, <1>2, <2>1 DEF IInv, NoStrandedWaiter
<1>7. QED
    BY <1>3, <1>4, <1>5, <1>6 DEF IInv

LEMMA ResumeStep ==
    ASSUME IInv, NEW t \in Threads, Resume(t)
    PROVE  IInv'
<1>1. CASE deadline[t] = "none"
  <2>1. Goto(t, "dec") /\ CallOK("dec", old[t], deadline[t])
    BY <1>1 DEF Resume, CallOK, Results, Errors
  <2>2. QED
    BY <2>1, MoveStep DEF Resume
<1>2. CASE deadline[t] # "none"
  <2>1. Goto(t, "clock") /\ CallOK("clock", old[t], deadline[t])
    BY <1>2, ThreadFacts DEF Resume, CallOK, Results, Errors
  <2>2. QED
    BY <2>1, MoveStep DEF Resume
<1>3. QED
    BY <1>1, <1>2

\* A thread leaves the queue, with or without ending its call.
LEMMA DequeueStep ==
    ASSUME IInv, NEW t \in queue,
           queue' = queue \ {t},
           UNCHANGED <<pc, old, deadline>> \/ Leave(t, "EINTR") \/ Leave(t, "ETIMEDOUT"),
           UNCHANGED count
    PROVE  IInv'
<1>1. t \in Threads /\ pc[t] = "sleep"
    BY DEF IInv, TypeOK, QueueOK
<1>2. TypeOK'
    BY <1>1, LabelFacts DEF IInv, TypeOK, Leave, Goto, Labels, Results, Errors
<1>3. CallsOK'
    BY <1>1 DEF IInv, TypeOK, CallsOK, CallOK, Leave, Goto, Results, Errors
<1>4. QueueOK'
    BY <1>1 DEF IInv, TypeOK, QueueOK, Leave, Goto
<1>5. NoStrandedWaiter'
  <2>1. \A u \in Threads : pc[u] = "wake" => pc'[u] = "wake"
    BY <1>1 DEF IInv, TypeOK, Leave, Goto
  <2>2. QED
    BY <2>1 DEF IInv, NoStrandedWaiter
<1>6. QED
    BY <1>2, <1>3, <1>4, <1>5 DEF IInv

LEMMA ExpireStep ==
    ASSUME IInv, NEW t \in Threads, Expire(t)
    PROVE  IInv'
<1>1. TypeOK'
    BY DEF IInv, TypeOK, Expire
<1>2. CallsOK'
    BY DEF IInv, TypeOK, CallsOK, CallOK, Expire
<1>3. QueueOK' /\ NoStrandedWaiter'
    BY DEF IInv, QueueOK, NoStrandedWaiter, Expire
<1>4. QED
    BY <1>1, <1>2, <1>3 DEF IInv

LEMMA IncLoadStep ==
    ASSUME IInv, NEW t \in Threads, IncLoad(t)
    PROVE  IInv'
<1>1. CASE Leave(t, "EOVERFLOW")
    BY <1>1, LeaveStep DEF IncLoad, Results, Errors
<1>2. CASE count # MaxValue /\ Load(t, "inccas")
  <2>1. CallOK("inccas", count, deadline[t])
    BY <1>2, ThreadFacts DEF IncLoad, CallOK, Results, Errors
  <2>2. QED
    BY <1>2, <2>1, LoadStep DEF IncLoad
<1>3. QED
    BY <1>1, <1>2 DEF IncLoad

\* The post that finds -1 owes the wake-up call; any other post finds a count
\* of 0 or more, so whoever sleeps is owed one already.
LEMMA IncCasStep ==
    ASSUME IInv, NEW t \in Threads, IncCas(t)
    PROVE  IInv'
<1>1. CASE Cas(t, IF old[t] < 0 THEN 1 ELSE old[t] + 1) /\ UNCHANGED queue
           /\ Leave(t, IF old[t] < 0 THEN "wake" ELSE "given")
  <2>1. old[t] = count /\ count \in Values /\ count # MaxValue /\ t \notin queue
    BY <1>1, ThreadFacts DEF IncCas, Cas, CallOK
  <2>2. count' \in Values
    BY <1>1, <2>1, MaxAssumption DEF Cas, Values
  <2>3. PICK p \in {"wake", "given"} : Leave(t, p) /\ (old[t] < 0 => p = "wake")
    BY <1>1
  <2>4. p \in Labels /\ CallOK(p, 0, "none") /\ 0 \in Values
    BY LabelFacts DEF Labels, Results
  <2>5. queue = {} \/ p = "wake" \/ \E u \in Threads \ {t} : pc[u] = "wake"
    BY <2>1, <2>3 DEF IInv, NoStrandedWaiter, IncCas
  <2>6. QED
    BY <1>1, <2>1, <2>2, <2>3, <2>4, <2>5, ThreadStep DEF Leave, Goto
<1>2. CASE CasFails(t, "inc")
    BY <1>2, CasFailsStep, ThreadFacts DEF IncCas, CallOK, Results, Errors
<1>3. QED
    BY <1>1, <1>2 DEF IncCas

LEMMA WakeStep ==
    ASSUME IInv, NEW t \in Threads, Wake(t)
    PROVE  IInv'
<1>1. queue' = {} /\ pc' = [pc EXCEPT ![t] = "given"] /\ pc[t] = "wake"
    BY DEF Wake, FutexWakeAll, Goto
<1>2. TypeOK'
    BY <1>1 DEF IInv, TypeOK, Wake, Labels, Results
<1>3. CallsOK'
    BY <1>1 DEF IInv, TypeOK, CallsOK, CallOK, Wake, Results, Errors
<1>4. QueueOK' /\ NoStrandedWaiter'
    BY <1>1 DEF QueueOK, NoStrandedWaiter
<1>5. QED
    BY <1>2, <1>3, <1>4 DEF IInv

\* While nobody is inside a call, nobody sleeps.
LEMMA QuietFacts ==
    ASSUME IInv, NEW t \in Threads, Quiet(t)
    PROVE  queue = {} /\ deadline = [u \in Threads |-> "none"]
<1>1. \A u \in Threads : pc[u] # "sleep" /\ deadline[u] = "none"
    BY ThreadFacts DEF Quiet, CallOK, Results, Errors
<1>2. QED
    BY <1>1 DEF IInv, TypeOK, QueueOK

LEMMA ResetStep ==
    ASSUME IInv, NEW t \in Threads,
           SemDestroy(t) \/ \E value \in 0 .. MaxValue : SemInit(t, value)
    PROVE  IInv'
<1>1. CASE pc' = pc
  <2>1. queue = {} /\ count' \in Values
    BY <1>1, QuietFacts, ThreadFacts, MaxAssumption DEF SemDestroy, SemInit, Values
  <2>2. QED
    BY <1>1, <2>1 DEF IInv, TypeOK, CallsOK, QueueOK, NoStrandedWaiter, SemDestroy, SemInit
<1>2. CASE SemDestroy(t) /\ Goto(t, "EBUSY") /\ UNCHANGED count
  <2>1. pc[t] = "idle" /\ deadline[t] = "none" /\ old[t] \in Values /\ t \notin queue
    BY <1>2, ThreadFacts DEF SemDestroy, Quiet, CallOK
  <2>2. "EBUSY" \in Labels /\ CallOK("EBUSY", old[t], "none")
    BY DEF Labels, Results, Errors, CallOK
  <2>3. old' = [old EXCEPT ![t] = old[t]] /\ deadline' = [deadline EXCEPT ![t] = "none"]
    BY <1>2, <2>1, ThreadFacts DEF SemDestroy
  <2>4. QED
    BY <1>2, <2>1, <2>2, <2>3, LocalStep DEF SemDestroy, Goto
<1>3. QED
    BY <1>1, <1>2 DEF SemDestroy, SemInit

LEMMA ReturnStep ==
    ASSUME IInv, NEW t \in Threads, Return(t)
    PROVE  IInv'
BY LeaveStep DEF Return, Results, Errors

----------------------------------------------------------------------------
LEMMA NextIInv == IInv /\ [Next]_vars => IInv'
<1>1. ASSUME IInv, UNCHANGED vars
      PROVE  IInv'
    BY <1>1 DEF IInv, TypeOK, CallsOK, QueueOK, NoStrandedWaiter, vars
<1>2. ASSUME IInv, NEW t \in Threads, Start(t)
      PROVE  IInv'
  <2>1. CASE SemWait(t) \/ SemTryWait(t) \/ SemTimedWait(t) \/ SemPost(t)
    BY <1>2, <2>1, CallStep DEF SemWait, SemTryWait, SemTimedWait, SemPost
  <2>2. CASE SemDestroy(t) \/ \E value \in 0 .. MaxValue : SemInit(t, value)
    BY <1>2, <2>2, ResetStep
  <2>3. QED
    BY <1>2, <2>1, <2>2 DEF Start
<1>3. ASSUME IInv, NEW t \in Threads, Run(t)
      PROVE  IInv'
    BY <1>3, TryDecLoadStep, TryDecCasStep, CheckTimeStep, DecLoadStep, DecCasStep,
       FutexWaitStep, ResumeStep, IncLoadStep, IncCasStep, WakeStep, ReturnStep DEF Run
<1>4. ASSUME IInv, NEW t \in Threads, FutexInterrupted(t) \/ FutexTimesOut(t)
      PROVE  IInv'
    BY <1>4, DequeueStep DEF FutexInterrupted, FutexTimesOut
<1>5. QED
    BY <1>1, <1>2, <1>3, <1>4, ExpireStep DEF Next

\* The invariant from which the theorems below follow: what a caller has
\* loaded still justifies its next step, and every sleeper is inside a wait.
THEOREM Invariance == Spec => []IInv
BY InitIInv, NextIInv, PTL DEF Spec

\* sem->count stays between -1 and SEM_MAX_VALUE, whatever posts race at the
\* limit.
THEOREM TypeCorrect == Spec => []TypeOK
<1>1. IInv => TypeOK
    BY DEF IInv
<1>2. QED
    BY <1>1, Invariance, PTL

\* No unit is posted past a thread that sleeps in sem_wait or sem_timedwait,
\* for any number of threads.
THEOREM WaitersRemembered == Spec => []NoStrandedWaiter
<1>1. IInv => NoStrandedWaiter
    BY DEF IInv
<1>2. QED
    BY <1>1, Invariance, PTL

----------------------------------------------------------------------------
(* The semaphore implements AbstractSemaphore: each step is a step of it,  *)
(* or changes nothing that a caller sees.                                  *)

ResultMap == [t \in Threads |-> Outcome(pc[t])]

Simulates == [Abstract!Next]_(Abstract!vars)

LEMMA OutcomeFacts ==
    /\ \A p \in Labels \ ({"wake"} \cup Results) : Outcome(p) = "none"
    /\ \A p \in Results : Outcome(p) = p
    /\ Outcome("wake") = "given"
    /\ "none" \notin Results
BY DEF Outcome, Results, Errors, Labels

LEMMA ResultMove ==
    ASSUME IInv, NEW t \in Threads, NEW p, pc' = [pc EXCEPT ![t] = p]
    PROVE  /\ ResultMap' = [ResultMap EXCEPT ![t] = Outcome(p)]
           /\ ResultMap[t] = Outcome(pc[t])
BY DEF IInv, TypeOK, ResultMap

\* A step that does not decide the call and keeps the visible value.
LEMMA Invisible ==
    ASSUME IInv, NEW t \in Threads, NEW p, pc' = [pc EXCEPT ![t] = p],
           Outcome(p) = Outcome(pc[t]),
           GetValue' = GetValue, deadline' = deadline
    PROVE  Simulates
<1>1. ResultMap' = ResultMap
    BY ResultMove DEF ResultMap
<1>2. QED
    BY <1>1 DEF Simulates, ResultMap, Abstract!vars

\* A call that returns an errno, which is true when it is decided.
LEMMA Refusal ==
    ASSUME IInv, NEW t \in Threads, NEW errno \in Errors,
           pc' = [pc EXCEPT ![t] = errno], Outcome(pc[t]) = "none",
           deadline' = [deadline EXCEPT ![t] = "none"], GetValue' = GetValue,
           errno \in {"EAGAIN", "EBUSY"} => GetValue = 0,
           errno = "EOVERFLOW" => GetValue = MaxValue,
           errno = "ETIMEDOUT" => deadline[t] = "expired",
           errno = "EINVAL" => deadline[t] = "invalid",
           errno = "EINTR" => deadline[t] \in {"pending", "expired"}
    PROVE  Simulates
<1>1. Outcome(errno) = errno
    BY OutcomeFacts DEF Results
<1>2. Abstract!Refuse(t, errno)
    BY <1>1, ResultMove DEF ResultMap, Abstract!Refuse, Abstract!Truthful
<1>3. Abstract!Next
    BY <1>2 DEF Abstract!Next, Errors
<1>4. QED
    BY <1>3 DEF Simulates

LEMMA Taking ==
    ASSUME IInv, NEW t \in Threads, pc[t] \in {"trycas", "deccas"},
           old[t] > 0, Cas(t, old[t] - 1), Leave(t, "taken")
    PROVE  Simulates
<1>1. GetValue > 0 /\ GetValue' = GetValue - 1
    BY ThreadFacts, MaxAssumption DEF Cas, GetValue, Values
<1>2. Outcome(pc[t]) = "none" /\ Outcome("taken") = "taken"
    BY OutcomeFacts DEF Outcome, Results, Errors
<1>3. Abstract!Take(t)
    BY <1>1, <1>2, ResultMove DEF ResultMap, Abstract!Take, Leave, Goto
<1>4. Abstract!Next
    BY <1>3 DEF Abstract!Next
<1>5. QED
    BY <1>4 DEF Simulates

LEMMA StartRefines ==
    ASSUME IInv, NEW t \in Threads, Start(t)
    PROVE  Simulates
<1>1. ASSUME NEW label \in {"dec", "trydec", "inc"},
             Call(t, label, "none")
      PROVE  Simulates
  <2>1. Outcome(label) = Outcome(pc[t])
    BY <1>1, OutcomeFacts DEF Call, Labels, Results, Errors
  <2>2. deadline' = deadline
    BY <1>1, ThreadFacts DEF Call, CallOK
  <2>3. QED
    BY <1>1, <2>1, <2>2, Invisible DEF Call, Goto, GetValue
<1>2. ASSUME NEW abstime \in {"pending", "invalid"},
             Call(t, "trydec", abstime)
      PROVE  Simulates
  <2>1. Outcome("trydec") = "none" /\ Outcome(pc[t]) = "none"
    BY <1>2, OutcomeFacts DEF Call, Labels, Results, Errors
  <2>2. ResultMap' = [ResultMap EXCEPT ![t] = "none"] /\ ResultMap[t] = "none"
    <3>1. pc' = [pc EXCEPT ![t] = "trydec"]
      BY <1>2 DEF Call, Goto
    <3>2. /\ ResultMap' = [ResultMap EXCEPT ![t] = Outcome("trydec")]
          /\ ResultMap[t] = Outcome(pc[t])
      BY <3>1, ResultMove
    <3>3. QED
      BY <2>1, <3>2
  <2>3. ResultMap' = ResultMap
    BY <2>2 DEF ResultMap
  <2>4. deadline[t] = "none"
    BY <1>2, ThreadFacts DEF Call, CallOK
  <2>5. Abstract!StartTimed(t)
    BY <1>2, <2>2, <2>3, <2>4 DEF ResultMap, Abstract!StartTimed, Call, GetValue
  <2>6. Abstract!Next
    BY <2>5 DEF Abstract!Next
  <2>7. QED
    BY <2>6 DEF Simulates
<1>3. CASE SemDestroy(t) /\ count < 0 /\ Goto(t, "EBUSY") /\ UNCHANGED count
  <2>1. pc[t] = "idle" /\ deadline[t] = "none" /\ GetValue = 0 /\ GetValue' = GetValue
    BY <1>3, ThreadFacts DEF SemDestroy, Quiet, CallOK, GetValue
  <2>2. Outcome(pc[t]) = "none"
    BY <2>1, OutcomeFacts DEF Labels, Results, Errors
  <2>3. deadline' = [deadline EXCEPT ![t] = "none"]
    BY <1>3, <2>1, ThreadFacts DEF SemDestroy
  <2>4. QED
    BY <1>3, <2>1, <2>2, <2>3, Refusal DEF Goto, Errors
<1>4. ASSUME Quiet(t), count' \in 0 .. MaxValue, UNCHANGED <<pc, deadline>>
      PROVE  Simulates
  <2>1. GetValue' \in 0 .. MaxValue
    BY <1>4 DEF GetValue
  <2>2. Abstract!Reset
    BY <1>4, <2>1, QuietFacts DEF Abstract!Reset
  <2>3. QED
    BY <2>2 DEF Simulates, Abstract!Next
<1>5. QED
    BY <1>1, <1>2, <1>3, <1>4, MaxAssumption
       DEF Start, SemWait, SemTryWait, SemTimedWait, SemPost, SemDestroy, SemInit

LEMMA WaitRefines ==
    ASSUME IInv, NEW t \in Threads,
           TryDecLoad(t) \/ TryDecCas(t) \/ CheckTime(t) \/ DecLoad(t) \/ DecCas(t)
    PROVE  Simulates
<1> DEFINE Moving == {"trydec", "trycas", "clock", "dec", "deccas", "wait"}
<1>0. pc[t] \in Moving /\ \A p \in Moving : Outcome(p) = "none"
    BY OutcomeFacts DEF TryDecLoad, TryDecCas, CheckTime, DecLoad, DecCas,
       Labels, Results, Errors
<1>1. ASSUME NEW p \in Moving, Goto(t, p), GetValue' = GetValue, deadline' = deadline
      PROVE  Simulates
    BY <1>0, <1>1, Invisible DEF Goto
<1>2. TryDecLoad(t) => Simulates
  <2>1. CASE count <= 0 /\ TryDecLoad(t) /\ Leave(t, "EAGAIN")
    <3>1. GetValue = 0 /\ GetValue' = GetValue
      BY <2>1, ThreadFacts DEF TryDecLoad, GetValue, Values
    <3>2. QED
      BY <1>0, <2>1, <3>1, Refusal DEF Leave, Goto, Errors
  <2>2. CASE deadline[t] = "invalid" /\ TryDecLoad(t) /\ Leave(t, "EINVAL")
    BY <1>0, <2>2, Refusal DEF TryDecLoad, Leave, Goto, GetValue, Errors
  <2>3. QED
    BY <1>1, <2>1, <2>2 DEF TryDecLoad, Load, GetValue
<1>3. TryDecCas(t) => Simulates
    BY <1>1, ThreadFacts, Taking DEF TryDecCas, CasFails, CallOK, GetValue
<1>4. CheckTime(t) => Simulates
  <2>1. CASE deadline[t] = "expired" /\ CheckTime(t) /\ Leave(t, "ETIMEDOUT")
    BY <1>0, <2>1, Refusal DEF CheckTime, Leave, Goto, GetValue, Errors
  <2>2. QED
    BY <1>1, <2>1 DEF CheckTime, GetValue
<1>5. DecLoad(t) => Simulates
    BY <1>1 DEF DecLoad, Load, GetValue
<1>6. DecCas(t) => Simulates
  <2>1. CASE Cas(t, old[t] - 1) /\ old[t] = 0 /\ Goto(t, "wait") /\ UNCHANGED deadline
    BY <1>1, <2>1 DEF Cas, GetValue
  <2>2. QED
    BY <1>1, <2>1, Taking DEF DecCas, CasFails, GetValue
<1>7. QED
    BY <1>2, <1>3, <1>4, <1>5, <1>6

LEMMA SleepRefines ==
    ASSUME IInv, NEW t \in Threads,
           FutexWait(t) \/ Resume(t) \/ FutexInterrupted(t) \/ FutexTimesOut(t)
    PROVE  Simulates
<1>1. pc[t] \in {"wait", "sleep"} /\ Outcome(pc[t]) = "none" /\ GetValue' = GetValue
    BY OutcomeFacts DEF IInv, QueueOK, FutexWait, Resume, FutexInterrupted, FutexTimesOut,
       Labels, Results, Errors, GetValue
<1>2. ASSUME NEW p \in {"sleep", "dec", "clock"}, Goto(t, p), UNCHANGED deadline
      PROVE  Simulates
  <2>1. Outcome(p) = "none"
    BY OutcomeFacts DEF Labels, Results, Errors
  <2>2. QED
    BY <1>1, <1>2, <2>1, Invisible DEF Goto
<1>3. ASSUME UNCHANGED <<pc, deadline>>
      PROVE  Simulates
    BY <1>1, <1>3 DEF Simulates, Abstract!vars
<1>4. CASE t \in queue /\ deadline[t] # "none" /\ Leave(t, "EINTR")
  <2>1. deadline[t] \in {"pending", "expired"}
    BY <1>1, <1>4, ThreadFacts DEF CallOK
  <2>2. QED
    BY <1>1, <1>4, <2>1, Refusal DEF Leave, Goto, Errors
<1>5. CASE deadline[t] = "expired" /\ Leave(t, "ETIMEDOUT")
    BY <1>1, <1>5, Refusal DEF Leave, Goto, Errors
<1>6. QED
    BY <1>2, <1>3, <1>4, <1>5 DEF FutexWait, Resume, FutexInterrupted, FutexTimesOut

LEMMA PostRefines ==
    ASSUME IInv, NEW t \in Threads, IncLoad(t) \/ IncCas(t) \/ Wake(t)
    PROVE  Simulates
<1>1. pc[t] \in {"inc", "inccas"} => Outcome(pc[t]) = "none"
    BY OutcomeFacts DEF Labels, Results, Errors
<1>2. ASSUME pc[t] \in {"inc", "inccas"}, NEW p \in {"inc", "inccas"}, Goto(t, p),
             UNCHANGED <<count, deadline>>
      PROVE  Simulates
  <2>1. Outcome(p) = "none" /\ GetValue' = GetValue
    BY <1>2, OutcomeFacts DEF Labels, Results, Errors, GetValue
  <2>2. QED
    BY <1>1, <1>2, <2>1, Invisible DEF Goto
<1>3. CASE IncLoad(t) /\ count = MaxValue /\ Leave(t, "EOVERFLOW")
  <2>1. GetValue = MaxValue /\ GetValue' = GetValue
    BY <1>3, MaxAssumption DEF IncLoad, GetValue
  <2>2. QED
    BY <1>1, <1>3, <2>1, Refusal DEF IncLoad, Leave, Goto, Errors
<1>4. CASE /\ pc[t] = "inccas" /\ Cas(t, IF old[t] < 0 THEN 1 ELSE old[t] + 1)
           /\ Leave(t, IF old[t] < 0 THEN "wake" ELSE "given")
  <2>1. old[t] = count /\ count \in Values /\ count # MaxValue /\ deadline[t] = "none"
    BY <1>4, ThreadFacts DEF Cas, CallOK
  <2>2. GetValue < MaxValue /\ GetValue' = GetValue + 1
    BY <1>4, <2>1, MaxAssumption DEF Cas, Values, GetValue
  <2>3. PICK p \in {"wake", "given"} : Leave(t, p)
    BY <1>4
  <2>4. Outcome(p) = "given"
    BY <2>3, OutcomeFacts DEF Results
  <2>5. deadline' = deadline
    BY <2>1, <2>3, ThreadFacts DEF Leave
  <2>6. Abstract!Give(t)
    <3>1. pc' = [pc EXCEPT ![t] = p]
      BY <2>3 DEF Leave, Goto
    <3>2. /\ ResultMap' = [ResultMap EXCEPT ![t] = Outcome(p)]
          /\ ResultMap[t] = Outcome(pc[t])
      BY <3>1, ResultMove
    <3>3. QED
      BY <1>1, <1>4, <2>2, <2>4, <2>5, <3>2 DEF ResultMap, Abstract!Give
  <2>7. Abstract!Next
    BY <2>6 DEF Abstract!Next
  <2>8. QED
    BY <2>7 DEF Simulates
<1>5. CASE Wake(t)
  <2>1. Outcome(pc[t]) = Outcome("given") /\ GetValue' = GetValue
    BY <1>5, OutcomeFacts DEF Wake, Results, GetValue
  <2>2. QED
    BY <1>5, <2>1, Invisible DEF Wake, Goto
<1>6. QED
    BY <1>2, <1>3, <1>4, <1>5 DEF IncLoad, IncCas, Load, CasFails

LEMMA ReturnRefines ==
    ASSUME IInv, NEW t \in Threads, Return(t)
    PROVE  Simulates
<1>1. Outcome(pc[t]) # "none" /\ Outcome("idle") = "none"
    BY OutcomeFacts DEF Return, Labels, Results, Errors
<1>2. deadline' = deadline
    BY ThreadFacts DEF Return, Leave, CallOK
<1>3. Abstract!Return(t)
    BY <1>1, <1>2, ResultMove DEF ResultMap, Abstract!Return, Return, Leave, Goto, GetValue
<1>4. QED
    BY <1>3 DEF Simulates, Abstract!Next

LEMMA ExpireRefines ==
    ASSUME IInv, NEW t \in Threads, Expire(t)
    PROVE  Simulates
<1>1. Abstract!Expire(t)
    BY DEF Expire, Abstract!Expire, GetValue
<1>2. QED
    BY <1>1 DEF Simulates, Abstract!Next

LEMMA NextRefines == IInv /\ [Next]_vars => [Abstract!Next]_(Abstract!vars)
<1>1. ASSUME IInv, UNCHANGED vars
      PROVE  Simulates
    BY <1>1 DEF Simulates, vars, Abstract!vars, GetValue
<1>2. ASSUME IInv, NEW t \in Threads, Run(t)
      PROVE  Simulates
    BY <1>2, WaitRefines, SleepRefines, PostRefines, ReturnRefines DEF Run
<1>3. IInv /\ [Next]_vars => Simulates
    BY <1>1, <1>2, StartRefines, SleepRefines, ExpireRefines DEF Next
<1>4. QED
    BY <1>3 DEF Simulates

\* Behind the -1 for contention and the retry loops, every sem_* call takes
\* effect in one step: units are neither lost nor made up.
THEOREM Refinement == Spec => ImplementsAbstractSemaphore
<1>1. Init => Abstract!Init
    BY MaxAssumption, OutcomeFacts DEF Init, Abstract!Init, GetValue, Labels, Results, Errors
<1>2. QED
    BY <1>1, NextRefines, Invariance, PTL DEF Spec, ImplementsAbstractSemaphore, Abstract!Spec

----------------------------------------------------------------------------
(* The condition variable.  The hypothesis on CounterSize is PthreadCond's *)
(* CounterAssumption.  First the inductive invariant.                      *)

CONSTANTS CounterSize, NoThread
VARIABLES value, holder, oldvalue, missed
Cond == INSTANCE PthreadCond

\* Only a thread inside FUTEX_WAIT is on the queue of the word.
CondQueueOK == \A t \in queue : pc[t] = "sleep"

\* A waiter that a pulse has told something, and that has not compared yet,
\* will see that the counter has moved.
CondToldSeesChange ==
    \A t \in Threads :
        pc[t] \in {"unlock", "wait"} /\ missed[t] # "nothing" => value # oldvalue[t]

\* The condition variable is destroyed only while nobody uses its word.
CondDestroyedUnused ==
    value = Cond!Destroyed =>
        \A t \in Threads : pc[t] \in {"idle", "relock", "timedout", "ETIMEDOUT"}

CondIInv == Cond!TypeOK /\ CondQueueOK /\ CondToldSeesChange /\ CondDestroyedUnused
    /\ Cond!BroadcastReachesAll

----------------------------------------------------------------------------
(* The arithmetic of the counter.                                          *)

\* The counter stays within its width: android_atomic_cmpxchg stores a value
\* masked by COND_COUNTER_MASK.
LEMMA CondDecrementedType ==
    ASSUME CounterSize \in Nat \ {0}
    PROVE  \A v \in -1 .. CounterSize - 1 : Cond!Decremented(v) \in 0 .. CounterSize - 1
BY DEF Cond!Decremented

LEMMA CondInitIInv ==
    ASSUME CounterSize \in Nat \ {0}, Cond!Init
    PROVE  CondIInv
BY DEF Cond!Init, CondIInv, Cond!TypeOK, CondQueueOK, CondToldSeesChange, CondDestroyedUnused,
    Cond!BroadcastReachesAll, Cond!Labels, Cond!Destroyed

\* The types of what a pulse leaves in the history.
LEMMA CondMissedType ==
    ASSUME Cond!TypeOK, NEW kind \in {"signal", "broadcast"}
    PROVE  Cond!Missed(kind) \in [Threads -> {"nothing", "signal", "broadcast"}]
BY DEF Cond!TypeOK, Cond!Missed

----------------------------------------------------------------------------
(* The steps.                                                              *)

LEMMA CondTypeStep ==
    ASSUME CounterSize \in Nat \ {0}, Cond!TypeOK, Cond!Next
    PROVE  Cond!TypeOK'
<1>1. PICK t \in Threads :
        Cond!Call(t) \/ Cond!Run(t) \/ Cond!FutexInterrupted(t) \/ Cond!FutexTimesOut(t)
        \/ Cond!Expire(t)
    BY DEF Cond!Next
<1>2. CASE Cond!MutexLock(t) \/ Cond!MutexUnlock(t)
    BY <1>2 DEF Cond!TypeOK, Cond!MutexLock, Cond!MutexUnlock
<1>3. CASE Cond!CondTimedOutAtOnce(t) \/ Cond!Return(t) \/ Cond!Relock(t) \/ Cond!WaitUnlock(t)
    BY <1>3 DEF Cond!TypeOK, Cond!CondTimedOutAtOnce, Cond!Return, Cond!Relock,
       Cond!WaitUnlock, Cond!Goto, Cond!Labels
<1>4. ASSUME NEW abstime \in {"none", "pending"}, Cond!CondWait(t, abstime)
      PROVE  Cond!TypeOK'
    BY <1>4 DEF Cond!TypeOK, Cond!CondWait, Cond!Goto, Cond!Labels, Cond!Destroyed
<1>5. ASSUME NEW kind \in {"signal", "broadcast"}, Cond!PulseDecrement(t, kind)
      PROVE  Cond!TypeOK'
  <2>1. value' \in -1 .. CounterSize - 1
    BY <1>5, CondDecrementedType DEF Cond!TypeOK, Cond!PulseDecrement
  <2>2. missed' \in [Threads -> {"nothing", "signal", "broadcast"}]
    BY <1>5, CondMissedType DEF Cond!PulseDecrement
  <2>3. pc' \in [Threads -> Cond!Labels]
    BY <1>5 DEF Cond!TypeOK, Cond!PulseDecrement, Cond!Goto, Cond!Labels
  <2>4. QED
    BY <1>5, <2>1, <2>2, <2>3 DEF Cond!TypeOK, Cond!PulseDecrement
<1>6. CASE Cond!CondDestroy(t) \/ Cond!CondInit(t)
    BY <1>6 DEF Cond!TypeOK, Cond!CondDestroy, Cond!CondInit, Cond!Destroyed
<1>7. CASE Cond!FutexWait(t)
    BY <1>7 DEF Cond!TypeOK, Cond!FutexWait, Cond!Awake, Cond!Goto, Cond!Labels
<1>8. CASE Cond!FutexReturns(t) \/ Cond!FutexInterrupted(t) \/ Cond!FutexTimesOut(t)
    BY <1>8 DEF Cond!TypeOK, Cond!FutexReturns, Cond!FutexInterrupted, Cond!FutexTimesOut,
        Cond!Awake, Cond!Goto, Cond!Labels
<1>9. CASE Cond!PulseWake(t)
    BY <1>9 DEF Cond!TypeOK, Cond!PulseWake, Cond!Goto, Cond!Labels, Cond!FutexWakeOne,
       Cond!FutexWakeAll
<1>10. CASE Cond!Expire(t)
    BY <1>10 DEF Cond!TypeOK, Cond!Expire
<1>11. QED
    BY <1>1, <1>2, <1>3, <1>4, <1>5, <1>6, <1>7, <1>8, <1>9, <1>10
       DEF Cond!Call, Cond!Run, Cond!CondSignal, Cond!CondBroadcast

LEMMA CondQueueStep == ASSUME CondIInv, Cond!Next PROVE CondQueueOK'
<1>1. PICK t \in Threads :
        Cond!Call(t) \/ Cond!Run(t) \/ Cond!FutexInterrupted(t) \/ Cond!FutexTimesOut(t)
        \/ Cond!Expire(t)
    BY DEF Cond!Next
<1> USE DEF CondIInv, Cond!TypeOK, CondQueueOK
<1>2. CASE Cond!MutexLock(t) \/ Cond!MutexUnlock(t) \/ Cond!CondDestroy(t)
           \/ Cond!CondInit(t) \/ Cond!Expire(t)
    BY <1>2 DEF Cond!MutexLock, Cond!MutexUnlock, Cond!CondDestroy, Cond!CondInit, Cond!Expire
<1>3. CASE Cond!CondTimedOutAtOnce(t) \/ Cond!Return(t) \/ Cond!Relock(t) \/ Cond!WaitUnlock(t)
    BY <1>3 DEF Cond!CondTimedOutAtOnce, Cond!Return, Cond!Relock, Cond!WaitUnlock, Cond!Goto
<1>4. CASE \E abstime \in {"none", "pending"} : Cond!CondWait(t, abstime)
    BY <1>4 DEF Cond!CondWait, Cond!Goto
<1>5. CASE \E kind \in {"signal", "broadcast"} : Cond!PulseDecrement(t, kind)
    BY <1>5 DEF Cond!PulseDecrement, Cond!Goto
<1>6. CASE Cond!FutexWait(t)
    BY <1>6 DEF Cond!FutexWait, Cond!Awake, Cond!Goto
<1>7. CASE Cond!FutexReturns(t) \/ Cond!FutexInterrupted(t) \/ Cond!FutexTimesOut(t)
    BY <1>7 DEF Cond!FutexReturns, Cond!FutexInterrupted, Cond!FutexTimesOut, Cond!Awake,
       Cond!Goto
<1>8. CASE Cond!PulseWake(t)
    BY <1>8 DEF Cond!PulseWake, Cond!Goto, Cond!FutexWakeOne, Cond!FutexWakeAll
<1>9. QED
    BY <1>1, <1>2, <1>3, <1>4, <1>5, <1>6, <1>7, <1>8 DEF Cond!Call, Cond!Run, Cond!CondSignal,
       Cond!CondBroadcast

\* A pulse moves the counter, and by NoExactWrap not onto what a waiter is
\* about to compare it with; initialising meets no waiter.
LEMMA CondToldStep == ASSUME CondIInv, Cond!Next PROVE CondToldSeesChange'
<1>1. PICK t \in Threads :
        Cond!Call(t) \/ Cond!Run(t) \/ Cond!FutexInterrupted(t) \/ Cond!FutexTimesOut(t)
        \/ Cond!Expire(t)
    BY DEF Cond!Next
<1> USE DEF CondIInv, Cond!TypeOK, CondToldSeesChange
<1>2. CASE Cond!MutexLock(t) \/ Cond!MutexUnlock(t) \/ Cond!Expire(t)
    BY <1>2 DEF Cond!MutexLock, Cond!MutexUnlock, Cond!Expire
<1>3. CASE Cond!CondTimedOutAtOnce(t) \/ Cond!Return(t) \/ Cond!Relock(t) \/ Cond!WaitUnlock(t)
    BY <1>3 DEF Cond!CondTimedOutAtOnce, Cond!Return, Cond!Relock, Cond!WaitUnlock, Cond!Goto
<1>4. CASE \E abstime \in {"none", "pending"} : Cond!CondWait(t, abstime)
    BY <1>4 DEF Cond!CondWait, Cond!Goto
<1>5. CASE \E kind \in {"signal", "broadcast"} : Cond!PulseDecrement(t, kind)
    BY <1>5 DEF Cond!PulseDecrement, Cond!NoExactWrap, Cond!Goto
<1>6. CASE Cond!CondDestroy(t) \/ Cond!CondInit(t)
    BY <1>6 DEF Cond!CondDestroy, Cond!CondInit, CondDestroyedUnused
<1>7. CASE Cond!FutexWait(t)
    BY <1>7 DEF Cond!FutexWait, Cond!Awake, Cond!Goto
<1>8. CASE Cond!FutexReturns(t) \/ Cond!FutexInterrupted(t) \/ Cond!FutexTimesOut(t)
    BY <1>8 DEF Cond!FutexReturns, Cond!FutexInterrupted, Cond!FutexTimesOut, Cond!Awake,
       Cond!Goto
<1>9. CASE Cond!PulseWake(t)
    BY <1>9 DEF Cond!PulseWake, Cond!Goto
<1>10. QED
    BY <1>1, <1>2, <1>3, <1>4, <1>5, <1>6, <1>7, <1>8, <1>9
       DEF Cond!Call, Cond!Run, Cond!CondSignal, Cond!CondBroadcast

LEMMA CondDestroyedStep ==
    ASSUME CounterSize \in Nat \ {0}, CondIInv, Cond!Next
    PROVE  CondDestroyedUnused'
<1>1. PICK t \in Threads :
        Cond!Call(t) \/ Cond!Run(t) \/ Cond!FutexInterrupted(t) \/ Cond!FutexTimesOut(t)
        \/ Cond!Expire(t)
    BY DEF Cond!Next
<1> USE DEF CondIInv, Cond!TypeOK, CondDestroyedUnused
<1>2. CASE Cond!MutexLock(t) \/ Cond!MutexUnlock(t) \/ Cond!Expire(t) \/ Cond!CondDestroy(t)
    BY <1>2 DEF Cond!MutexLock, Cond!MutexUnlock, Cond!Expire, Cond!CondDestroy
<1>3. CASE Cond!CondTimedOutAtOnce(t) \/ Cond!Return(t) \/ Cond!Relock(t) \/ Cond!WaitUnlock(t)
    BY <1>3 DEF Cond!CondTimedOutAtOnce, Cond!Return, Cond!Relock, Cond!WaitUnlock, Cond!Goto
<1>4. CASE \E abstime \in {"none", "pending"} : Cond!CondWait(t, abstime)
    BY <1>4 DEF Cond!CondWait, Cond!Goto
<1>5. ASSUME NEW kind \in {"signal", "broadcast"}, Cond!PulseDecrement(t, kind)
      PROVE  CondDestroyedUnused'
  <2>1. value' = Cond!Decremented(value) /\ value \in -1 .. CounterSize - 1
    BY <1>5 DEF Cond!PulseDecrement
  <2>2. value' \in 0 .. CounterSize - 1
    BY <2>1, CondDecrementedType
  <2>3. value' # Cond!Destroyed
    BY <2>2 DEF Cond!Destroyed
  <2>4. QED
    BY <2>3 DEF Cond!Destroyed
<1>6. CASE Cond!CondInit(t)
    BY <1>6 DEF Cond!CondInit
<1>7. CASE Cond!FutexWait(t)
    BY <1>7 DEF Cond!FutexWait, Cond!Awake, Cond!Goto
<1>8. CASE Cond!FutexReturns(t) \/ Cond!FutexInterrupted(t) \/ Cond!FutexTimesOut(t)
    BY <1>8 DEF Cond!FutexReturns, Cond!FutexInterrupted, Cond!FutexTimesOut, Cond!Awake,
       Cond!Goto
<1>9. CASE Cond!PulseWake(t)
    BY <1>9 DEF Cond!PulseWake, Cond!Goto
<1>10. QED
    BY <1>1, <1>2, <1>3, <1>4, <1>5, <1>6, <1>7, <1>8, <1>9
       DEF Cond!Call, Cond!Run, Cond!CondSignal, Cond!CondBroadcast

\* What FUTEX_WAIT lets a thread sleep on: it joins the queue only when it has
\* been told nothing since its load.
LEMMA CondJoinsUntold ==
    ASSUME CondIInv, NEW t \in Threads, Cond!FutexWait(t), NEW u \in queue' \ queue
    PROVE  u = t /\ missed[u] = "nothing" /\ missed' = missed
BY DEF CondIInv, Cond!TypeOK, CondToldSeesChange, Cond!FutexWait, Cond!FutexSleeps

\* The queue grows in FUTEX_WAIT and nowhere else.
LEMMA CondOnlyWaitJoins ==
    ASSUME CondIInv, Cond!Next, NEW u \in queue' \ queue
    PROVE  u \in Threads /\ Cond!FutexWait(u)
<1>1. PICK t \in Threads :
        Cond!Call(t) \/ Cond!Run(t) \/ Cond!FutexInterrupted(t) \/ Cond!FutexTimesOut(t)
        \/ Cond!Expire(t)
    BY DEF Cond!Next
<1>2. CASE Cond!FutexWait(t)
    BY <1>2, CondJoinsUntold
<1>3. CASE Cond!Call(t) \/ Cond!FutexInterrupted(t) \/ Cond!FutexTimesOut(t) \/ Cond!Expire(t)
    BY <1>3 DEF Cond!Call, Cond!MutexLock, Cond!MutexUnlock, Cond!CondTimedOutAtOnce,
       Cond!CondWait, Cond!CondSignal,
        Cond!CondBroadcast, Cond!PulseDecrement, Cond!CondDestroy, Cond!CondInit,
        Cond!FutexInterrupted, Cond!FutexTimesOut,
        Cond!Expire
<1>4. CASE Cond!WaitUnlock(t) \/ Cond!FutexReturns(t) \/ Cond!Relock(t) \/ Cond!Return(t)
    BY <1>4 DEF Cond!WaitUnlock, Cond!FutexReturns, Cond!Relock, Cond!Return
<1>5. CASE Cond!PulseWake(t)
    BY <1>5 DEF Cond!PulseWake, Cond!FutexWakeOne, Cond!FutexWakeAll
<1>6. QED
    BY <1>1, <1>2, <1>3, <1>4, <1>5 DEF Cond!Run

\* A pulse makes a sleeper one to be reached by a broadcast only when it is a
\* broadcast itself, which has then its wake-up call to make; the wake-up call
\* of another broadcast is still to come.
LEMMA CondBroadcastStep == ASSUME CondIInv, Cond!Next PROVE Cond!BroadcastReachesAll'
<1>1. PICK t \in Threads :
        Cond!Call(t) \/ Cond!Run(t) \/ Cond!FutexInterrupted(t) \/ Cond!FutexTimesOut(t)
        \/ Cond!Expire(t)
    BY DEF Cond!Next
<1> USE DEF CondIInv, Cond!TypeOK, Cond!BroadcastReachesAll
<1>2. CASE Cond!MutexLock(t) \/ Cond!MutexUnlock(t) \/ Cond!Expire(t) \/ Cond!CondDestroy(t)
           \/ Cond!CondInit(t)
    BY <1>2 DEF Cond!MutexLock, Cond!MutexUnlock, Cond!Expire, Cond!CondDestroy, Cond!CondInit
<1>3. CASE Cond!CondTimedOutAtOnce(t) \/ Cond!Return(t) \/ Cond!Relock(t) \/ Cond!WaitUnlock(t)
    BY <1>3 DEF Cond!CondTimedOutAtOnce, Cond!Return, Cond!Relock, Cond!WaitUnlock, Cond!Goto
<1>4. CASE \E abstime \in {"none", "pending"} : Cond!CondWait(t, abstime)
    BY <1>4 DEF Cond!CondWait, Cond!Goto
<1>5. CASE Cond!PulseDecrement(t, "broadcast")
  <2>1. pc'[t] = "wakeall"
    BY <1>5 DEF Cond!PulseDecrement, Cond!Goto
  <2>2. QED
    BY <2>1
<1>6. CASE Cond!PulseDecrement(t, "signal")
  <2>1. \A s \in Threads : pc[s] = "wakeall" => pc'[s] = "wakeall"
    BY <1>6 DEF Cond!PulseDecrement, Cond!Goto
  <2>2. \A u \in queue' : missed'[u] = "broadcast" => u \in queue /\ missed[u] = "broadcast"
    BY <1>6 DEF Cond!PulseDecrement, Cond!Missed
  <2>3. QED
    BY <2>1, <2>2
<1>7. CASE Cond!FutexWait(t)
  <2>1. \A s \in Threads : pc[s] = "wakeall" => pc'[s] = "wakeall"
    BY <1>7 DEF Cond!FutexWait, Cond!Awake, Cond!Goto
  <2>2. \A u \in queue' : missed'[u] = "broadcast" => u \in queue /\ missed[u] = "broadcast"
    <3>1. \A u \in queue : missed'[u] = missed[u]
        BY <1>7 DEF Cond!FutexWait, Cond!Awake, CondQueueOK
    <3>2. QED
        BY <1>7, <3>1, CondJoinsUntold
  <2>3. QED
    BY <2>1, <2>2
<1>8. CASE Cond!FutexReturns(t) \/ Cond!FutexInterrupted(t) \/ Cond!FutexTimesOut(t)
  <2>1. \A s \in Threads : pc[s] = "wakeall" => pc'[s] = "wakeall"
    BY <1>8 DEF Cond!FutexReturns, Cond!FutexInterrupted, Cond!FutexTimesOut, Cond!Awake,
       Cond!Goto, CondQueueOK
  <2>2. \A u \in queue' : missed'[u] = "broadcast" => u \in queue /\ missed[u] = "broadcast"
    BY <1>8 DEF Cond!FutexReturns, Cond!FutexInterrupted, Cond!FutexTimesOut, Cond!Awake
  <2>3. QED
    BY <2>1, <2>2
<1>9. CASE Cond!PulseWake(t)
    BY <1>9 DEF Cond!PulseWake, Cond!Goto, Cond!FutexWakeOne, Cond!FutexWakeAll
<1>10. QED
    BY <1>1, <1>2, <1>3, <1>4, <1>5, <1>6, <1>7, <1>8, <1>9
       DEF Cond!Call, Cond!Run, Cond!CondSignal, Cond!CondBroadcast

LEMMA CondStepIInv ==
    ASSUME CounterSize \in Nat \ {0}, CondIInv, [Cond!Next]_(Cond!vars)
    PROVE  CondIInv'
<1>1. CASE Cond!Next
    BY <1>1, CondTypeStep, CondQueueStep, CondToldStep, CondDestroyedStep,
       CondBroadcastStep DEF CondIInv
<1>2. CASE UNCHANGED Cond!vars
    BY <1>2 DEF Cond!vars, CondIInv, Cond!TypeOK, CondQueueOK, CondToldSeesChange,
       CondDestroyedUnused, Cond!BroadcastReachesAll
<1>3. QED
    BY <1>1, <1>2

----------------------------------------------------------------------------
(* The theorems.                                                           *)

LEMMA CondInvariance ==
    ASSUME CounterSize \in Nat \ {0}
    PROVE  Cond!Spec => []CondIInv
<1>1. Cond!Init => CondIInv
    BY CondInitIInv
<1>2. CondIInv /\ [Cond!Next]_(Cond!vars) => CondIInv'
    BY CondStepIInv
<1>3. QED
    BY <1>1, <1>2, PTL DEF Cond!Spec

\* Type correctness: in particular the counter that __pthread_cond_pulse
\* decrements stays within its width, and 0xdeadc04d is the only other value.
THEOREM CondTypeCorrect ==
    ASSUME CounterSize \in Nat \ {0}
    PROVE  Cond!Spec => []Cond!TypeOK
<1>1. CondIInv => Cond!TypeOK
    BY DEF CondIInv
<1>2. QED
    BY <1>1, CondInvariance, PTL

\* No thread sleeps through a broadcast: while a thread on the queue was
\* inside its wait when pthread_cond_broadcast began, a broadcast has its
\* FUTEX_WAKE still to make.
THEOREM CondBroadcastReaches ==
    ASSUME CounterSize \in Nat \ {0}
    PROVE  Cond!Spec => []Cond!BroadcastReachesAll
<1>1. CondIInv => Cond!BroadcastReachesAll
    BY DEF CondIInv
<1>2. QED
    BY <1>1, CondInvariance, PTL

\* No lost wake-up: a thread does not go to sleep in FUTEX_WAIT after a signal
\* or broadcast that came after its load of cond->value, whether it came
\* before or after the mutex was unlocked.
THEOREM CondNoLostPulse ==
    ASSUME CounterSize \in Nat \ {0}
    PROVE  Cond!Spec => Cond!NoSleepAfterPulse
<1> DEFINE Untold == \A t \in Threads : t \in queue' \ queue => missed[t] = "nothing"
<1>1. ASSUME CondIInv, [Cond!Next]_(Cond!vars)
      PROVE  [Untold]_(Cond!vars)
  <2>1. CASE Cond!Next
    BY <1>1, <2>1, CondOnlyWaitJoins, CondJoinsUntold
  <2>2. QED
    BY <1>1, <2>1
<1>2. QED
    BY <1>1, CondInvariance, PTL DEF Cond!Spec, Cond!NoSleepAfterPulse
=============================================================================
