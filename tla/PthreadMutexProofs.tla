--------------------------- MODULE PthreadMutexProofs ---------------------------
(***************************************************************************)
(* Proofs about PthreadMutex, for every set of threads, every choice of    *)
(* types and every width of the recursion counter.                         *)
(***************************************************************************)
EXTENDS PthreadMutex, TLAPS

----------------------------------------------------------------------------
(* The inductive invariant.  Its parts are predicates of values rather     *)
(* than of variables, so that what a step leaves alone stays true without  *)
(* looking inside them.                                                    *)

\* The words of a mutex that has not been destroyed.
LiveWords == [type : MutexTypes, owner : 0 .. OwnerLimit - 1,
              counter : 0 .. CounterMax, state : 0 .. 2]

Live(v) == v \in LiveWords /\ (v.state = 0 => v.owner = 0 /\ v.counter = 0)

\* The word v and the depths d of the threads agree.
WordOK(v, d) ==
    /\ v = DestroyedBits => \A t \in Threads : d[t] = 0
    /\ v # DestroyedBits =>
        /\ Live(v)
        /\ v.state = 0 <=> \A t \in Threads : d[t] = 0
        /\ v.type = "NORMAL" =>
              /\ v.owner = 0 /\ v.counter = 0
              /\ \A t \in Threads : d[t] \in {0, 1}
              /\ \A t, u \in Threads : d[t] = 1 /\ d[u] = 1 => t = u
        /\ v.type # "NORMAL" =>
              \A t \in Threads : d[t] = IF v.owner = t THEN v.counter + 1 ELSE 0
        /\ v.type = "ERRORCHECK" => v.counter = 0

HolderLabels == {"inc", "dec", "release"}

TypedLabels == {"fast", "loop", "reload", "recheck", "try"}

WaitLabels == {"check", "wait", "sleep"}

\* A thread t at label p with copy m of the word and depth n, inside a call
\* on the word v.  A holder knows its part of the word exactly; the copy of a
\* contender is stale, but it is of the right type.
ThreadOK(t, v, p, m, n) ==
    /\ p \in HolderLabels \cup TypedLabels \cup WaitLabels \cup {"store", "swap"} =>
          v # DestroyedBits
    /\ p \in {"store", "swap"} => v.type = "NORMAL"
    /\ p = "store" => n = 1
    /\ p \in HolderLabels \cup TypedLabels => v.type # "NORMAL"
    /\ p \in HolderLabels \cup TypedLabels \cup WaitLabels =>
          m \in LiveWords /\ m.type = v.type
    /\ p \in HolderLabels =>
          v.owner = t /\ m.owner = t /\ m.counter = v.counter
    /\ p = "inc" => v.type = "RECURSIVE" /\ v.counter < CounterMax
    /\ p = "dec" => v.counter > 0
    /\ p = "release" => v.counter = 0
    /\ p \in TypedLabels => n = 0
    /\ p \in WaitLabels /\ v.type # "NORMAL" => n = 0
    /\ p \in {"fast", "recheck"} => m = UnlockedBits(m.type)
    /\ p = "check" /\ v.type = "NORMAL" => m.state = 2
    /\ p = "wait" => m.state = 2

\* What an errno says is true of its caller; only a contender has a deadline.
ResultOK(p, n, d) ==
    /\ p = "EDEADLK" => n > 0
    /\ p = "EAGAIN" => n = CounterMax + 1
    /\ p = "EPERM" => n = 0
    /\ p \notin LockLabels => d = "none"

IInv ==
    /\ TypeOK
    /\ WordOK(value, depth)
    /\ \A t \in Threads : ThreadOK(t, value, pc[t], mvalue[t], depth[t])
    /\ \A t \in Threads : ResultOK(pc[t], depth[t], deadline[t])

----------------------------------------------------------------------------
(* Words.                                                                  *)

LEMMA TidFact == \A t \in Threads : OwnerToBits(t) = t /\ t # 0 /\ t \in 0 .. OwnerLimit - 1
BY OwnerAssumption, ThreadsAssumption DEF OwnerToBits

LEMMA LiveFacts == LiveWords \subseteq Words /\ DestroyedBits \in Words
BY DEF LiveWords, Words

\* A word that says it is unlocked is the unlocked word of its type.
LEMMA UnlockedFacts ==
    ASSUME NEW type \in MutexTypes
    PROVE  /\ Live(UnlockedBits(type))
           /\ UnlockedBits(type) # DestroyedBits
           /\ UnlockedBits(type).type = type
           /\ UnlockedBits(type).owner = 0
           /\ UnlockedBits(type).counter = 0
           /\ UnlockedBits(type).state = 0
           /\ \A v : Live(v) /\ v.type = type /\ v.state = 0 => v = UnlockedBits(type)
<1>1. ASSUME NEW v, Live(v), v.type = type, v.state = 0
      PROVE  v = UnlockedBits(type)
  <2>1. v = [type |-> v.type, owner |-> v.owner, counter |-> v.counter, state |-> v.state]
    BY <1>1 DEF Live, LiveWords
  <2>2. v.owner = 0 /\ v.counter = 0
    BY <1>1 DEF Live
  <2>3. QED
    BY <1>1, <2>1, <2>2 DEF UnlockedBits, Bits
<1>2. Live(UnlockedBits(type))
    BY OwnerAssumption, CounterAssumption DEF UnlockedBits, Bits, LiveWords, Live
<1>3. UnlockedBits(type) # DestroyedBits
    BY DEF UnlockedBits, DestroyedBits, Bits
<1>4. QED
    BY <1>1, <1>2, <1>3 DEF UnlockedBits, Bits

LEMMA LockedFacts ==
    ASSUME NEW type \in MutexTypes, NEW t \in Threads, NEW n \in {1, 2}
    PROVE  /\ Live(LockedBits(type, t, n))
           /\ LockedBits(type, t, n) # DestroyedBits
           /\ LockedBits(type, t, n).type = type
           /\ LockedBits(type, t, n).owner = IF type = "NORMAL" THEN 0 ELSE t
           /\ LockedBits(type, t, n).counter = 0
           /\ LockedBits(type, t, n).state = n
<1>1. PICK o \in 0 .. OwnerLimit - 1 :
          /\ o = IF type = "NORMAL" THEN 0 ELSE t
          /\ LockedBits(type, t, n) = Bits(type, o, 0, n)
    BY TidFact, OwnerAssumption DEF LockedBits
<1>2. Bits(type, o, 0, n) \in LiveWords
    BY OwnerAssumption, CounterAssumption DEF Bits, LiveWords
<1>3. Bits(type, o, 0, n).state = n
    BY DEF Bits
<1>4. DestroyedBits.state = 0
    BY DEF Bits, DestroyedBits
<1>5. QED
    BY <1>1, <1>2, <1>3, <1>4 DEF Live, Bits

\* A change of one field of a live word.
LEMMA SetState ==
    ASSUME NEW v, Live(v), NEW n \in {1, 2}
    PROVE  LET w == [v EXCEPT !.state = n]
           IN  /\ Live(w) /\ w # DestroyedBits
               /\ w.type = v.type /\ w.owner = v.owner /\ w.counter = v.counter
               /\ w.state = n
BY DEF Live, LiveWords, DestroyedBits, Bits

LEMMA SetCounter ==
    ASSUME NEW v, Live(v), v.state # 0, NEW n \in 0 .. CounterMax
    PROVE  LET w == [v EXCEPT !.counter = n]
           IN  /\ Live(w) /\ w # DestroyedBits
               /\ w.type = v.type /\ w.owner = v.owner /\ w.counter = n
               /\ w.state = v.state
BY DEF Live, LiveWords, DestroyedBits, Bits

----------------------------------------------------------------------------
(* What a step of one thread leaves of the others.                         *)

\* A thread does not notice that another changes the state of the word, or
\* acquires or releases the mutex.
LEMMA OthersKeep ==
    ASSUME NEW u \in Threads, NEW v, NEW w, NEW p, NEW m, NEW n,
           ThreadOK(u, v, p, m, n),
           v # DestroyedBits, w # DestroyedBits, w.type = v.type,
           v.owner = u => w.owner = u /\ w.counter = v.counter
    PROVE  ThreadOK(u, w, p, m, n)
BY DEF ThreadOK, HolderLabels, TypedLabels, WaitLabels

----------------------------------------------------------------------------
LEMMA InitIInv == Init => IInv
<1> SUFFICES ASSUME Init PROVE IInv
    OBVIOUS
<1>1. PICK type \in MutexTypes : value = UnlockedBits(type)
    BY TypesAssumption DEF Init, MutexTypes
<1>2. NoBits \in Words
    BY UnlockedFacts, LiveFacts DEF NoBits, Live, MutexTypes
<1>3. TypeOK
    BY <1>1, <1>2, UnlockedFacts, LiveFacts, CounterAssumption
    DEF Init, TypeOK, Labels, Live
<1>4. WordOK(value, depth)
    BY <1>1, UnlockedFacts, TidFact DEF Init, WordOK
<1>5. QED
    BY <1>3, <1>4 DEF Init, IInv, ThreadOK, ResultOK, HolderLabels, TypedLabels, WaitLabels

(* A step that changes neither the word nor who holds the mutex.           *)
LEMMA LocalStep ==
    ASSUME IInv, TypeOK', UNCHANGED <<value, depth>>, NEW t \in Threads,
           \A u \in Threads \ {t} :
               pc'[u] = pc[u] /\ mvalue'[u] = mvalue[u] /\ deadline'[u] = deadline[u],
           ThreadOK(t, value, pc'[t], mvalue'[t], depth[t]),
           ResultOK(pc'[t], depth[t], deadline'[t])
    PROVE  IInv'
BY DEF IInv

(* A step of t that may change the word: the others keep their part of it. *)
LEMMA SharedStep ==
    ASSUME IInv, TypeOK', NEW t \in Threads,
           \A u \in Threads \ {t} :
               /\ pc'[u] = pc[u] /\ mvalue'[u] = mvalue[u] /\ deadline'[u] = deadline[u]
               /\ depth'[u] = depth[u]
               /\ value.owner = u => value'.owner = u /\ value'.counter = value.counter,
           value # DestroyedBits, value' # DestroyedBits, value'.type = value.type,
           WordOK(value', depth'),
           ThreadOK(t, value', pc'[t], mvalue'[t], depth'[t]),
           ResultOK(pc'[t], depth'[t], deadline'[t])
    PROVE  IInv'
<1>1. ASSUME NEW u \in Threads \ {t}
      PROVE  ThreadOK(u, value', pc'[u], mvalue'[u], depth'[u])
    BY OthersKeep DEF IInv
<1>2. QED
    BY <1>1 DEF IInv

----------------------------------------------------------------------------
(* Every action preserves the invariant.                                   *)

LEMMA NoBitsFact == NoBits \in Words /\ "NORMAL" \in MutexTypes
BY UnlockedFacts, LiveFacts DEF NoBits, Live, MutexTypes

LEMMA NormalLockStep ==
    ASSUME IInv, NEW t \in Threads, NEW timed \in BOOLEAN, NormalLock(t, timed) PROVE IInv'
<1>1. value # DestroyedBits /\ value.type = "NORMAL" /\ Live(value) /\ value.owner = 0
    BY DEF IInv, NormalLock, Enter, WordOK
<1>2. CASE value = UnlockedBits("NORMAL") /\ value' = LockedBits("NORMAL", t, 1)
            /\ Acquired(t) /\ UNCHANGED <<pc, deadline>>
  <2>1. \A u \in Threads : depth[u] = 0
    BY <1>1, <1>2, NoBitsFact, UnlockedFacts DEF IInv, WordOK
  <2>2. TypeOK'
    BY <1>2, <2>1, NoBitsFact, LockedFacts, LiveFacts, CounterAssumption
    DEF NormalLock, IInv, TypeOK, Acquired, Live
  <2>3. WordOK(value', depth')
    BY <1>1, <1>2, <2>1, NoBitsFact, LockedFacts DEF IInv, TypeOK, WordOK, Acquired
  <2>4. ThreadOK(t, value', pc'[t], mvalue'[t], depth'[t]) /\ ResultOK(pc'[t], depth'[t], deadline'[t])
    BY <1>2 DEF NormalLock, Enter, IInv, ThreadOK, ResultOK, HolderLabels, TypedLabels, WaitLabels
  <2>5. value' # DestroyedBits /\ value'.type = "NORMAL" /\ value'.owner = 0
    BY <1>2, NoBitsFact, LockedFacts
  <2>6. QED
    BY <1>1, <1>2, <2>2, <2>3, <2>4, <2>5, TidFact, SharedStep
    DEF NormalLock, IInv, TypeOK, Acquired
<1>3. CASE SetDeadline(t, timed) /\ Goto(t, "swap") /\ UNCHANGED <<value, depth>>
  <2>1. TypeOK'
    BY <1>3 DEF NormalLock, IInv, TypeOK, SetDeadline, Goto, Labels, LockLabels
  <2>2. ThreadOK(t, value, pc'[t], mvalue'[t], depth[t]) /\ ResultOK(pc'[t], depth[t], deadline'[t])
    BY <1>1, <1>3
    DEF NormalLock, Goto, IInv, TypeOK, ThreadOK, ResultOK, HolderLabels, TypedLabels, WaitLabels, LockLabels
  <2>3. QED
    BY <1>3, <2>1, <2>2, LocalStep DEF NormalLock, IInv, TypeOK, SetDeadline, Goto
<1>4. QED
    BY <1>2, <1>3 DEF NormalLock

LEMMA NormalSwapStep ==
    ASSUME IInv, NEW t \in Threads, NormalSwap(t) PROVE IInv'
<1>1. value # DestroyedBits /\ value.type = "NORMAL" /\ Live(value) /\ value.owner = 0
    BY DEF IInv, NormalSwap, ThreadOK, WordOK
<1>2. value = UnlockedBits("NORMAL") <=> \A u \in Threads : depth[u] = 0
    BY <1>1, NoBitsFact, UnlockedFacts DEF IInv, WordOK
<1>3. value' \in Words /\ value' # DestroyedBits /\ value'.type = "NORMAL" /\ value'.owner = 0
    BY NoBitsFact, LockedFacts, LiveFacts DEF NormalSwap, Live
<1>4. TypeOK'
    BY <1>2, <1>3, NoBitsFact, LockedFacts, LiveFacts, CounterAssumption
    DEF NormalSwap, IInv, TypeOK, Acquired, Leave, Goto, Labels, LockLabels, Live
<1>5. WordOK(value', depth')
    BY <1>1, <1>2, <1>3, NoBitsFact, LockedFacts DEF NormalSwap, IInv, TypeOK, WordOK, Acquired
<1>6. ThreadOK(t, value', pc'[t], mvalue'[t], depth'[t])
    BY <1>3, NoBitsFact, LockedFacts
    DEF NormalSwap, Leave, Goto, IInv, TypeOK, ThreadOK, HolderLabels, TypedLabels, WaitLabels, Live
<1>7. ResultOK(pc'[t], depth'[t], deadline'[t])
    BY DEF NormalSwap, Leave, Goto, IInv, TypeOK, ResultOK, LockLabels
<1>8. QED
    BY <1>1, <1>3, <1>4, <1>5, <1>6, <1>7, TidFact, SharedStep
    DEF NormalSwap, IInv, TypeOK, Acquired, Leave, Goto

(* The typed mutexes.                                                      *)

\* A compare-and-exchange of the unlocked word acquires the mutex.
LEMMA TypedAcquire ==
    ASSUME IInv, NEW t \in Threads, NEW n \in {1, 2},
           value # DestroyedBits, value.type # "NORMAL", UNCHANGED queue,
           CasSucceeds(t, UnlockedBits(value.type), LockedBits(value.type, t, n))
    PROVE  IInv'
<1>1. Live(value) /\ value.type \in MutexTypes
    BY DEF IInv, WordOK, Live, LiveWords
<1>2. value.state = 0 /\ value.owner = 0 /\ \A u \in Threads : depth[u] = 0
    BY <1>1, UnlockedFacts DEF IInv, WordOK, CasSucceeds
<1>3. /\ Live(value') /\ value' # DestroyedBits /\ value'.type = value.type
      /\ value'.owner = t /\ value'.counter = 0 /\ value'.state # 0
    BY <1>1, LockedFacts DEF CasSucceeds
<1>4. TypeOK'
    BY <1>2, <1>3, NoBitsFact, LiveFacts, CounterAssumption
    DEF CasSucceeds, IInv, TypeOK, Acquired, Leave, Goto, Labels, Live
<1>5. WordOK(value', depth')
    BY <1>2, <1>3 DEF CasSucceeds, IInv, TypeOK, WordOK, Acquired
<1>6. ThreadOK(t, value', pc'[t], mvalue'[t], depth'[t]) /\ ResultOK(pc'[t], depth'[t], deadline'[t])
    BY DEF CasSucceeds, Leave, Goto, IInv, TypeOK, ThreadOK, ResultOK, HolderLabels, TypedLabels, WaitLabels
<1>7. \A u \in Threads \ {t} :
          /\ pc'[u] = pc[u] /\ mvalue'[u] = mvalue[u] /\ deadline'[u] = deadline[u]
          /\ depth'[u] = depth[u]
          /\ value.owner # u
    BY <1>2, TidFact DEF CasSucceeds, IInv, TypeOK, Acquired, Leave, Goto
<1>8. QED
    BY <1>3, <1>4, <1>5, <1>6, <1>7, SharedStep

\* A compare-and-exchange that fails only moves the thread.
LEMMA FailStep ==
    ASSUME IInv, NEW t \in Threads, NEW expected, NEW label \in Labels,
           CasFails(t, expected, label), UNCHANGED queue,
           ThreadOK(t, value, label, mvalue[t], depth[t]),
           ResultOK(label, depth[t], deadline[t])
    PROVE  IInv'
<1>1. TypeOK'
    BY DEF CasFails, Goto, IInv, TypeOK
<1>2. QED
    BY <1>1, LocalStep DEF CasFails, Goto, IInv, TypeOK

\* The owner's branch: the errno or the loop of _recursive_increment.
LEMMA RelockFacts ==
    ASSUME IInv, NEW t \in Threads, Relock(t), value # DestroyedBits, value.type # "NORMAL"
    PROVE  /\ value.owner = t /\ UNCHANGED deadline
           /\ pc' = [pc EXCEPT ![t] = pc'[t]]
           /\ \/ pc'[t] = "EDEADLK" /\ value.type = "ERRORCHECK"
              \/ pc'[t] = "EAGAIN" /\ value.type = "RECURSIVE" /\ value.counter = CounterMax
              \/ pc'[t] = "inc" /\ value.type = "RECURSIVE" /\ value.counter < CounterMax
<1>1. value.type \in {"RECURSIVE", "ERRORCHECK"} /\ value.counter \in 0 .. CounterMax
    BY DEF IInv, WordOK, Live, LiveWords, MutexTypes
<1>2. CASE value.type = "ERRORCHECK"
    BY <1>2 DEF Relock, Goto, IInv, TypeOK
<1>3. CASE value.type = "RECURSIVE" /\ value.counter = CounterMax
    BY <1>3 DEF Relock, Goto, IInv, TypeOK
<1>4. CASE value.type = "RECURSIVE" /\ value.counter # CounterMax
  <2>1. pc' = [pc EXCEPT ![t] = "inc"]
    BY <1>4 DEF Relock, Goto
  <2>2. value.counter < CounterMax
    BY <1>1, <1>4, CounterAssumption
  <2>3. QED
    BY <1>4, <2>1, <2>2 DEF Relock, IInv, TypeOK
<1>5. QED
    BY <1>1, <1>2, <1>3, <1>4

LEMMA TypedLockStep ==
    ASSUME IInv, NEW t \in Threads, NEW timed \in BOOLEAN, TypedLock(t, timed) PROVE IInv'
<1>1. value # DestroyedBits /\ value.type # "NORMAL" /\ Live(value) /\ value.type \in MutexTypes
    BY DEF IInv, TypedLock, Enter, WordOK, Live, LiveWords
<1>2. value.owner # t => depth[t] = 0
    BY <1>1 DEF IInv, WordOK
<1>3. value.owner = t => depth[t] = value.counter + 1 /\ depth[t] > 0
    BY <1>1 DEF IInv, WordOK, Live, LiveWords
<1>4. TypeOK'
    BY <1>1, LiveFacts DEF TypedLock, Relock, SetDeadline, Goto, IInv, TypeOK, Labels, LockLabels, Errors, Live
<1>5. ThreadOK(t, value, pc'[t], mvalue'[t], depth[t])
  <2>1. mvalue'[t] = value
    BY DEF TypedLock, IInv, TypeOK
  <2>2. CASE Relock(t)
    BY <1>1, <2>1, <2>2, RelockFacts
    DEF ThreadOK, HolderLabels, TypedLabels, WaitLabels, Live
  <2>3. CASE value.owner # t /\ Goto(t, IF value = UnlockedBits(value.type) THEN "fast" ELSE "loop")
    BY <1>1, <1>2, <2>1, <2>3
    DEF Goto, IInv, TypeOK, ThreadOK, HolderLabels, TypedLabels, WaitLabels, Live
  <2>4. QED
    BY <2>2, <2>3 DEF TypedLock
<1>6. ResultOK(pc'[t], depth[t], deadline'[t])
    BY <1>3 DEF TypedLock, Relock, Enter, Goto, IInv, TypeOK, ResultOK, LockLabels
<1>7. QED
    BY <1>4, <1>5, <1>6, LocalStep DEF TypedLock, Relock, SetDeadline, Goto, IInv, TypeOK

LEMMA TypedTryLockStep ==
    ASSUME IInv, NEW t \in Threads, TypedTryLock(t) PROVE IInv'
<1>1. value # DestroyedBits /\ value.type # "NORMAL" /\ Live(value) /\ value.type \in MutexTypes
    BY DEF IInv, TypedTryLock, Enter, WordOK, Live, LiveWords
<1>2. value.owner # t => depth[t] = 0
    BY <1>1 DEF IInv, WordOK
<1>3. value.owner = t => depth[t] = value.counter + 1 /\ depth[t] > 0
    BY <1>1 DEF IInv, WordOK, Live, LiveWords
<1>4. TypeOK'
    BY <1>1, LiveFacts DEF TypedTryLock, Relock, Goto, IInv, TypeOK, Labels, Errors, Live
<1>5. ThreadOK(t, value, pc'[t], mvalue'[t], depth[t])
  <2>1. mvalue'[t] = value
    BY DEF TypedTryLock, IInv, TypeOK
  <2>2. CASE Relock(t)
    BY <1>1, <2>1, <2>2, RelockFacts
    DEF ThreadOK, HolderLabels, TypedLabels, WaitLabels, Live
  <2>3. CASE value.owner # t /\ Goto(t, "try")
    BY <1>1, <1>2, <2>1, <2>3
    DEF Goto, IInv, TypeOK, ThreadOK, HolderLabels, TypedLabels, WaitLabels, Live
  <2>4. QED
    BY <2>2, <2>3 DEF TypedTryLock
<1>6. ResultOK(pc'[t], depth[t], deadline'[t])
    BY <1>3 DEF TypedTryLock, Relock, Enter, Goto, IInv, TypeOK, ResultOK, LockLabels
<1>7. QED
    BY <1>4, <1>5, <1>6, LocalStep DEF TypedTryLock, Relock, Goto, IInv, TypeOK

LEMMA RecursiveIncrementStep ==
    ASSUME IInv, NEW t \in Threads, RecursiveIncrement(t) PROVE IInv'
<1>1. /\ value # DestroyedBits /\ value.type = "RECURSIVE" /\ Live(value)
      /\ value.owner = t /\ value.counter + 1 \in 0 .. CounterMax
      /\ mvalue[t].counter = value.counter /\ depth[t] = value.counter + 1
    BY CounterAssumption
    DEF IInv, RecursiveIncrement, ThreadOK, WordOK, HolderLabels, Live, LiveWords
<1>2. value.state # 0
    BY <1>1, TidFact DEF Live
<1>3. CASE CasSucceeds(t, mvalue[t], [mvalue[t] EXCEPT !.counter = @ + 1])
  <2>1. value' = [value EXCEPT !.counter = value.counter + 1]
    BY <1>1, <1>3 DEF CasSucceeds
  <2>2. /\ Live(value') /\ value' # DestroyedBits /\ value'.type = value.type
        /\ value'.owner = t /\ value'.counter = value.counter + 1 /\ value'.state # 0
    BY <1>1, <1>2, <2>1, SetCounter
  <2>3. TypeOK'
    BY <1>1, <1>3, <2>2, NoBitsFact, LiveFacts, CounterAssumption
    DEF RecursiveIncrement, CasSucceeds, IInv, TypeOK, Acquired, Leave, Goto, Labels, Live
  <2>4. WordOK(value', depth')
    BY <1>1, <1>3, <2>2, CounterAssumption
    DEF CasSucceeds, IInv, TypeOK, WordOK, Acquired, Live, LiveWords
  <2>5. ThreadOK(t, value', pc'[t], mvalue'[t], depth'[t]) /\ ResultOK(pc'[t], depth'[t], deadline'[t])
    BY <1>3 DEF CasSucceeds, Leave, Goto, IInv, TypeOK, ThreadOK, ResultOK, HolderLabels, TypedLabels, WaitLabels
  <2>6. QED
    BY <1>1, <1>3, <2>2, <2>3, <2>4, <2>5, SharedStep
    DEF CasSucceeds, IInv, TypeOK, Acquired, Leave, Goto
<1>4. CASE mvalue' = [mvalue EXCEPT ![t] = value] /\ UNCHANGED <<value, pc, deadline, depth>>
  <2>1. TypeOK'
    BY <1>1, <1>4, LiveFacts DEF RecursiveIncrement, IInv, TypeOK, Live
  <2>2. ThreadOK(t, value, pc'[t], mvalue'[t], depth[t]) /\ ResultOK(pc'[t], depth[t], deadline'[t])
    BY <1>1, <1>4
    DEF RecursiveIncrement, IInv, TypeOK, ThreadOK, ResultOK, HolderLabels, TypedLabels, WaitLabels, Live
  <2>3. QED
    BY <1>4, <2>1, <2>2, LocalStep DEF IInv, TypeOK
<1>5. QED
    BY <1>3, <1>4 DEF RecursiveIncrement

LEMMA TypedFastStep ==
    ASSUME IInv, NEW t \in Threads, TypedFast(t) PROVE IInv'
<1>1. /\ value # DestroyedBits /\ value.type # "NORMAL" /\ mvalue[t].type = value.type
      /\ mvalue[t] = UnlockedBits(value.type)
    BY DEF IInv, TypedFast, ThreadOK, TypedLabels
<1>2. CASE CasSucceeds(t, mvalue[t], LockedBits(mvalue[t].type, t, 1))
    BY <1>1, <1>2, TypedAcquire DEF TypedFast
<1>3. CASE CasFails(t, mvalue[t], "reload")
  <2>1. ThreadOK(t, value, "reload", mvalue[t], depth[t]) /\ ResultOK("reload", depth[t], deadline[t])
    BY DEF TypedFast, IInv, ThreadOK, ResultOK, HolderLabels, TypedLabels, WaitLabels, LockLabels
  <2>2. QED
    BY <1>3, <2>1, FailStep DEF TypedFast, Labels, LockLabels
<1>4. QED
    BY <1>2, <1>3 DEF TypedFast

LEMMA TypedLoopAcquireStep ==
    ASSUME IInv, NEW t \in Threads, TypedLoopAcquire(t) PROVE IInv'
<1>1. /\ value # DestroyedBits /\ value.type # "NORMAL" /\ mvalue[t].type = value.type
      /\ mvalue[t] = UnlockedBits(value.type)
    BY DEF IInv, TypedLoopAcquire, ThreadOK, TypedLabels
<1>2. CASE CasSucceeds(t, mvalue[t], LockedBits(mvalue[t].type, t, 2))
    BY <1>1, <1>2, TypedAcquire DEF TypedLoopAcquire
<1>3. ASSUME NEW label \in {"reload", "recheck"}, CasFails(t, mvalue[t], label)
      PROVE  IInv'
  <2>1. ThreadOK(t, value, label, mvalue[t], depth[t]) /\ ResultOK(label, depth[t], deadline[t])
    BY <1>1
    DEF TypedLoopAcquire, IInv, ThreadOK, ResultOK, HolderLabels, TypedLabels, WaitLabels, LockLabels
  <2>2. QED
    BY <1>3, <2>1, FailStep DEF TypedLoopAcquire, Labels, LockLabels
<1>4. QED
    BY <1>2, <1>3 DEF TypedLoopAcquire

LEMMA TypedTryStep ==
    ASSUME IInv, NEW t \in Threads, TypedTry(t) PROVE IInv'
<1>1. /\ value # DestroyedBits /\ value.type # "NORMAL" /\ mvalue[t].type = value.type
      /\ value.type \in MutexTypes
    BY DEF IInv, TypedTry, ThreadOK, TypedLabels, WordOK, Live, LiveWords
<1>2. CASE CasSucceeds(t, UnlockedBits(value.type), LockedBits(UnlockedBits(value.type).type, t, 1))
    BY <1>1, <1>2, UnlockedFacts, TypedAcquire DEF TypedTry
<1>3. CASE CasFails(t, UnlockedBits(value.type), "EBUSY")
  <2>1. ThreadOK(t, value, "EBUSY", mvalue[t], depth[t]) /\ ResultOK("EBUSY", depth[t], deadline[t])
    BY DEF TypedTry, IInv, ThreadOK, ResultOK, HolderLabels, TypedLabels, WaitLabels, LockLabels
  <2>2. QED
    BY <1>3, <2>1, FailStep DEF TypedTry, Labels, Errors
<1>4. QED
    BY <1>1, <1>2, <1>3 DEF TypedTry

LEMMA TypedLoopContendStep ==
    ASSUME IInv, NEW t \in Threads, TypedLoopContend(t) PROVE IInv'
<1>1. /\ value # DestroyedBits /\ value.type # "NORMAL" /\ Live(value) /\ depth[t] = 0
      /\ mvalue[t] \in LiveWords /\ mvalue[t].type = value.type
    BY DEF IInv, TypedLoopContend, ThreadOK, TypedLabels, WordOK
<1>2. ASSUME NEW label \in {"check", "reload"}, Goto(t, label), UNCHANGED <<value, mvalue>>
      PROVE  IInv'
  <2>1. TypeOK'
    BY <1>2 DEF TypedLoopContend, Goto, IInv, TypeOK, Labels, LockLabels
  <2>2. ThreadOK(t, value, pc'[t], mvalue'[t], depth[t]) /\ ResultOK(pc'[t], depth[t], deadline'[t])
    BY <1>1, <1>2
    DEF Goto, IInv, TypeOK, ThreadOK, ResultOK, HolderLabels, TypedLabels, WaitLabels, LockLabels
  <2>3. QED
    BY <1>2, <2>1, <2>2, LocalStep DEF TypedLoopContend, Goto, IInv, TypeOK
<1>3. CASE /\ mvalue[t].state = 1 /\ value = mvalue[t]
           /\ value' = [value EXCEPT !.state = 2]
           /\ mvalue' = [mvalue EXCEPT ![t].state = 2]
           /\ Goto(t, "check")
  <2> DEFINE w == [value EXCEPT !.state = 2]
  <2>a. /\ Live(w) /\ w # DestroyedBits /\ w.type = value.type
        /\ w.owner = value.owner /\ w.counter = value.counter /\ w.state = 2
    BY <1>1, SetState
  <2>b. value' = w
    BY <1>3
  <2> HIDE DEF w
  <2>1. /\ Live(value') /\ value' # DestroyedBits /\ value'.type = value.type
        /\ value'.owner = value.owner /\ value'.counter = value.counter /\ value'.state = 2
    BY <2>a, <2>b
  <2>2. mvalue' = [mvalue EXCEPT ![t] = value']
    BY <1>3
  <2>3. TypeOK'
    BY <1>3, <2>1, <2>2, LiveFacts DEF TypedLoopContend, Goto, IInv, TypeOK, Labels, LockLabels, Live
  <2>4. WordOK(value', depth')
    BY <1>1, <1>3, <2>1 DEF TypedLoopContend, IInv, WordOK
  <2>5. ThreadOK(t, value', pc'[t], mvalue'[t], depth'[t]) /\ ResultOK(pc'[t], depth'[t], deadline'[t])
    BY <1>1, <1>3, <2>1, <2>2
    DEF TypedLoopContend, Goto, IInv, TypeOK, ThreadOK, ResultOK, HolderLabels, TypedLabels,
        WaitLabels, LockLabels, Live
  <2>6. \A u \in Threads \ {t} :
          /\ pc'[u] = pc[u] /\ mvalue'[u] = mvalue[u] /\ deadline'[u] = deadline[u]
          /\ depth'[u] = depth[u]
    BY <1>3, <2>2 DEF TypedLoopContend, Goto, IInv, TypeOK
  <2>7. QED
    BY <1>1, <2>1, <2>3, <2>4, <2>5, <2>6, SharedStep
<1>4. QED
    BY <1>2, <1>3 DEF TypedLoopContend

LEMMA ReloadStep ==
    ASSUME IInv, NEW t \in Threads, Reload(t) PROVE IInv'
<1>1. value # DestroyedBits /\ value.type # "NORMAL" /\ Live(value) /\ depth[t] = 0
    BY DEF IInv, Reload, ThreadOK, TypedLabels, WordOK
<1>2. TypeOK'
    BY <1>1, LiveFacts DEF Reload, Goto, IInv, TypeOK, Labels, LockLabels, Live
<1>3. ThreadOK(t, value, pc'[t], mvalue'[t], depth[t]) /\ ResultOK(pc'[t], depth[t], deadline'[t])
    BY <1>1
    DEF Reload, Goto, IInv, TypeOK, ThreadOK, ResultOK, HolderLabels, TypedLabels, WaitLabels, LockLabels, Live
<1>4. QED
    BY <1>2, <1>3, LocalStep DEF Reload, Goto, IInv, TypeOK

(* Waiting.                                                                *)

LEMMA CheckTimeStep ==
    ASSUME IInv, NEW t \in Threads, CheckTime(t) PROVE IInv'
<1>1. CASE Leave(t, "EBUSY")
  <2>1. TypeOK'
    BY <1>1, NoBitsFact DEF CheckTime, Leave, Goto, IInv, TypeOK, Labels, Errors
  <2>2. ThreadOK(t, value, pc'[t], mvalue'[t], depth[t]) /\ ResultOK(pc'[t], depth[t], deadline'[t])
    BY <1>1 DEF Leave, Goto, IInv, TypeOK, ThreadOK, ResultOK, HolderLabels, TypedLabels, WaitLabels
  <2>3. QED
    BY <1>1, <2>1, <2>2, LocalStep DEF CheckTime, Leave, Goto, IInv, TypeOK
<1>2. ASSUME NEW label, Goto(t, label), UNCHANGED <<deadline, mvalue>>,
             \/ pc[t] = "recheck" /\ label = "reload"
             \/ pc[t] = "check" /\ mvalue[t].state = 2 /\ label = "wait"
             \/ pc[t] = "check" /\ mvalue[t].state # 2 /\ label = "loop"
      PROVE  IInv'
  <2>1. TypeOK'
    BY <1>2 DEF CheckTime, Goto, IInv, TypeOK, Labels, LockLabels
  <2>2. ThreadOK(t, value, label, mvalue[t], depth[t]) /\ ResultOK(label, depth[t], deadline[t])
    BY <1>2 DEF IInv, ThreadOK, ResultOK, HolderLabels, TypedLabels, WaitLabels, LockLabels
  <2>3. QED
    BY <1>2, <2>1, <2>2, LocalStep DEF CheckTime, Goto, IInv, TypeOK
<1>3. CASE pc[t] = "recheck" /\ deadline[t] # "expired"
  <2>1. Goto(t, "reload") /\ UNCHANGED <<deadline, mvalue>>
    BY <1>3 DEF CheckTime
  <2>2. QED
    BY <1>2, <1>3, <2>1
<1>4. CASE pc[t] = "check" /\ deadline[t] # "expired" /\ mvalue[t].state = 2
  <2>1. Goto(t, "wait") /\ UNCHANGED <<deadline, mvalue>>
    BY <1>4 DEF CheckTime
  <2>2. QED
    BY <1>2, <1>4, <2>1
<1>5. CASE pc[t] = "check" /\ deadline[t] # "expired" /\ mvalue[t].state # 2
  <2>1. Goto(t, "loop") /\ UNCHANGED <<deadline, mvalue>>
    BY <1>5 DEF CheckTime
  <2>2. QED
    BY <1>2, <1>5, <2>1
<1>6. QED
    BY <1>1, <1>3, <1>4, <1>5 DEF CheckTime

LEMMA FutexWaitStep ==
    ASSUME IInv, NEW t \in Threads, FutexWait(t) PROVE IInv'
<1>1. TypeOK'
    BY DEF FutexWait, Goto, IInv, TypeOK, Labels, LockLabels
<1>2. ThreadOK(t, value, pc'[t], mvalue'[t], depth[t]) /\ ResultOK(pc'[t], depth[t], deadline'[t])
    BY DEF FutexWait, Goto, IInv, TypeOK, ThreadOK, ResultOK, HolderLabels, TypedLabels, WaitLabels, LockLabels
<1>3. QED
    BY <1>1, <1>2, LocalStep DEF FutexWait, Goto, IInv, TypeOK

LEMMA FutexReturnsEarlyStep ==
    ASSUME IInv, NEW t \in Threads, FutexReturnsEarly(t) PROVE IInv'
BY DEF FutexReturnsEarly, IInv, TypeOK

LEMMA ResumeStep ==
    ASSUME IInv, NEW t \in Threads, Resume(t) PROVE IInv'
<1>1. value # DestroyedBits /\ Live(value) /\ (value.type # "NORMAL" => depth[t] = 0)
    BY DEF IInv, Resume, ThreadOK, WaitLabels, WordOK
<1>2. TypeOK'
    BY <1>1, LiveFacts DEF Resume, Again, Goto, IInv, TypeOK, Labels, LockLabels, Live
<1>3. ThreadOK(t, value, pc'[t], mvalue'[t], depth[t]) /\ ResultOK(pc'[t], depth[t], deadline'[t])
    BY <1>1
    DEF Resume, Again, Goto, IInv, TypeOK, ThreadOK, ResultOK, HolderLabels, TypedLabels, WaitLabels, LockLabels, Live
<1>4. QED
    BY <1>2, <1>3, LocalStep DEF Resume, Goto, IInv, TypeOK

LEMMA ExpireStep ==
    ASSUME IInv, NEW t \in Threads, Expire(t) PROVE IInv'
<1>1. TypeOK'
    BY DEF Expire, IInv, TypeOK
<1>2. ResultOK(pc'[t], depth[t], deadline'[t])
    BY DEF Expire, IInv, TypeOK, ResultOK
<1>3. ThreadOK(t, value, pc'[t], mvalue'[t], depth[t])
    BY DEF Expire, IInv
<1>4. QED
    BY <1>1, <1>2, <1>3, LocalStep DEF Expire, IInv, TypeOK

LEMMA WakeStep ==
    ASSUME IInv, NEW t \in Threads, Wake(t) PROVE IInv'
<1>1. queue' \subseteq Threads
    BY DEF Wake, FutexWakeOne, IInv, TypeOK
<1>2. TypeOK'
    BY <1>1 DEF Wake, Goto, IInv, TypeOK, Labels
<1>3. ThreadOK(t, value, pc'[t], mvalue'[t], depth[t]) /\ ResultOK(pc'[t], depth[t], deadline'[t])
    BY DEF Wake, Goto, IInv, TypeOK, ThreadOK, ResultOK, HolderLabels, TypedLabels, WaitLabels, LockLabels
<1>4. QED
    BY <1>2, <1>3, LocalStep DEF Wake, Goto, IInv, TypeOK

LEMMA ReturnStep ==
    ASSUME IInv, NEW t \in Threads, Return(t) PROVE IInv'
<1>1. TypeOK'
    BY NoBitsFact DEF Return, Leave, Goto, IInv, TypeOK, Labels
<1>2. ThreadOK(t, value, pc'[t], mvalue'[t], depth[t]) /\ ResultOK(pc'[t], depth[t], deadline'[t])
    BY DEF Return, Leave, Goto, IInv, TypeOK, ThreadOK, ResultOK, HolderLabels, TypedLabels, WaitLabels
<1>3. QED
    BY <1>1, <1>2, LocalStep DEF Return, Leave, Goto, IInv, TypeOK

(* Trying, unlocking.                                                      *)

LEMMA NormalTryLockStep ==
    ASSUME IInv, NEW t \in Threads, NormalTryLock(t) PROVE IInv'
<1>1. value # DestroyedBits /\ value.type = "NORMAL" /\ Live(value) /\ value.owner = 0
    BY DEF IInv, NormalTryLock, Enter, WordOK
<1>2. CASE value = UnlockedBits("NORMAL") /\ value' = LockedBits("NORMAL", t, 1)
            /\ Acquired(t) /\ UNCHANGED pc
  <2>1. \A u \in Threads : depth[u] = 0
    BY <1>1, <1>2, NoBitsFact, UnlockedFacts DEF IInv, WordOK
  <2>2. TypeOK'
    BY <1>2, <2>1, NoBitsFact, LockedFacts, LiveFacts, CounterAssumption
    DEF NormalTryLock, IInv, TypeOK, Acquired, Live
  <2>3. WordOK(value', depth')
    BY <1>1, <1>2, <2>1, NoBitsFact, LockedFacts DEF IInv, TypeOK, WordOK, Acquired
  <2>4. ThreadOK(t, value', pc'[t], mvalue'[t], depth'[t]) /\ ResultOK(pc'[t], depth'[t], deadline'[t])
    BY <1>2 DEF NormalTryLock, Enter, IInv, ThreadOK, ResultOK, HolderLabels, TypedLabels, WaitLabels
  <2>5. value' # DestroyedBits /\ value'.type = "NORMAL" /\ value'.owner = 0
    BY <1>2, NoBitsFact, LockedFacts
  <2>6. QED
    BY <1>1, <1>2, <2>2, <2>3, <2>4, <2>5, TidFact, SharedStep
    DEF NormalTryLock, IInv, TypeOK, Acquired
<1>3. CASE Goto(t, "EBUSY") /\ UNCHANGED <<value, depth>>
  <2>1. TypeOK'
    BY <1>3 DEF NormalTryLock, IInv, TypeOK, Goto, Labels, Errors
  <2>2. ThreadOK(t, value, pc'[t], mvalue'[t], depth[t]) /\ ResultOK(pc'[t], depth[t], deadline'[t])
    BY <1>1, <1>3
    DEF NormalTryLock, Enter, Goto, IInv, TypeOK, ThreadOK, ResultOK, HolderLabels, TypedLabels, WaitLabels, LockLabels
  <2>3. QED
    BY <1>3, <2>1, <2>2, LocalStep DEF NormalTryLock, IInv, TypeOK, Goto
<1>4. QED
    BY <1>2, <1>3 DEF NormalTryLock

\* The caller holds the mutex, so that the state it decrements is not 0.
LEMMA NormalUnlockStep ==
    ASSUME IInv, NEW t \in Threads, NormalUnlock(t) PROVE IInv'
<1>1. /\ value # DestroyedBits /\ value.type = "NORMAL" /\ Live(value)
      /\ value.owner = 0 /\ value.counter = 0
    BY DEF IInv, NormalUnlock, Enter, WordOK
<1>2. depth[t] = 1 /\ \A u \in Threads \ {t} : depth[u] = 0
    BY <1>1 DEF NormalUnlock, IInv, WordOK
<1>3. value.state \in {1, 2}
    BY <1>1, <1>2 DEF IInv, WordOK, Live, LiveWords
<1>4. CASE value.state = 1 /\ Released(t) /\ UNCHANGED pc
  <2>1. value' = UnlockedBits("NORMAL")
    <3>1. value = [type |-> value.type, owner |-> value.owner, counter |-> value.counter,
                   state |-> value.state]
      BY <1>1 DEF Live, LiveWords
    <3>2. value' = [value EXCEPT !.state = value.state - 1]
      BY DEF NormalUnlock
    <3>3. QED
      BY <1>1, <1>4, <3>1, <3>2 DEF UnlockedBits, Bits
  <2>2. /\ Live(value') /\ value' # DestroyedBits /\ value'.type = "NORMAL"
        /\ value'.owner = 0 /\ value'.counter = 0 /\ value'.state = 0
    BY <2>1, NoBitsFact, UnlockedFacts
  <2>3. depth' = [depth EXCEPT ![t] = 0] /\ \A u \in Threads : depth'[u] = 0
    BY <1>2, <1>4 DEF Released, IInv, TypeOK
  <2>4. TypeOK'
    BY <1>4, <2>2, <2>3, LiveFacts, CounterAssumption DEF NormalUnlock, IInv, TypeOK, Live
  <2>5. WordOK(value', depth')
    BY <2>2, <2>3 DEF WordOK
  <2>6. ThreadOK(t, value', pc'[t], mvalue'[t], depth'[t]) /\ ResultOK(pc'[t], depth'[t], deadline'[t])
    BY <1>4 DEF NormalUnlock, Enter, IInv, ThreadOK, ResultOK, HolderLabels, TypedLabels, WaitLabels
  <2>7. \A u \in Threads \ {t} :
          /\ pc'[u] = pc[u] /\ mvalue'[u] = mvalue[u] /\ deadline'[u] = deadline[u]
          /\ depth'[u] = depth[u] /\ value.owner # u
    BY <1>1, <1>4, <1>2, <2>3, TidFact DEF NormalUnlock, IInv, TypeOK
  <2>8. QED
    BY <1>1, <2>2, <2>4, <2>5, <2>6, <2>7, SharedStep
<1>5. CASE value.state # 1 /\ Goto(t, "store") /\ UNCHANGED depth
  <2> DEFINE w == [value EXCEPT !.state = 1]
  <2>a. /\ Live(w) /\ w # DestroyedBits /\ w.type = value.type
        /\ w.owner = value.owner /\ w.counter = value.counter /\ w.state = 1
    BY <1>1, SetState
  <2>b. value' = w
    BY <1>3, <1>5 DEF NormalUnlock
  <2> HIDE DEF w
  <2>1. /\ Live(value') /\ value' # DestroyedBits /\ value'.type = "NORMAL"
        /\ value'.owner = 0 /\ value'.counter = 0 /\ value'.state = 1
    BY <1>1, <2>a, <2>b
  <2>2. TypeOK'
    BY <1>5, <2>1, LiveFacts DEF NormalUnlock, Goto, IInv, TypeOK, Labels, Live
  <2>3. WordOK(value', depth')
    BY <1>2, <1>5, <2>1 DEF WordOK
  <2>4. ThreadOK(t, value', pc'[t], mvalue'[t], depth'[t]) /\ ResultOK(pc'[t], depth'[t], deadline'[t])
    BY <1>2, <1>5, <2>1
    DEF NormalUnlock, Enter, Goto, IInv, TypeOK, ThreadOK, ResultOK, HolderLabels, TypedLabels,
        WaitLabels, LockLabels
  <2>5. \A u \in Threads \ {t} :
          /\ pc'[u] = pc[u] /\ mvalue'[u] = mvalue[u] /\ deadline'[u] = deadline[u]
          /\ depth'[u] = depth[u] /\ value.owner # u
    BY <1>1, <1>5, TidFact DEF NormalUnlock, Goto, IInv, TypeOK
  <2>6. QED
    BY <1>1, <2>1, <2>2, <2>3, <2>4, <2>5, SharedStep
<1>6. QED
    BY <1>4, <1>5 DEF NormalUnlock

LEMMA NormalStoreStep ==
    ASSUME IInv, NEW t \in Threads, NormalStore(t) PROVE IInv'
<1>1. value # DestroyedBits /\ value.type = "NORMAL" /\ value.owner = 0 /\ depth[t] = 1
    BY DEF IInv, NormalStore, ThreadOK, WordOK
<1>2. \A u \in Threads \ {t} : depth[u] = 0
    BY <1>1 DEF IInv, WordOK
<1>3. /\ Live(value') /\ value' # DestroyedBits /\ value'.type = "NORMAL"
      /\ value'.owner = 0 /\ value'.counter = 0 /\ value'.state = 0
    BY NoBitsFact, UnlockedFacts DEF NormalStore
<1>4. depth' = [depth EXCEPT ![t] = 0] /\ \A u \in Threads : depth'[u] = 0
    BY <1>1, <1>2 DEF NormalStore, Released, IInv, TypeOK
<1>5. TypeOK'
    BY <1>3, <1>4, NoBitsFact, LiveFacts, CounterAssumption
    DEF NormalStore, Leave, Goto, IInv, TypeOK, Labels, Live
<1>6. WordOK(value', depth')
    BY <1>3, <1>4 DEF WordOK
<1>7. ThreadOK(t, value', pc'[t], mvalue'[t], depth'[t]) /\ ResultOK(pc'[t], depth'[t], deadline'[t])
    BY DEF NormalStore, Leave, Goto, IInv, TypeOK, ThreadOK, ResultOK, HolderLabels, TypedLabels, WaitLabels
<1>8. \A u \in Threads \ {t} :
          /\ pc'[u] = pc[u] /\ mvalue'[u] = mvalue[u] /\ deadline'[u] = deadline[u]
          /\ depth'[u] = depth[u] /\ value.owner # u
    BY <1>1, <1>2, <1>4, TidFact DEF NormalStore, Leave, Goto, IInv, TypeOK
<1>9. QED
    BY <1>1, <1>3, <1>5, <1>6, <1>7, <1>8, SharedStep

LEMMA TypedUnlockStep ==
    ASSUME IInv, NEW t \in Threads, TypedUnlock(t) PROVE IInv'
<1>1. value # DestroyedBits /\ value.type # "NORMAL" /\ Live(value) /\ value.counter \in Nat
    BY CounterAssumption DEF IInv, TypedUnlock, Enter, WordOK, Live, LiveWords
<1>2. value.owner # t => depth[t] = 0
    BY <1>1 DEF IInv, WordOK
<1>3. \/ value.owner # t /\ Goto(t, "EPERM")
      \/ value.owner = t /\ value.counter > 0 /\ Goto(t, "dec")
      \/ value.owner = t /\ value.counter = 0 /\ Goto(t, "release")
  <2>1. CASE value.owner # t
    BY <2>1 DEF TypedUnlock
  <2>2. CASE value.owner = t /\ value.counter > 0
    BY <2>2 DEF TypedUnlock
  <2>3. CASE value.owner = t /\ ~(value.counter > 0)
    <3>1. Goto(t, "release")
      BY <2>3 DEF TypedUnlock
    <3>2. value.counter = 0
      BY <1>1, <2>3
    <3>3. QED
      BY <2>3, <3>1, <3>2
  <2>4. QED
    BY <2>1, <2>2, <2>3
<1>4. TypeOK'
    BY <1>1, <1>3, LiveFacts DEF TypedUnlock, Goto, IInv, TypeOK, Labels, Errors, Live
<1>5. mvalue'[t] = value /\ deadline'[t] = "none"
    BY DEF TypedUnlock, Enter, IInv, TypeOK, ResultOK, LockLabels
<1>6. ThreadOK(t, value, pc'[t], mvalue'[t], depth[t]) /\ ResultOK(pc'[t], depth[t], deadline'[t])
    BY <1>1, <1>2, <1>3, <1>5
    DEF Goto, IInv, TypeOK, ThreadOK, ResultOK, HolderLabels, TypedLabels, WaitLabels, Live
<1>7. QED
    BY <1>3, <1>4, <1>6, LocalStep DEF TypedUnlock, Goto, IInv, TypeOK

LEMMA RecursiveDecrementStep ==
    ASSUME IInv, NEW t \in Threads, RecursiveDecrement(t) PROVE IInv'
<1>1. /\ value # DestroyedBits /\ value.type # "NORMAL" /\ Live(value)
      /\ value.owner = t /\ value.counter \in 0 .. CounterMax /\ value.counter > 0
      /\ value.type = "ERRORCHECK" => value.counter = 0
      /\ mvalue[t].counter = value.counter /\ depth[t] = value.counter + 1
    BY DEF IInv, RecursiveDecrement, ThreadOK, WordOK, HolderLabels, Live, LiveWords
<1>2. value.state # 0 /\ value.counter - 1 \in 0 .. CounterMax
    BY <1>1, TidFact, CounterAssumption DEF Live
<1>3. CASE value' = [value EXCEPT !.counter = @ - 1] /\ Released(t) /\ Leave(t, "idle")
  <2>1. value' = [value EXCEPT !.counter = value.counter - 1]
    BY <1>3
  <2>2. /\ Live(value') /\ value' # DestroyedBits /\ value'.type = value.type
        /\ value'.owner = t /\ value'.counter = value.counter - 1 /\ value'.state # 0
    BY <1>1, <1>2, <2>1, SetCounter
  <2>3. TypeOK'
    BY <1>1, <1>3, <2>2, NoBitsFact, LiveFacts, CounterAssumption
    DEF RecursiveDecrement, IInv, TypeOK, Released, Leave, Goto, Labels, Live
  <2>4. WordOK(value', depth')
    BY <1>1, <1>3, <2>2, CounterAssumption DEF IInv, TypeOK, WordOK, Released
  <2>5. ThreadOK(t, value', pc'[t], mvalue'[t], depth'[t]) /\ ResultOK(pc'[t], depth'[t], deadline'[t])
    BY <1>3 DEF Leave, Goto, IInv, TypeOK, ThreadOK, ResultOK, HolderLabels, TypedLabels, WaitLabels
  <2>6. \A u \in Threads \ {t} :
          /\ pc'[u] = pc[u] /\ mvalue'[u] = mvalue[u] /\ deadline'[u] = deadline[u]
          /\ depth'[u] = depth[u] /\ value.owner # u
    BY <1>1, <1>3 DEF IInv, TypeOK, Released, Leave, Goto
  <2>7. QED
    BY <1>1, <2>2, <2>3, <2>4, <2>5, <2>6, SharedStep
<1>4. CASE mvalue' = [mvalue EXCEPT ![t] = value] /\ UNCHANGED <<value, pc, deadline, depth>>
  <2>1. TypeOK'
    BY <1>1, <1>4, LiveFacts DEF RecursiveDecrement, IInv, TypeOK, Live
  <2>2. ThreadOK(t, value, pc'[t], mvalue'[t], depth[t]) /\ ResultOK(pc'[t], depth[t], deadline'[t])
    BY <1>1, <1>4
    DEF RecursiveDecrement, IInv, TypeOK, ThreadOK, ResultOK, HolderLabels, TypedLabels, WaitLabels, Live
  <2>3. QED
    BY <1>4, <2>1, <2>2, LocalStep DEF IInv, TypeOK
<1>5. QED
    BY <1>3, <1>4 DEF RecursiveDecrement

LEMMA TypedReleaseStep ==
    ASSUME IInv, NEW t \in Threads, TypedRelease(t) PROVE IInv'
<1>1. /\ value # DestroyedBits /\ value.type # "NORMAL" /\ Live(value)
      /\ value.owner = t /\ mvalue[t].type = value.type /\ value.type \in MutexTypes
      /\ depth[t] = 1 /\ \A u \in Threads \ {t} : depth[u] = 0
    BY DEF IInv, TypedRelease, ThreadOK, WordOK, HolderLabels, Live, LiveWords
<1>2. /\ Live(value') /\ value' # DestroyedBits /\ value'.type = value.type
      /\ value'.owner = 0 /\ value'.counter = 0 /\ value'.state = 0
    BY <1>1, UnlockedFacts DEF TypedRelease
<1>3. depth' = [depth EXCEPT ![t] = 0] /\ \A u \in Threads : depth'[u] = 0
    BY <1>1 DEF TypedRelease, Released, IInv, TypeOK
<1>4. TypeOK'
    BY <1>2, <1>3, NoBitsFact, LiveFacts, CounterAssumption
    DEF TypedRelease, Leave, Goto, IInv, TypeOK, Labels, Live
<1>5. WordOK(value', depth')
    BY <1>2, <1>3, TidFact DEF WordOK
<1>6. ThreadOK(t, value', pc'[t], mvalue'[t], depth'[t]) /\ ResultOK(pc'[t], depth'[t], deadline'[t])
    BY DEF TypedRelease, Leave, Goto, IInv, TypeOK, ThreadOK, ResultOK, HolderLabels, TypedLabels, WaitLabels
<1>7. \A u \in Threads \ {t} :
          /\ pc'[u] = pc[u] /\ mvalue'[u] = mvalue[u] /\ deadline'[u] = deadline[u]
          /\ depth'[u] = depth[u] /\ value.owner # u
    BY <1>1, <1>3 DEF TypedRelease, Leave, Goto, IInv, TypeOK
<1>8. QED
    BY <1>1, <1>2, <1>4, <1>5, <1>6, <1>7, SharedStep

(* Destroying and initialising.                                            *)

\* Threads that are not inside a call do not notice what becomes of the word.
LEMMA QuietThreads ==
    ASSUME NEW u \in Threads, NEW v, NEW p \in {"idle", "wake"} \cup Errors, NEW m, NEW n
    PROVE  ThreadOK(u, v, p, m, n)
BY DEF ThreadOK, HolderLabels, TypedLabels, WaitLabels, Errors

LEMMA MutexDestroyStep ==
    ASSUME IInv, NEW t \in Threads, MutexDestroy(t) PROVE IInv'
<1>1. value # DestroyedBits /\ Live(value) /\ value.type \in MutexTypes
    BY DEF IInv, MutexDestroy, Enter, WordOK, Live, LiveWords
<1>2. /\ value.type # "NORMAL" /\ value.owner = t => depth[t] = value.counter + 1
      /\ value.counter \in 0 .. CounterMax
    BY <1>1 DEF IInv, WordOK, Live, LiveWords
<1>3. \/ DestroyResult(t) = "idle" /\ \A u \in Threads \ {t} : depth[u] = 0
      \/ DestroyResult(t) = "EBUSY"
      \/ DestroyResult(t) = "EDEADLK" /\ value.type # "NORMAL" /\ value.owner = t
      \/ DestroyResult(t) = "EAGAIN" /\ value.type # "NORMAL" /\ value.owner = t
            /\ value.counter = CounterMax
  <2>1. CASE value = UnlockedBits(value.type)
    BY <1>1, <2>1, UnlockedFacts DEF DestroyResult, IInv, WordOK
  <2>2. CASE value # UnlockedBits(value.type) /\ (value.type = "NORMAL" \/ value.owner # t)
    BY <2>2 DEF DestroyResult
  <2>3. CASE value # UnlockedBits(value.type) /\ value.type # "NORMAL" /\ value.owner = t
    <3>1. \A u \in Threads \ {t} : depth[u] = 0
      BY <1>1, <2>3 DEF IInv, WordOK
    <3>2. CASE value.type = "ERRORCHECK"
      BY <2>3, <3>2 DEF DestroyResult
    <3>3. CASE value.type # "ERRORCHECK" /\ value.counter = CounterMax
      BY <2>3, <3>3 DEF DestroyResult
    <3>4. CASE value.type # "ERRORCHECK" /\ value.counter # CounterMax
      BY <2>3, <3>1, <3>4 DEF DestroyResult
    <3>5. QED
      BY <3>2, <3>3, <3>4
  <2>4. QED
    BY <2>1, <2>2, <2>3
<1>4. CASE /\ DestroyResult(t) = "idle" /\ \A u \in Threads \ {t} : depth[u] = 0
           /\ value' = DestroyedBits /\ depth' = [depth EXCEPT ![t] = 0]
  <2>1. \A u \in Threads : depth'[u] = 0
    BY <1>4 DEF IInv, TypeOK
  <2>2. \A u \in Threads : pc'[u] \in {"idle", "wake"} \cup Errors
    BY <1>4 DEF MutexDestroy, Goto, IInv, TypeOK
  <2>3. TypeOK'
    BY <1>4, <2>2, LiveFacts, CounterAssumption DEF MutexDestroy, Goto, IInv, TypeOK, Labels
  <2>4. WordOK(value', depth')
    BY <1>4, <2>1 DEF WordOK
  <2>5. \A u \in Threads : ThreadOK(u, value', pc'[u], mvalue'[u], depth'[u])
    BY <2>2, QuietThreads
  <2>6. \A u \in Threads : ResultOK(pc'[u], depth'[u], deadline'[u])
    <3>1. ResultOK(pc'[t], depth'[t], deadline'[t])
      BY <1>4 DEF MutexDestroy, Enter, Goto, IInv, TypeOK, ResultOK, LockLabels
    <3>2. ASSUME NEW u \in Threads \ {t}
          PROVE  ResultOK(pc'[u], depth'[u], deadline'[u])
      BY <1>4 DEF MutexDestroy, Goto, IInv, TypeOK
    <3>3. QED
      BY <3>1, <3>2
  <2>7. QED
    BY <2>3, <2>4, <2>5, <2>6 DEF IInv
<1>5. CASE DestroyResult(t) # "idle" /\ UNCHANGED <<value, depth>>
  <2>1. /\ DestroyResult(t) \in Errors
        /\ pc' = [pc EXCEPT ![t] = DestroyResult(t)]
    BY <1>3, <1>5 DEF MutexDestroy, Goto, Errors
  <2>2. pc'[t] = DestroyResult(t) /\ deadline'[t] = "none"
    BY <2>1 DEF MutexDestroy, Enter, IInv, TypeOK, ResultOK, LockLabels
  <2>3. TypeOK'
    BY <1>5, <2>1 DEF MutexDestroy, IInv, TypeOK, Labels
  <2>4. ThreadOK(t, value, pc'[t], mvalue'[t], depth[t])
    BY <2>1, <2>2, QuietThreads
  <2>5. ResultOK(pc'[t], depth[t], deadline'[t])
    BY <1>2, <1>3, <1>5, <2>2, CounterAssumption DEF ResultOK
  <2>6. \A u \in Threads \ {t} :
          pc'[u] = pc[u] /\ mvalue'[u] = mvalue[u] /\ deadline'[u] = deadline[u]
    BY <2>1 DEF MutexDestroy, IInv, TypeOK
  <2>7. QED
    BY <1>5, <2>3, <2>4, <2>5, <2>6, LocalStep
<1>6. QED
    BY <1>3, <1>4, <1>5 DEF MutexDestroy

\* No thread is inside a call on a destroyed mutex.
LEMMA MutexInitStep ==
    ASSUME IInv, NEW t \in Threads, NEW type \in Types, MutexInit(t, type) PROVE IInv'
<1>1. /\ Live(value') /\ value' # DestroyedBits /\ value'.type = type
      /\ value'.owner = 0 /\ value'.counter = 0 /\ value'.state = 0
    BY TypesAssumption, UnlockedFacts DEF MutexInit, MutexTypes
<1>2. TypeOK'
    BY <1>1, LiveFacts DEF MutexInit, IInv, TypeOK, Live
<1>3. WordOK(value', depth')
    BY <1>1, TidFact DEF MutexInit, IInv, WordOK
<1>4. ASSUME NEW u \in Threads
      PROVE  ThreadOK(u, value', pc'[u], mvalue'[u], depth'[u])
  <2>1. pc[u] \in Labels \ (HolderLabels \cup TypedLabels \cup WaitLabels \cup {"store", "swap"})
    BY DEF MutexInit, IInv, TypeOK, ThreadOK
  <2>2. pc'[u] \in {"idle", "wake"} \cup Errors
    BY <2>1 DEF MutexInit, Labels, LockLabels, HolderLabels, TypedLabels, WaitLabels
  <2>3. QED
    BY <2>2, QuietThreads
<1>5. QED
    BY <1>2, <1>3, <1>4 DEF MutexInit, IInv

----------------------------------------------------------------------------
\* IInv is inductive: every step of the specification preserves it.
LEMMA NextIInv == IInv /\ [Next]_vars => IInv'
<1> SUFFICES ASSUME IInv, [Next]_vars PROVE IInv'
    OBVIOUS
<1>1. CASE UNCHANGED vars
    BY <1>1 DEF IInv, TypeOK, vars
<1>2. ASSUME NEW t \in Threads, Call(t) PROVE IInv'
    BY <1>2, NormalLockStep, TypedLockStep, NormalTryLockStep, TypedTryLockStep,
       NormalUnlockStep, TypedUnlockStep, MutexDestroyStep, MutexInitStep DEF Call
<1>3. ASSUME NEW t \in Threads, Run(t) PROVE IInv'
    BY <1>3, NormalSwapStep, NormalStoreStep, RecursiveIncrementStep, TypedFastStep,
       TypedLoopAcquireStep, TypedLoopContendStep, ReloadStep, CheckTimeStep, FutexWaitStep,
       ResumeStep, TypedTryStep, RecursiveDecrementStep, TypedReleaseStep, WakeStep, ReturnStep
    DEF Run
<1>4. QED
    BY <1>1, <1>2, <1>3, FutexReturnsEarlyStep, ExpireStep DEF Next

\* IInv holds in every reachable state.
THEOREM Invariance == Spec => []IInv
BY InitIInv, NextIInv, PTL DEF Spec

\* Every variable keeps its type; in particular neither the counter nor the
\* state of the word ever leaves its field.
THEOREM TypeCorrect == Spec => []TypeOK
<1>1. IInv => TypeOK
    BY DEF IInv
<1>2. QED
    BY <1>1, Invariance, PTL

\* pthread_mutex_lock, trylock and lock_timeout_np never let two threads in.
THEOREM MutexSafe == Spec => []MutualExclusion
<1>1. IInv => MutualExclusion
  <2> SUFFICES ASSUME IInv, NEW t \in Threads, NEW u \in Threads, depth[t] > 0, depth[u] > 0
               PROVE  t = u
    BY DEF MutualExclusion
  <2>1. value # DestroyedBits
    BY DEF IInv, WordOK
  <2>2. CASE value.type = "NORMAL"
    BY <2>1, <2>2 DEF IInv, WordOK
  <2>3. CASE value.type # "NORMAL"
    BY <2>1, <2>3 DEF IInv, WordOK
  <2>4. QED
    BY <2>2, <2>3
<1>2. QED
    BY <1>1, Invariance, PTL

\* The word is always the truth about who holds the mutex and how often.
THEOREM WordCorrect == Spec => []WordMatchesHolder
<1>1. IInv => WordMatchesHolder
    BY DEF IInv, WordOK, WordMatchesHolder
<1>2. QED
    BY <1>1, Invariance, PTL

\* EDEADLK, EAGAIN and EPERM are true of the caller they are returned to.
THEOREM ErrorsCorrect == Spec => []ErrorsTruthful
<1>1. IInv => ErrorsTruthful
    BY DEF IInv, ResultOK, ErrorsTruthful
<1>2. QED
    BY <1>1, Invariance, PTL

----------------------------------------------------------------------------
(* The type of the mutex, and with it who may touch owner and counter.     *)

\* A call that finds a mutex leaves its type alone; destruction is the only
\* step that ends a mutex, and initialisation the only one that starts one.
LEMMA KeepsType ==
    ASSUME IInv, [Next]_vars, value # DestroyedBits
    PROVE  value' = DestroyedBits \/ value'.type = value.type
<1>1. Live(value) /\ value.type \in MutexTypes
    BY DEF IInv, WordOK, Live, LiveWords
<1>2. ASSUME NEW t \in Threads, Call(t)
      PROVE  value' = DestroyedBits \/ value'.type = value.type
  <2>1. CASE value' = LockedBits("NORMAL", t, 1) /\ value.type = "NORMAL"
    BY <2>1, NoBitsFact, LockedFacts
  <2>2. CASE NormalUnlock(t)
    BY <1>1, <2>2 DEF NormalUnlock, Live, LiveWords
  <2>3. QED
    BY <1>2, <2>1, <2>2
    DEF Call, NormalLock, TypedLock, NormalTryLock, TypedTryLock, TypedUnlock, MutexDestroy, MutexInit
<1>3. ASSUME NEW t \in Threads, Run(t)
      PROVE  value' = DestroyedBits \/ value'.type = value.type
  <2>1. /\ pc[t] \in TypedLabels \cup HolderLabels => mvalue[t].type = value.type
        /\ pc[t] \in {"swap", "store"} => value.type = "NORMAL"
    BY DEF IInv, ThreadOK
  <2>2. CASE NormalSwap(t) \/ NormalStore(t)
    BY <2>1, <2>2, NoBitsFact, LockedFacts, UnlockedFacts DEF NormalSwap, NormalStore
  <2>3. CASE TypedFast(t) \/ TypedLoopAcquire(t) \/ TypedTry(t)
    BY <1>1, <2>1, <2>3, LockedFacts, UnlockedFacts
    DEF TypedFast, TypedLoopAcquire, TypedTry, CasSucceeds, CasFails, TypedLabels
  <2>4. CASE RecursiveIncrement(t) \/ RecursiveDecrement(t) \/ TypedLoopContend(t)
    BY <1>1, <2>4
    DEF RecursiveIncrement, RecursiveDecrement, TypedLoopContend, CasSucceeds, Live, LiveWords
  <2>5. CASE TypedRelease(t)
    BY <1>1, <2>1, <2>5, UnlockedFacts DEF TypedRelease, HolderLabels
  <2>6. QED
    BY <1>3, <2>2, <2>3, <2>4, <2>5
    DEF Run, Reload, CheckTime, FutexWait, Resume, Wake, Return
<1>4. QED
    BY <1>2, <1>3 DEF Next, vars, FutexReturnsEarly, Expire

\* "only the owner thread can modify the counter bits": contenders, which
\* rewrite the whole word to announce themselves, leave owner, counter and
\* type as the owner wrote them.
THEOREM CounterOwned == Spec => OnlyOwnerChangesCounter
<1> DEFINE Kept == \A t \in Threads :
                     depth[t] > 0 /\ depth'[t] = depth[t] /\ value.type # "NORMAL" =>
                        /\ value'.owner = value.owner
                        /\ value'.counter = value.counter
                        /\ value'.type = value.type
<1>1. IInv /\ [Next]_vars => Kept
  <2> SUFFICES ASSUME IInv, [Next]_vars, IInv', NEW t \in Threads,
                      depth[t] > 0, depth'[t] = depth[t], value.type # "NORMAL"
               PROVE  /\ value'.owner = value.owner
                      /\ value'.counter = value.counter
                      /\ value'.type = value.type
    BY NextIInv
  <2>1. /\ value # DestroyedBits
        /\ depth[t] = IF value.owner = t THEN value.counter + 1 ELSE 0
        /\ value.counter \in Nat
    BY CounterAssumption DEF IInv, WordOK, Live, LiveWords
  <2>2. value' # DestroyedBits /\ value'.type = value.type
    BY <2>1, KeepsType DEF IInv, WordOK
  <2>3. /\ depth'[t] = IF value'.owner = t THEN value'.counter + 1 ELSE 0
        /\ value'.counter \in Nat
    BY <2>2, CounterAssumption DEF IInv, WordOK, Live, LiveWords
  <2>4. QED
    BY <2>1, <2>2, <2>3
<1>2. IInv /\ [Next]_vars => [Kept]_vars
    BY <1>1
<1>3. QED
    BY <1>2, Invariance, PTL DEF Spec, OnlyOwnerChangesCounter

----------------------------------------------------------------------------
(* The mutex implements AbstractMutex: each step is a step of it, or       *)
(* changes nothing that a caller sees.                                     *)

KindMap == IF value = DestroyedBits THEN "destroyed" ELSE value.type

Outcome(p) == IF p \in Errors THEN p ELSE "none"

ResultMap == [t \in Threads |-> Outcome(pc[t])]

Simulates == [Abstract!Next]_(Abstract!vars)

LEMMA ResultMove ==
    ASSUME IInv, NEW t \in Threads, NEW p, pc' = [pc EXCEPT ![t] = p]
    PROVE  /\ ResultMap' = [ResultMap EXCEPT ![t] = Outcome(p)]
           /\ ResultMap[t] = Outcome(pc[t])
BY DEF IInv, TypeOK, ResultMap, Outcome

\* The word is live before and after, and of the same type.
SameKind == value # DestroyedBits /\ value' # DestroyedBits /\ value'.type = value.type

\* A step inside a call that decides nothing.
LEMMA Invisible ==
    ASSUME IInv, NEW t \in Threads, NEW p, pc' = [pc EXCEPT ![t] = p],
           Outcome(p) = Outcome(pc[t]), UNCHANGED <<depth, deadline>>,
           SameKind \/ UNCHANGED value
    PROVE  Simulates
<1>1. ResultMap' = ResultMap
    BY ResultMove DEF ResultMap
<1>2. KindMap' = KindMap
    BY DEF KindMap, SameKind
<1>3. QED
    BY <1>1, <1>2 DEF Simulates, ResultMap, KindMap, Outcome, Abstract!vars

\* A call that returns an errno, which is true when it is decided.
LEMMA Refusal ==
    ASSUME IInv, NEW t \in Threads, NEW errno \in Errors,
           pc' = [pc EXCEPT ![t] = errno], pc[t] \notin Errors,
           deadline' = [deadline EXCEPT ![t] = "none"], UNCHANGED <<value, depth>>,
           value # DestroyedBits,
           errno = "EBUSY" => deadline[t] = "expired" \/ \E u \in Threads : depth[u] > 0,
           errno = "EDEADLK" => value.type = "ERRORCHECK" /\ depth[t] = 1,
           errno = "EAGAIN" => value.type = "RECURSIVE" /\ depth[t] = CounterMax + 1,
           errno = "EPERM" => value.type # "NORMAL" /\ depth[t] = 0
    PROVE  Simulates
<1>1. Outcome(errno) = errno /\ Outcome(pc[t]) = "none"
    BY DEF Outcome
<1>2. /\ ResultMap' = [ResultMap EXCEPT ![t] = errno]
      /\ ResultMap[t] = "none"
  <2>1. /\ ResultMap' = [ResultMap EXCEPT ![t] = Outcome(errno)]
        /\ ResultMap[t] = Outcome(pc[t])
    BY ResultMove
  <2>2. QED
    BY <1>1, <2>1
<1>3. KindMap' = KindMap /\ KindMap = value.type /\ KindMap # "destroyed"
    BY DEF KindMap, IInv, WordOK, Live, LiveWords, MutexTypes
<1>4. Abstract!Truthful(t, errno)
    BY DEF Abstract!Truthful, Abstract!Held
<1>5. Abstract!Refuse(t, errno)
    BY <1>2, <1>3, <1>4 DEF ResultMap, KindMap, Outcome, Abstract!Refuse
<1>6. QED
    BY <1>5 DEF Simulates, Abstract!Next, Errors

\* A lock, trylock or timed lock that succeeds.
LEMMA Acquisition ==
    ASSUME IInv, NEW t \in Threads, Acquired(t), SameKind,
           pc' = [pc EXCEPT ![t] = "idle"], pc[t] \notin Errors,
           deadline' = [deadline EXCEPT ![t] = "none"],
           \A u \in Threads \ {t} : depth[u] = 0,
           depth[t] = 0 \/ (value.type = "RECURSIVE" /\ depth[t] <= CounterMax)
    PROVE  Simulates
<1>1. Outcome("idle") = "none" /\ Outcome(pc[t]) = "none"
    BY DEF Outcome, Errors
<1>2. ResultMap' = ResultMap /\ ResultMap[t] = "none"
    BY <1>1, ResultMove DEF ResultMap
<1>3. KindMap' = KindMap /\ KindMap = value.type /\ KindMap # "destroyed"
    BY DEF KindMap, SameKind, IInv, WordOK, Live, LiveWords, MutexTypes
<1>4. ~Abstract!OthersHold(t)
    BY DEF Abstract!OthersHold
<1>5. Abstract!Acquire(t)
    BY <1>2, <1>3, <1>4 DEF ResultMap, KindMap, Outcome, Acquired, Abstract!Acquire
<1>6. QED
    BY <1>5 DEF Simulates, Abstract!Next

\* The step of an unlock that lets go.
LEMMA Letting ==
    ASSUME IInv, NEW t \in Threads, NEW p \in {"idle", "wake"}, Released(t), SameKind,
           pc' = [pc EXCEPT ![t] = p], pc[t] \notin Errors,
           UNCHANGED deadline, depth[t] > 0
    PROVE  Simulates
<1>1. Outcome(p) = "none" /\ Outcome(pc[t]) = "none"
    BY DEF Outcome, Errors
<1>2. ResultMap' = ResultMap /\ ResultMap[t] = "none"
    BY <1>1, ResultMove DEF ResultMap
<1>3. KindMap' = KindMap
    BY DEF KindMap, SameKind
<1>4. Abstract!Release(t)
    BY <1>2, <1>3 DEF ResultMap, KindMap, Outcome, Released, Abstract!Release
<1>5. QED
    BY <1>4 DEF Simulates, Abstract!Next

\* A caller begins to contend, with or without a timeout.
LEMMA Contending ==
    ASSUME IInv, NEW t \in Threads, NEW p \in LockLabels, NEW timed \in BOOLEAN,
           pc[t] = "idle", pc' = [pc EXCEPT ![t] = p], SetDeadline(t, timed),
           value # DestroyedBits, UNCHANGED <<value, depth>>
    PROVE  Simulates
<1>1. Outcome(p) = "none" /\ Outcome(pc[t]) = "none"
    BY DEF Outcome, Errors, LockLabels
<1>2. deadline[t] = "none" /\ deadline \in [Threads -> {"none", "pending", "expired"}]
    BY DEF IInv, TypeOK, ResultOK, LockLabels
<1>3. CASE timed = FALSE
  <2>1. deadline' = deadline
    BY <1>2, <1>3 DEF SetDeadline
  <2>2. QED
    BY <1>1, <2>1, Invisible
<1>4. CASE timed = TRUE
  <2>1. ResultMap' = ResultMap /\ ResultMap[t] = "none"
    BY <1>1, ResultMove DEF ResultMap
  <2>2. KindMap' = KindMap /\ KindMap # "destroyed"
    BY DEF KindMap, IInv, WordOK, Live, LiveWords, MutexTypes
  <2>3. Abstract!Wait(t)
    BY <1>2, <1>4, <2>1, <2>2 DEF ResultMap, KindMap, Outcome, SetDeadline, Abstract!Wait
  <2>4. QED
    BY <2>3 DEF Simulates, Abstract!Next
<1>5. QED
    BY <1>3, <1>4

\* What IInv says of a live mutex, in the terms of a caller.
LEMMA CallerFacts ==
    ASSUME IInv, value # DestroyedBits
    PROVE  /\ value.type \in MutexTypes /\ Live(value)
           /\ value = UnlockedBits(value.type) <=> \A u \in Threads : depth[u] = 0
           /\ value # UnlockedBits(value.type) => \E u \in Threads : depth[u] > 0
           /\ \A t \in Threads : depth[t] > 0 => \A u \in Threads \ {t} : depth[u] = 0
           /\ value.type # "NORMAL" =>
                 \A t \in Threads : depth[t] = IF value.owner = t THEN value.counter + 1 ELSE 0
           /\ value.type = "ERRORCHECK" => value.counter = 0
           /\ value.counter \in 0 .. CounterMax
<1>1. value.type \in MutexTypes /\ Live(value) /\ value.counter \in 0 .. CounterMax
    BY DEF IInv, WordOK, Live, LiveWords
<1>2. value = UnlockedBits(value.type) <=> value.state = 0
    BY <1>1, UnlockedFacts
<1>3. value.state = 0 <=> \A u \in Threads : depth[u] = 0
    BY DEF IInv, WordOK
<1>4. depth \in [Threads -> 0 .. CounterMax + 1]
    BY DEF IInv, TypeOK
<1>5. (\E u \in Threads : depth[u] # 0) => \E u \in Threads : depth[u] > 0
    BY <1>4, CounterAssumption
<1>6. /\ value.type # "NORMAL" =>
            \A t \in Threads : depth[t] = IF value.owner = t THEN value.counter + 1 ELSE 0
      /\ value.type = "ERRORCHECK" => value.counter = 0
    BY DEF IInv, WordOK
<1>7. ASSUME NEW t \in Threads, depth[t] > 0, NEW u \in Threads \ {t}
      PROVE  depth[u] = 0
  <2>1. CASE value.type = "NORMAL"
    BY <1>7, <2>1 DEF IInv, WordOK
  <2>2. CASE value.type # "NORMAL"
    BY <1>6, <1>7, <2>2
  <2>3. QED
    BY <2>1, <2>2
<1>8. QED
    BY <1>1, <1>2, <1>3, <1>5, <1>6, <1>7

\* Between calls, and once it has let go, a thread has no deadline.
LEMMA NoDeadline ==
    ASSUME IInv, NEW t \in Threads, pc[t] \notin LockLabels
    PROVE  deadline[t] = "none" /\ deadline = [deadline EXCEPT ![t] = "none"]
BY DEF IInv, TypeOK, ResultOK

LEMMA LockRefines ==
    ASSUME IInv, NEW t \in Threads, NEW timed \in BOOLEAN,
           NormalLock(t, timed) \/ NormalTryLock(t)
    PROVE  Simulates
<1>1. pc[t] = "idle" /\ value # DestroyedBits /\ value.type = "NORMAL"
    BY DEF NormalLock, NormalTryLock, Enter
<1>2. deadline[t] = "none" /\ deadline = [deadline EXCEPT ![t] = "none"]
    BY <1>1, NoDeadline DEF LockLabels
<1>3. pc[t] \notin Errors
    BY <1>1 DEF Errors
<1>4. CASE /\ value = UnlockedBits("NORMAL") /\ value' = LockedBits("NORMAL", t, 1)
           /\ Acquired(t) /\ UNCHANGED <<pc, deadline>>
  <2>1. SameKind
    BY <1>1, <1>4, NoBitsFact, LockedFacts DEF SameKind
  <2>2. \A u \in Threads : depth[u] = 0
    BY <1>1, <1>4, CallerFacts
  <2>3. pc' = [pc EXCEPT ![t] = "idle"]
    BY <1>1, <1>4 DEF IInv, TypeOK
  <2>4. QED
    BY <1>2, <1>3, <1>4, <2>1, <2>2, <2>3, Acquisition
<1>5. CASE SetDeadline(t, timed) /\ Goto(t, "swap") /\ UNCHANGED <<value, depth>>
    BY <1>1, <1>5, Contending DEF Goto, LockLabels
<1>6. CASE /\ value # UnlockedBits("NORMAL") /\ Goto(t, "EBUSY")
           /\ UNCHANGED <<value, depth, deadline>>
  <2>1. \E u \in Threads : depth[u] > 0
    BY <1>1, <1>6, CallerFacts
  <2>2. QED
    BY <1>1, <1>2, <1>3, <1>6, <2>1, Refusal DEF Goto, Errors
<1>7. QED
    BY <1>4, <1>5, <1>6 DEF NormalLock, NormalTryLock

LEMMA TypedLockRefines ==
    ASSUME IInv, NEW t \in Threads, NEW timed \in BOOLEAN,
           TypedLock(t, timed) \/ TypedTryLock(t)
    PROVE  Simulates
<1>1. /\ pc[t] = "idle" /\ value # DestroyedBits /\ value.type # "NORMAL"
      /\ UNCHANGED <<value, depth>>
    BY DEF TypedLock, TypedTryLock, Enter
<1>2. deadline[t] = "none" /\ deadline = [deadline EXCEPT ![t] = "none"]
    BY <1>1, NoDeadline DEF LockLabels
<1>3. pc[t] \notin Errors
    BY <1>1 DEF Errors
<1>4. CASE Relock(t)
  <2>1. /\ value.owner = t /\ UNCHANGED deadline
        /\ pc' = [pc EXCEPT ![t] = pc'[t]]
        /\ \/ pc'[t] = "EDEADLK" /\ value.type = "ERRORCHECK"
           \/ pc'[t] = "EAGAIN" /\ value.type = "RECURSIVE" /\ value.counter = CounterMax
           \/ pc'[t] = "inc" /\ value.type = "RECURSIVE" /\ value.counter < CounterMax
    BY <1>1, <1>4, RelockFacts
  <2>2. depth[t] = value.counter + 1 /\ (value.type = "ERRORCHECK" => value.counter = 0)
    BY <1>1, <2>1, CallerFacts
  <2>3. CASE pc'[t] = "EDEADLK" /\ value.type = "ERRORCHECK"
    <3>1. pc' = [pc EXCEPT ![t] = "EDEADLK"] /\ depth[t] = 1
      BY <2>1, <2>2, <2>3
    <3>2. QED
      BY <1>1, <1>2, <1>3, <2>1, <2>3, <3>1, Refusal DEF Errors
  <2>4. CASE pc'[t] = "EAGAIN" /\ value.type = "RECURSIVE" /\ value.counter = CounterMax
    <3>1. pc' = [pc EXCEPT ![t] = "EAGAIN"] /\ depth[t] = CounterMax + 1
      BY <2>1, <2>2, <2>4
    <3>2. QED
      BY <1>1, <1>2, <1>3, <2>1, <2>4, <3>1, Refusal DEF Errors
  <2>5. CASE pc'[t] = "inc"
    <3>1. pc' = [pc EXCEPT ![t] = "inc"] /\ Outcome("inc") = Outcome(pc[t])
      BY <1>1, <2>1, <2>5 DEF Outcome, Errors
    <3>2. QED
      BY <1>1, <2>1, <3>1, Invisible
  <2>6. QED
    BY <2>1, <2>3, <2>4, <2>5
<1>5. CASE SetDeadline(t, timed) /\ (Goto(t, "fast") \/ Goto(t, "loop"))
    BY <1>1, <1>5, Contending DEF Goto, LockLabels
<1>6. CASE Goto(t, "try") /\ UNCHANGED deadline
  <2>1. Outcome("try") = Outcome(pc[t])
    BY <1>1 DEF Outcome, Errors
  <2>2. QED
    BY <1>1, <1>6, <2>1, Invisible DEF Goto
<1>7. QED
    BY <1>4, <1>5, <1>6 DEF TypedLock, TypedTryLock

\* The compare-and-exchange of the unlocked word of a typed mutex.
LEMMA CasRefines ==
    ASSUME IInv, NEW t \in Threads, NEW n \in {1, 2}, pc[t] \notin Errors,
           value # DestroyedBits,
           CasSucceeds(t, UnlockedBits(value.type), LockedBits(value.type, t, n))
    PROVE  Simulates
<1>1. SameKind
    BY CallerFacts, LockedFacts DEF CasSucceeds, SameKind
<1>2. \A u \in Threads : depth[u] = 0
    BY CallerFacts DEF CasSucceeds
<1>3. QED
    BY <1>1, <1>2, Acquisition DEF CasSucceeds, Leave, Goto

LEMMA ContendRefines ==
    ASSUME IInv, NEW t \in Threads,
           \/ NormalSwap(t) \/ TypedFast(t) \/ TypedLoopAcquire(t)
           \/ TypedLoopContend(t) \/ Reload(t)
    PROVE  Simulates
<1>1. /\ pc[t] \in {"swap", "fast", "loop", "reload"} /\ value # DestroyedBits
      /\ pc[t] = "swap" => value.type = "NORMAL"
      /\ pc[t] # "swap" => mvalue[t].type = value.type
    BY DEF IInv, ThreadOK, HolderLabels, TypedLabels, WaitLabels,
       NormalSwap, TypedFast, TypedLoopAcquire, TypedLoopContend, Reload
<1>2. pc[t] \notin Errors
    BY <1>1 DEF Errors
<1>3. ASSUME NEW p \in {"check", "loop", "reload", "recheck"}, Goto(t, p),
             SameKind \/ UNCHANGED value, UNCHANGED <<depth, deadline>>
      PROVE  Simulates
  <2>1. Outcome(p) = Outcome(pc[t])
    BY <1>1 DEF Outcome, Errors
  <2>2. QED
    BY <1>3, <2>1, Invisible DEF Goto
<1>4. CASE NormalSwap(t)
  <2>1. SameKind /\ value.type = "NORMAL"
    BY <1>1, <1>4, NoBitsFact, LockedFacts DEF NormalSwap, SameKind
  <2>2. CASE value = UnlockedBits("NORMAL") /\ Acquired(t) /\ Leave(t, "idle")
    <3>1. \A u \in Threads : depth[u] = 0
      BY <2>1, <2>2, CallerFacts DEF SameKind
    <3>2. QED
      BY <1>2, <2>1, <2>2, <3>1, Acquisition DEF Leave, Goto
  <2>3. CASE Goto(t, "check") /\ UNCHANGED <<deadline, depth>>
    BY <1>3, <2>1, <2>3
  <2>4. QED
    BY <1>4, <2>2, <2>3 DEF NormalSwap
<1>5. CASE TypedFast(t) \/ TypedLoopAcquire(t)
  <2>1. mvalue[t] = UnlockedBits(value.type)
    BY <1>1, <1>5 DEF IInv, ThreadOK, TypedFast, TypedLoopAcquire
  <2>2. ASSUME NEW n \in {1, 2}, CasSucceeds(t, mvalue[t], LockedBits(mvalue[t].type, t, n))
        PROVE  Simulates
    <3>1. mvalue[t].type = value.type
      BY <1>1, <1>5 DEF TypedFast, TypedLoopAcquire
    <3>2. QED
      BY <1>1, <1>2, <2>1, <2>2, <3>1, CasRefines
  <2>3. ASSUME NEW p \in {"reload", "recheck"}, CasFails(t, mvalue[t], p)
        PROVE  Simulates
    BY <1>3, <2>3 DEF CasFails
  <2>4. QED
    BY <1>5, <2>2, <2>3 DEF TypedFast, TypedLoopAcquire
<1>6. CASE TypedLoopContend(t)
  <2>1. CASE value' = [value EXCEPT !.state = 2]
    <3>1. SameKind
      BY <1>1, <2>1, CallerFacts, SetState DEF SameKind
    <3>2. QED
      BY <1>3, <1>6, <3>1 DEF TypedLoopContend
  <2>2. CASE UNCHANGED value
    BY <1>3, <1>6, <2>2 DEF TypedLoopContend
  <2>3. QED
    BY <1>6, <2>1, <2>2 DEF TypedLoopContend
<1>7. CASE Reload(t)
    BY <1>3, <1>7 DEF Reload
<1>8. QED
    BY <1>4, <1>5, <1>6, <1>7

LEMMA WaitRefines ==
    ASSUME IInv, NEW t \in Threads, CheckTime(t) \/ FutexWait(t) \/ Resume(t) \/ Wake(t)
    PROVE  Simulates
<1>1. pc[t] \in {"check", "recheck", "wait", "sleep", "wake"} /\ UNCHANGED <<value, depth>>
    BY DEF CheckTime, FutexWait, Resume, Wake
<1>2. pc[t] \notin Errors
    BY <1>1 DEF Errors
<1>3. ASSUME NEW p \in {"reload", "wait", "loop", "sleep", "swap", "idle"}, Goto(t, p),
             UNCHANGED deadline
      PROVE  Simulates
  <2>1. Outcome(p) = Outcome(pc[t])
    BY <1>1 DEF Outcome, Errors
  <2>2. QED
    BY <1>1, <1>3, <2>1, Invisible DEF Goto
<1>4. CASE pc[t] \in {"check", "recheck"} /\ deadline[t] = "expired" /\ Leave(t, "EBUSY")
  <2>1. value # DestroyedBits
    BY <1>4 DEF IInv, ThreadOK, TypedLabels, WaitLabels
  <2>2. QED
    BY <1>1, <1>2, <1>4, <2>1, Refusal DEF Leave, Goto, Errors
<1>5. QED
    BY <1>3, <1>4 DEF CheckTime, FutexWait, Resume, Wake, Again

LEMMA HolderRefines ==
    ASSUME IInv, NEW t \in Threads, RecursiveIncrement(t) \/ RecursiveDecrement(t)
    PROVE  Simulates
<1>1. /\ pc[t] \in {"inc", "dec"} /\ value # DestroyedBits /\ value.type # "NORMAL"
      /\ value.owner = t
      /\ pc[t] = "inc" => value.type = "RECURSIVE" /\ value.counter < CounterMax
    BY DEF IInv, ThreadOK, HolderLabels, RecursiveIncrement, RecursiveDecrement
<1>2. pc[t] \notin Errors /\ pc[t] \notin LockLabels
    BY <1>1 DEF Errors, LockLabels
<1>3. /\ Live(value) /\ value.counter \in 0 .. CounterMax
      /\ depth[t] = value.counter + 1
    BY <1>1, CallerFacts
<1>4. depth[t] > 0 /\ \A u \in Threads \ {t} : depth[u] = 0
    BY <1>1, <1>3, CallerFacts, CounterAssumption
<1>5. ASSUME NEW n, value' = [value EXCEPT !.counter = n]
      PROVE  SameKind
  <2>1. value'.type = value.type /\ value'.state = value.state /\ value.state # 0
    BY <1>1, <1>3, <1>5, TidFact DEF Live, LiveWords
  <2>2. value' # DestroyedBits
    BY <2>1 DEF DestroyedBits, Bits
  <2>3. QED
    BY <1>1, <2>1, <2>2 DEF SameKind
<1>6. CASE UNCHANGED <<value, pc, deadline, depth>>
    BY <1>6, Invisible DEF IInv, TypeOK
<1>7. CASE pc[t] = "inc" /\ CasSucceeds(t, mvalue[t], [mvalue[t] EXCEPT !.counter = @ + 1])
  <2>1. value' = [value EXCEPT !.counter = value.counter + 1]
    BY <1>7 DEF CasSucceeds
  <2>2. SameKind
    BY <1>5, <2>1
  <2>3. depth[t] <= CounterMax
    BY <1>1, <1>3, <1>7, CounterAssumption
  <2>4. QED
    BY <1>1, <1>2, <1>4, <1>7, <2>2, <2>3, Acquisition DEF CasSucceeds, Leave, Goto
<1>8. CASE /\ value' = [value EXCEPT !.counter = @ - 1] /\ Released(t) /\ Leave(t, "idle")
  <2>1. SameKind
    BY <1>5, <1>8
  <2>2. deadline' = deadline
    BY <1>2, <1>8, NoDeadline DEF Leave
  <2>3. QED
    BY <1>2, <1>4, <1>8, <2>1, <2>2, Letting DEF Leave, Goto
<1>9. QED
    BY <1>6, <1>7, <1>8 DEF RecursiveIncrement, RecursiveDecrement

LEMMA TryRefines ==
    ASSUME IInv, NEW t \in Threads, TypedTry(t)
    PROVE  Simulates
<1>1. /\ pc[t] = "try" /\ value # DestroyedBits /\ mvalue[t].type = value.type
      /\ value.type \in MutexTypes
    BY CallerFacts DEF IInv, ThreadOK, TypedLabels, TypedTry
<1>2. pc[t] \notin Errors /\ pc[t] \notin LockLabels
    BY <1>1 DEF Errors, LockLabels
<1>3. CASE CasSucceeds(t, UnlockedBits(value.type), LockedBits(UnlockedBits(value.type).type, t, 1))
    BY <1>1, <1>2, <1>3, UnlockedFacts, CasRefines
<1>4. CASE CasFails(t, UnlockedBits(value.type), "EBUSY")
  <2>1. \E u \in Threads : depth[u] > 0
    BY <1>1, <1>4, CallerFacts DEF CasFails
  <2>2. deadline' = [deadline EXCEPT ![t] = "none"]
    BY <1>2, <1>4, NoDeadline DEF CasFails
  <2>3. QED
    BY <1>1, <1>2, <1>4, <2>1, <2>2, Refusal DEF CasFails, Goto, Errors
<1>5. QED
    BY <1>1, <1>3, <1>4 DEF TypedTry

LEMMA UnlockRefines ==
    ASSUME IInv, NEW t \in Threads, NormalUnlock(t) \/ TypedUnlock(t)
    PROVE  Simulates
<1>1. pc[t] = "idle" /\ value # DestroyedBits /\ UNCHANGED deadline
    BY DEF NormalUnlock, TypedUnlock, Enter
<1>2. pc[t] \notin Errors /\ pc[t] \notin LockLabels
    BY <1>1 DEF Errors, LockLabels
<1>3. deadline' = [deadline EXCEPT ![t] = "none"]
    BY <1>1, <1>2, NoDeadline
<1>4. CASE NormalUnlock(t)
  <2>1. SameKind
    <3>1. value.type = "NORMAL" /\ value.owner = 0 /\ value.state \in 0 .. 2
      BY <1>4 DEF NormalUnlock, Enter, IInv, WordOK, Live, LiveWords
    <3>2. value'.type = value.type /\ value'.owner = value.owner
      BY <1>1, <1>4, CallerFacts DEF NormalUnlock, Live, LiveWords
    <3>3. DestroyedBits.owner # 0
      BY DEF DestroyedBits, Bits
    <3>4. QED
      BY <1>1, <3>1, <3>2, <3>3 DEF SameKind
  <2>2. CASE Released(t) /\ UNCHANGED pc
    <3>1. pc' = [pc EXCEPT ![t] = "idle"] /\ depth[t] > 0
      BY <1>1, <1>4, <2>2 DEF IInv, TypeOK, NormalUnlock
    <3>2. QED
      BY <1>1, <1>2, <2>1, <2>2, <3>1, Letting
  <2>3. CASE Goto(t, "store") /\ UNCHANGED depth
    <3>1. Outcome("store") = Outcome(pc[t])
      BY <1>1 DEF Outcome, Errors
    <3>2. QED
      BY <1>1, <2>1, <2>3, <3>1, Invisible DEF Goto
  <2>4. QED
    BY <1>4, <2>2, <2>3 DEF NormalUnlock
<1>5. CASE TypedUnlock(t) /\ value.owner # t
  <2>1. value.type # "NORMAL" /\ depth[t] = 0
    BY <1>1, <1>5, CallerFacts DEF TypedUnlock
  <2>2. pc' = [pc EXCEPT ![t] = "EPERM"] /\ UNCHANGED <<value, depth>>
    BY <1>5 DEF TypedUnlock, Goto
  <2>3. QED
    BY <1>1, <1>2, <1>3, <2>1, <2>2, Refusal DEF Errors
<1>6. CASE TypedUnlock(t) /\ value.owner = t
  <2>1. PICK p \in {"dec", "release"} : pc' = [pc EXCEPT ![t] = p]
    BY <1>6 DEF TypedUnlock, Goto
  <2>2. Outcome(p) = Outcome(pc[t])
    BY <1>1 DEF Outcome, Errors
  <2>3. QED
    BY <1>1, <1>6, <2>1, <2>2, Invisible DEF TypedUnlock
<1>7. QED
    BY <1>4, <1>5, <1>6

LEMMA FreeRefines ==
    ASSUME IInv, NEW t \in Threads, NormalStore(t) \/ TypedRelease(t)
    PROVE  Simulates
<1>1. /\ pc[t] \in {"store", "release"} /\ value # DestroyedBits
      /\ pc[t] = "store" => value.type = "NORMAL" /\ depth[t] = 1
      /\ pc[t] = "release" =>
            value.type # "NORMAL" /\ mvalue[t].type = value.type /\ value.owner = t
    BY DEF IInv, ThreadOK, HolderLabels, NormalStore, TypedRelease
<1>2. pc[t] \notin Errors /\ pc[t] \notin LockLabels
    BY <1>1 DEF Errors, LockLabels
<1>3. value' = UnlockedBits(value.type)
    BY <1>1 DEF NormalStore, TypedRelease
<1>4. SameKind
    BY <1>1, <1>3, CallerFacts, UnlockedFacts DEF SameKind
<1>5. depth[t] > 0
    BY <1>1, CallerFacts, CounterAssumption DEF NormalStore, TypedRelease
<1>6. PICK p \in {"idle", "wake"} : Leave(t, p)
    BY DEF NormalStore, TypedRelease
<1>7. deadline' = deadline /\ pc' = [pc EXCEPT ![t] = p] /\ Released(t)
    BY <1>2, <1>6, NoDeadline DEF Leave, Goto, NormalStore, TypedRelease
<1>8. QED
    BY <1>2, <1>4, <1>5, <1>7, Letting

LEMMA ReturnRefines ==
    ASSUME IInv, NEW t \in Threads, Return(t)
    PROVE  Simulates
<1>1. Outcome(pc[t]) # "none" /\ Outcome("idle") = "none" /\ pc[t] \notin LockLabels
    BY DEF Return, Outcome, Errors, LockLabels
<1>2. deadline' = deadline /\ pc' = [pc EXCEPT ![t] = "idle"]
    BY <1>1, NoDeadline DEF Return, Leave, Goto
<1>3. ResultMap' = [ResultMap EXCEPT ![t] = "none"] /\ ResultMap[t] # "none"
  <2>1. /\ ResultMap' = [ResultMap EXCEPT ![t] = Outcome("idle")]
        /\ ResultMap[t] = Outcome(pc[t])
    BY <1>2, ResultMove
  <2>2. QED
    BY <1>1, <2>1
<1>4. KindMap' = KindMap
    BY DEF Return, KindMap
<1>5. Abstract!Return(t)
    BY <1>2, <1>3, <1>4 DEF Return, ResultMap, KindMap, Outcome, Abstract!Return
<1>6. QED
    BY <1>5 DEF Simulates, Abstract!Next

LEMMA DestroyRefines ==
    ASSUME IInv, NEW t \in Threads, MutexDestroy(t)
    PROVE  Simulates
<1>1. /\ pc[t] = "idle" /\ value # DestroyedBits /\ UNCHANGED deadline
      /\ pc' = [pc EXCEPT ![t] = DestroyResult(t)]
    BY DEF MutexDestroy, Enter, Goto
<1>2. pc[t] \notin Errors /\ pc[t] \notin LockLabels
    BY <1>1 DEF Errors, LockLabels
<1>3. deadline' = [deadline EXCEPT ![t] = "none"]
    BY <1>1, <1>2, NoDeadline
<1>4. /\ value.type \in MutexTypes /\ value.counter \in 0 .. CounterMax
      /\ value.type # "NORMAL" /\ value.owner = t => depth[t] = value.counter + 1
      /\ value.type = "ERRORCHECK" => value.counter = 0
    BY <1>1, CallerFacts
<1>5. CASE DestroyResult(t) # "idle" /\ UNCHANGED <<value, depth>>
  <2>1. value # UnlockedBits(value.type)
    BY <1>5 DEF DestroyResult
  <2>2. \E u \in Threads : depth[u] > 0
    BY <1>1, <2>1, CallerFacts
  <2>3. CASE value.type = "NORMAL" \/ value.owner # t
    <3>1. DestroyResult(t) = "EBUSY"
      BY <2>1, <2>3 DEF DestroyResult
    <3>2. QED
      BY <1>1, <1>2, <1>3, <1>5, <2>2, <3>1, Refusal DEF Errors
  <2>4. CASE value.type = "ERRORCHECK" /\ value.owner = t
    <3>1. DestroyResult(t) = "EDEADLK" /\ depth[t] = 1
      BY <1>4, <2>1, <2>4 DEF DestroyResult
    <3>2. QED
      BY <1>1, <1>2, <1>3, <1>5, <2>4, <3>1, Refusal DEF Errors
  <2>5. CASE value.type = "RECURSIVE" /\ value.owner = t
    <3>1. DestroyResult(t) = "EAGAIN" /\ value.counter = CounterMax
      BY <1>5, <2>1, <2>5 DEF DestroyResult
    <3>2. depth[t] = CounterMax + 1
      BY <1>4, <2>5, <3>1
    <3>3. QED
      BY <1>1, <1>2, <1>3, <1>5, <2>5, <3>1, <3>2, Refusal DEF Errors
  <2>6. QED
    BY <1>4, <2>3, <2>4, <2>5 DEF MutexTypes
<1>6. CASE /\ DestroyResult(t) = "idle" /\ value' = DestroyedBits
           /\ depth' = [depth EXCEPT ![t] = 0]
  <2>1. /\ \A u \in Threads \ {t} : depth[u] = 0
        /\ depth[t] = 0 \/ (value.type = "RECURSIVE" /\ depth[t] <= CounterMax)
    <3>1. CASE value = UnlockedBits(value.type)
      BY <1>1, <3>1, CallerFacts
    <3>2. CASE value # UnlockedBits(value.type)
      <4>1. value.type = "RECURSIVE" /\ value.owner = t /\ value.counter # CounterMax
        BY <1>4, <1>6, <3>2 DEF DestroyResult, MutexTypes
      <4>2. depth[t] = value.counter + 1 /\ depth[t] > 0 /\ depth[t] <= CounterMax
        BY <1>4, <4>1, CounterAssumption
      <4>3. QED
        BY <1>1, <4>1, <4>2, CallerFacts
    <3>3. QED
      BY <3>1, <3>2
  <2>2. ResultMap' = ResultMap
    <3>1. Outcome("idle") = Outcome(pc[t]) /\ pc' = [pc EXCEPT ![t] = "idle"]
      BY <1>1, <1>6
    <3>2. QED
      BY <3>1, ResultMove DEF ResultMap
  <2>3. KindMap' = "destroyed" /\ KindMap = value.type /\ KindMap # "destroyed"
    BY <1>1, <1>4, <1>6 DEF KindMap, MutexTypes
  <2>4. ~Abstract!OthersHold(t)
    BY <2>1 DEF Abstract!OthersHold
  <2>5. Abstract!Destroy(t)
    BY <1>1, <1>6, <2>1, <2>2, <2>3, <2>4 DEF ResultMap, KindMap, Outcome, Abstract!Destroy
  <2>6. QED
    BY <2>5 DEF Simulates, Abstract!Next
<1>7. QED
    BY <1>5, <1>6 DEF MutexDestroy

LEMMA InitialiseRefines ==
    ASSUME IInv, NEW t \in Threads, NEW type \in Types, MutexInit(t, type)
    PROVE  Simulates
<1>1. KindMap = "destroyed" /\ KindMap' = type
    BY TypesAssumption, UnlockedFacts DEF MutexInit, KindMap, MutexTypes
<1>2. ResultMap' = ResultMap
    BY DEF MutexInit, ResultMap
<1>3. Abstract!Initialise
    BY <1>1, <1>2 DEF MutexInit, ResultMap, KindMap, Outcome, Abstract!Initialise
<1>4. QED
    BY <1>3 DEF Simulates, Abstract!Next

LEMMA ExpireRefines ==
    ASSUME IInv, NEW t \in Threads, Expire(t)
    PROVE  Simulates
<1>1. Abstract!Expire(t)
    BY DEF Expire, Abstract!Expire
<1>2. QED
    BY <1>1 DEF Simulates, Abstract!Next

LEMMA NextRefines == IInv /\ [Next]_vars => [Abstract!Next]_(Abstract!vars)
<1>1. ASSUME IInv, UNCHANGED <<value, pc, depth, deadline>>
      PROVE  Simulates
    BY <1>1 DEF Simulates, Abstract!vars
<1>2. ASSUME IInv, NEW t \in Threads, Call(t)
      PROVE  Simulates
    BY <1>2, LockRefines, TypedLockRefines, UnlockRefines, DestroyRefines, InitialiseRefines
    DEF Call
<1>3. ASSUME IInv, NEW t \in Threads, Run(t)
      PROVE  Simulates
    BY <1>3, ContendRefines, WaitRefines, HolderRefines, TryRefines, FreeRefines, ReturnRefines
    DEF Run
<1>4. IInv /\ [Next]_vars => Simulates
    BY <1>1, <1>2, <1>3, ExpireRefines DEF Next, vars, FutexReturnsEarly
<1>5. QED
    BY <1>4 DEF Simulates

\* Behind the three-state word, the stale copies and the futex, every call
\* of the pthread_mutex_* functions takes effect in one step, and an errno is
\* true when it is decided.
THEOREM Refinement == Spec => ImplementsAbstractMutex
<1>1. Init => Abstract!Init
  <2> SUFFICES ASSUME Init PROVE Abstract!Init
    OBVIOUS
  <2>1. PICK type \in Types : value = UnlockedBits(type)
    BY DEF Init
  <2>2. value # DestroyedBits /\ value.type = type
    BY <2>1, TypesAssumption, UnlockedFacts DEF MutexTypes
  <2>3. QED
    BY <2>2 DEF Init, Abstract!Init, Errors
<1>2. QED
    BY <1>1, NextRefines, Invariance, PTL DEF Spec, ImplementsAbstractMutex, Abstract!Spec

----------------------------------------------------------------------------
(* Wake-ups.  WakeupsKept is not inductive: a contender that looks at the  *)
(* clock and gives up takes its promise with it.  On a normal mutex only   *)
(* the contenders that are still to swap the word count; on a typed mutex  *)
(* that keeps its wake-ups no contender ever gives up.                     *)

\* A thread u at label p whose next steps mark the word v as contended, or
\* wake a thread of the queue q.
Waker(u, v, q, p) ==
    \/ p \in {"store", "wake"}
    \/ u \notin q /\ p \in IF v.type = "NORMAL" THEN {"swap", "sleep"} ELSE LockLabels \ {"fast"}

\* No timed call is under way on an owner-tracking mutex that is not used
\* with timeouts.
Untimed == value.type \notin TimedTypes \cup {"NORMAL"} => \A t \in Threads : deadline[t] = "none"

WakeInv ==
    /\ \A t \in queue : pc[t] = "sleep"
    /\ Untimed
    /\ \/ LosesWakeups
       \/ queue = {}
       \/ value.state = 2
       \/ \E u \in Threads : Waker(u, value, queue, pc[u])

\* A step of t that leaves the queue alone: the word says that there are
\* waiters, or t is a waker now, or t was not one before.
LEMMA KeepsWaker ==
    ASSUME WakeInv, Untimed', NEW t \in Threads, t \notin queue, UNCHANGED queue,
           queue \subseteq Threads, \A u \in Threads \ {t} : pc'[u] = pc[u],
           value'.type = value.type,
           \/ LosesWakeups
           \/ value'.state = 2
           \/ Waker(t, value', queue, pc'[t])
           \/ ~Waker(t, value, queue, pc[t]) /\ (value.state = 2 => value'.state = 2)
    PROVE  WakeInv'
<1>1. \A u \in queue' : pc'[u] = "sleep"
    BY DEF WakeInv
<1>2. LosesWakeups' <=> LosesWakeups
    BY DEF LosesWakeups
<1>3. ASSUME NEW u \in Threads, u # t, Waker(u, value, queue, pc[u])
      PROVE  Waker(u, value', queue', pc'[u])
    BY <1>3 DEF Waker
<1>4. \/ LosesWakeups' \/ queue' = {} \/ value'.state = 2
      \/ \E u \in Threads : Waker(u, value', queue', pc'[u])
    BY <1>2, <1>3 DEF WakeInv
<1>5. QED
    BY <1>1, <1>4 DEF WakeInv

\* Only a timed lock sets a deadline, on a mutex that is used with timeouts.
LEMMA DeadlineSet ==
    ASSUME IInv, [Next]_vars, NEW u \in Threads, deadline[u] = "none"
    PROVE  \/ deadline'[u] = "none"
           \/ value # DestroyedBits /\ value.type \in TimedTypes /\ UNCHANGED value
<1>1. deadline \in [Threads -> {"none", "pending", "expired"}]
    BY DEF IInv, TypeOK
<1>2. ASSUME NEW t \in Threads, NEW timed \in BOOLEAN, NormalLock(t, timed) \/ TypedLock(t, timed)
      PROVE  \/ deadline'[u] = "none"
             \/ value # DestroyedBits /\ value.type \in TimedTypes /\ UNCHANGED value
    BY <1>1, <1>2 DEF NormalLock, TypedLock, Enter, SetDeadline, Relock
<1>3. ASSUME NEW t \in Threads, NEW p, Leave(t, p)
      PROVE  deadline'[u] = "none"
    BY <1>1, <1>3 DEF Leave
<1>4. ASSUME NEW t \in Threads, Run(t)
      PROVE  deadline'[u] = "none"
    BY <1>3, <1>4
    DEF Run, NormalSwap, NormalStore, RecursiveIncrement, TypedFast, TypedLoopAcquire,
        TypedLoopContend, Reload, CheckTime, FutexWait, Resume, TypedTry, RecursiveDecrement,
        TypedRelease, Wake, Return, CasSucceeds, CasFails
<1>5. ASSUME NEW t \in Threads, Expire(t)
      PROVE  deadline'[u] = "none"
    BY <1>1, <1>5 DEF Expire
<1>6. ASSUME UNCHANGED deadline
      PROVE  deadline'[u] = "none"
    BY <1>6
<1>7. ASSUME NEW t \in Threads, Call(t)
      PROVE  \/ deadline'[u] = "none"
             \/ value # DestroyedBits /\ value.type \in TimedTypes /\ UNCHANGED value
    BY <1>2, <1>6, <1>7
    DEF Call, NormalTryLock, TypedTryLock, Relock, NormalUnlock, TypedUnlock, MutexDestroy, MutexInit
<1>8. QED
    BY <1>4, <1>5, <1>6, <1>7 DEF Next, vars, FutexReturnsEarly

LEMMA UntimedStep ==
    ASSUME IInv, WakeInv, [Next]_vars
    PROVE  Untimed'
<1> SUFFICES ASSUME value'.type \notin TimedTypes \cup {"NORMAL"}, NEW u \in Threads
             PROVE  deadline'[u] = "none"
    BY DEF Untimed
<1>1. value' # DestroyedBits
    BY DEF DestroyedBits, Bits
<1>2. CASE value = DestroyedBits
  <2>1. pc[u] \notin LockLabels
    BY <1>2 DEF IInv, ThreadOK, LockLabels, HolderLabels, TypedLabels, WaitLabels
  <2>2. QED
    BY <1>1, <1>2, <2>1, NoDeadline, DeadlineSet
<1>3. CASE value # DestroyedBits
  <2>1. value'.type = value.type
    BY <1>1, <1>3, KeepsType
  <2>2. deadline[u] = "none"
    BY <2>1 DEF WakeInv, Untimed
  <2>3. QED
    BY <2>1, <2>2, DeadlineSet
<1>4. QED
    BY <1>2, <1>3

\* A move of t changes the label of no other thread; only a sleeper is queued.
LEMMA MoveFacts ==
    ASSUME IInv, WakeInv, NEW t \in Threads
    PROVE  /\ queue \subseteq Threads
           /\ pc[t] # "sleep" => t \notin queue
           /\ \A p : Goto(t, p) => pc'[t] = p /\ \A u \in Threads \ {t} : pc'[u] = pc[u]
BY DEF IInv, TypeOK, WakeInv, Goto

LEMMA CallKeepsWaker ==
    ASSUME IInv, WakeInv, Untimed', NEW t \in Threads, NEW timed \in BOOLEAN,
           \/ NormalLock(t, timed) \/ TypedLock(t, timed) \/ NormalTryLock(t)
           \/ TypedTryLock(t) \/ NormalUnlock(t) \/ TypedUnlock(t)
    PROVE  WakeInv'
<1>1. pc[t] = "idle" /\ value # DestroyedBits /\ UNCHANGED queue
    BY DEF NormalLock, TypedLock, NormalTryLock, TypedTryLock, NormalUnlock, TypedUnlock, Enter
<1>2. ~Waker(t, value, queue, pc[t]) /\ t \notin queue /\ queue \subseteq Threads
    BY <1>1, MoveFacts DEF Waker, LockLabels
<1>3. \A u \in Threads \ {t} : pc'[u] = pc[u]
    BY MoveFacts
    DEF NormalLock, TypedLock, NormalTryLock, TypedTryLock, NormalUnlock, TypedUnlock, Relock
<1>4. CASE UNCHANGED value
    BY <1>1, <1>2, <1>3, <1>4, KeepsWaker
<1>5. CASE value = UnlockedBits("NORMAL") /\ value' = LockedBits("NORMAL", t, 1)
  <2>1. value'.type = value.type /\ value.state # 2
    BY <1>5, NoBitsFact, LockedFacts, UnlockedFacts
  <2>2. QED
    BY <1>1, <1>2, <1>3, <2>1, KeepsWaker
<1>6. CASE NormalUnlock(t)
  <2>1. value'.type = value.type
    BY <1>1, <1>6, CallerFacts DEF NormalUnlock, Live, LiveWords
  <2>2. CASE value.state = 1
    BY <1>1, <1>2, <1>3, <2>1, <2>2, KeepsWaker
  <2>3. CASE Goto(t, "store")
    <3>1. Waker(t, value', queue, pc'[t])
      BY <2>3, MoveFacts DEF Waker
    <3>2. QED
      BY <1>1, <1>2, <1>3, <2>1, <3>1, KeepsWaker
  <2>4. QED
    BY <1>6, <2>2, <2>3 DEF NormalUnlock
<1>7. QED
    BY <1>4, <1>5, <1>6 DEF NormalLock, TypedLock, NormalTryLock, TypedTryLock, TypedUnlock

LEMMA ContendKeepsWaker ==
    ASSUME IInv, WakeInv, Untimed', NEW t \in Threads,
           \/ NormalSwap(t) \/ TypedFast(t) \/ TypedLoopAcquire(t)
           \/ TypedLoopContend(t) \/ Reload(t) \/ Resume(t)
    PROVE  WakeInv'
<1>1. /\ pc[t] \in {"swap", "fast", "loop", "reload", "sleep"} /\ value # DestroyedBits
      /\ pc[t] = "swap" => value.type = "NORMAL"
      /\ pc[t] \in {"fast", "loop", "reload"} =>
            mvalue[t].type = value.type /\ value.type # "NORMAL"
      /\ UNCHANGED queue
    BY DEF IInv, ThreadOK, HolderLabels, TypedLabels, WaitLabels,
       NormalSwap, TypedFast, TypedLoopAcquire, TypedLoopContend, Reload, Resume
<1>2. t \notin queue /\ queue \subseteq Threads
    BY MoveFacts DEF NormalSwap, TypedFast, TypedLoopAcquire, TypedLoopContend, Reload, Resume
<1>3. \A u \in Threads \ {t} : pc'[u] = pc[u]
    BY MoveFacts
    DEF NormalSwap, TypedFast, TypedLoopAcquire, TypedLoopContend, Reload, Resume,
        CasSucceeds, CasFails, Leave
<1>4. value.type \in MutexTypes /\ Live(value)
    BY <1>1, CallerFacts
<1>5. ASSUME NEW p \in LockLabels \ {"fast"}, Goto(t, p), value.type # "NORMAL",
             value'.type = value.type
      PROVE  WakeInv'
  <2>1. Waker(t, value', queue, pc'[t])
    BY <1>2, <1>5, MoveFacts DEF Waker
  <2>2. QED
    BY <1>1, <1>2, <1>3, <1>5, <2>1, KeepsWaker
<1>6. CASE NormalSwap(t)
  <2>1. value'.type = value.type /\ value'.state = 2
    BY <1>1, <1>6, NoBitsFact, LockedFacts DEF NormalSwap
  <2>2. QED
    BY <1>1, <1>2, <1>3, <2>1, KeepsWaker
<1>7. CASE TypedFast(t)
  <2>1. CASE CasSucceeds(t, mvalue[t], LockedBits(mvalue[t].type, t, 1))
    <3>1. value.state = 0 /\ value'.type = value.type
      BY <1>1, <1>4, <1>7, <2>1, UnlockedFacts, LockedFacts
      DEF TypedFast, CasSucceeds, IInv, ThreadOK
    <3>2. ~Waker(t, value, queue, pc[t])
      BY <1>1, <1>7 DEF TypedFast, Waker
    <3>3. QED
      BY <1>1, <1>2, <1>3, <3>1, <3>2, KeepsWaker
  <2>2. CASE CasFails(t, mvalue[t], "reload")
    BY <1>1, <1>5, <1>7, <2>2 DEF TypedFast, CasFails, LockLabels
  <2>3. QED
    BY <1>7, <2>1, <2>2 DEF TypedFast
<1>8. CASE TypedLoopAcquire(t)
  <2>1. CASE CasSucceeds(t, mvalue[t], LockedBits(mvalue[t].type, t, 2))
    <3>1. value'.state = 2 /\ value'.type = value.type
      BY <1>1, <1>4, <1>8, <2>1, LockedFacts DEF TypedLoopAcquire, CasSucceeds
    <3>2. QED
      BY <1>1, <1>2, <1>3, <3>1, KeepsWaker
  <2>2. ASSUME NEW p \in {"reload", "recheck"}, CasFails(t, mvalue[t], p)
        PROVE  WakeInv'
    BY <1>1, <1>5, <1>8, <2>2 DEF TypedLoopAcquire, CasFails, LockLabels
  <2>3. QED
    BY <1>8, <2>1, <2>2 DEF TypedLoopAcquire
<1>9. CASE TypedLoopContend(t)
  <2>1. value'.type = value.type
    BY <1>4, <1>9 DEF TypedLoopContend, Live, LiveWords
  <2>2. Goto(t, "check") \/ Goto(t, "reload")
    BY <1>9 DEF TypedLoopContend
  <2>3. QED
    BY <1>1, <1>5, <1>9, <2>1, <2>2 DEF TypedLoopContend, LockLabels
<1>10. CASE Reload(t)
    BY <1>1, <1>5, <1>10 DEF Reload, LockLabels
<1>11. CASE Resume(t)
  <2>1. CASE value.type = "NORMAL"
    <3>1. Goto(t, "swap")
      BY <1>11, <2>1 DEF Resume, Again
    <3>2. Waker(t, value', queue, pc'[t]) /\ value'.type = value.type
      BY <1>2, <1>11, <2>1, <3>1, MoveFacts DEF Resume, Waker
    <3>3. QED
      BY <1>1, <1>2, <1>3, <3>2, KeepsWaker
  <2>2. CASE value.type # "NORMAL"
    BY <1>5, <1>11, <2>2 DEF Resume, Again, LockLabels
  <2>3. QED
    BY <2>1, <2>2
<1>12. QED
    BY <1>6, <1>7, <1>8, <1>9, <1>10, <1>11

\* A contender gives up only where its promise is not needed.
LEMMA CheckTimeKeepsWaker ==
    ASSUME IInv, WakeInv, Untimed', NEW t \in Threads, CheckTime(t)
    PROVE  WakeInv'
<1>1. /\ pc[t] \in {"check", "recheck"} /\ UNCHANGED <<value, queue>>
      /\ pc[t] = "recheck" => value.type # "NORMAL"
    BY DEF CheckTime, IInv, ThreadOK, TypedLabels
<1>2. t \notin queue /\ queue \subseteq Threads
    BY <1>1, MoveFacts
<1>3. \A u \in Threads \ {t} : pc'[u] = pc[u]
    BY MoveFacts DEF CheckTime, Leave
<1>4. CASE value.type = "NORMAL"
  <2>1. ~Waker(t, value, queue, pc[t])
    BY <1>1, <1>4 DEF Waker
  <2>2. QED
    BY <1>1, <1>2, <1>3, <2>1, KeepsWaker
<1>5. CASE LosesWakeups
    BY <1>1, <1>2, <1>3, <1>5, KeepsWaker
<1>6. CASE value.type # "NORMAL" /\ ~LosesWakeups
  <2>1. deadline[t] = "none"
    BY <1>6 DEF WakeInv, Untimed, LosesWakeups
  <2>2. PICK p \in {"reload", "wait", "loop"} : Goto(t, p)
    BY <2>1 DEF CheckTime
  <2>3. Waker(t, value', queue, pc'[t])
    BY <1>1, <1>2, <1>6, <2>2, MoveFacts DEF Waker, LockLabels
  <2>4. QED
    BY <1>1, <1>2, <1>3, <2>3, KeepsWaker
<1>7. QED
    BY <1>4, <1>5, <1>6

LEMMA HolderKeepsWaker ==
    ASSUME IInv, WakeInv, Untimed', NEW t \in Threads,
           \/ RecursiveIncrement(t) \/ RecursiveDecrement(t) \/ TypedTry(t)
           \/ NormalStore(t) \/ TypedRelease(t) \/ Return(t)
    PROVE  WakeInv'
<1>1. /\ pc[t] \in {"inc", "dec", "try", "store", "release"} \cup Errors
      /\ pc[t] \notin Errors => value # DestroyedBits
      /\ pc[t] \in {"try", "release"} => mvalue[t].type = value.type
      /\ pc[t] = "store" => value.type = "NORMAL"
      /\ UNCHANGED queue
    BY DEF IInv, ThreadOK, HolderLabels, TypedLabels,
       RecursiveIncrement, RecursiveDecrement, TypedTry, NormalStore, TypedRelease, Return
<1>2. t \notin queue /\ queue \subseteq Threads
    BY <1>1, MoveFacts DEF Errors
<1>3. \A u \in Threads \ {t} : pc'[u] = pc[u]
    BY MoveFacts
    DEF RecursiveIncrement, RecursiveDecrement, TypedTry, NormalStore, TypedRelease, Return,
        CasSucceeds, CasFails, Leave
<1>4. pc[t] # "store" => ~Waker(t, value, queue, pc[t])
    BY <1>1 DEF Waker, LockLabels, Errors
<1>5. CASE RecursiveIncrement(t) \/ RecursiveDecrement(t)
  <2>1. Live(value) /\ pc[t] # "store"
    BY <1>1, <1>5, CallerFacts DEF RecursiveIncrement, RecursiveDecrement, Errors
  <2>2. value'.type = value.type /\ value'.state = value.state
    BY <1>5, <2>1 DEF RecursiveIncrement, RecursiveDecrement, CasSucceeds, Live, LiveWords
  <2>3. QED
    BY <1>1, <1>2, <1>3, <1>4, <2>1, <2>2, KeepsWaker
<1>6. CASE TypedTry(t)
  <2>1. /\ value.type \in MutexTypes /\ pc[t] # "store" /\ mvalue[t].type = value.type
    BY <1>1, <1>6, CallerFacts DEF TypedTry, Errors
  <2>2. value'.type = value.type /\ (value.state = 2 => value'.state = 2)
    BY <1>6, <2>1, UnlockedFacts, LockedFacts DEF TypedTry, CasSucceeds, CasFails
  <2>3. QED
    BY <1>1, <1>2, <1>3, <1>4, <2>1, <2>2, KeepsWaker
<1>7. CASE NormalStore(t)
  <2>1. value'.type = value.type /\ Goto(t, "wake")
    BY <1>1, <1>7, NoBitsFact, UnlockedFacts DEF NormalStore, Leave
  <2>2. Waker(t, value', queue, pc'[t])
    BY <2>1, MoveFacts DEF Waker
  <2>3. QED
    BY <1>1, <1>2, <1>3, <2>1, <2>2, KeepsWaker
<1>8. CASE TypedRelease(t)
  <2>1. value'.type = value.type /\ pc[t] = "release"
    BY <1>1, <1>8, CallerFacts, UnlockedFacts DEF TypedRelease, Errors
  <2>2. CASE value.state = 2
    <3>1. Goto(t, "wake")
      BY <1>8, <2>2 DEF TypedRelease, Leave
    <3>2. Waker(t, value', queue, pc'[t])
      BY <3>1, MoveFacts DEF Waker
    <3>3. QED
      BY <1>1, <1>2, <1>3, <2>1, <3>2, KeepsWaker
  <2>3. CASE value.state # 2
    BY <1>1, <1>2, <1>3, <1>4, <2>1, <2>3, KeepsWaker
  <2>4. QED
    BY <2>2, <2>3
<1>9. CASE Return(t)
  <2>1. value' = value /\ pc[t] # "store"
    BY <1>9 DEF Return, Errors
  <2>2. QED
    BY <1>1, <1>2, <1>3, <1>4, <2>1, KeepsWaker
<1>10. QED
    BY <1>5, <1>6, <1>7, <1>8, <1>9

\* A thread goes to sleep on a word that says so, or not at all.
LEMMA FutexWaitKeepsWaker ==
    ASSUME IInv, WakeInv, Untimed', NEW t \in Threads, FutexWait(t)
    PROVE  WakeInv'
<1>1. /\ pc[t] = "wait" /\ UNCHANGED value /\ mvalue[t].state = 2
      /\ pc'[t] = "sleep" /\ \A u \in Threads \ {t} : pc'[u] = pc[u]
    BY MoveFacts DEF FutexWait, IInv, ThreadOK
<1>2. t \notin queue /\ queue \subseteq Threads
    BY <1>1, MoveFacts
<1>3. \A u \in queue' : pc'[u] = "sleep"
    BY <1>1, <1>2 DEF FutexWait, WakeInv
<1>4. CASE value = mvalue[t]
    BY <1>1, <1>3, <1>4 DEF WakeInv
<1>5. CASE value # mvalue[t]
  <2>1. queue' = queue
    BY <1>5 DEF FutexWait, FutexSleeps
  <2>2. Waker(t, value', queue', pc'[t])
    BY <1>1, <1>2, <2>1 DEF Waker, LockLabels
  <2>3. QED
    BY <1>3, <2>2 DEF WakeInv
<1>6. QED
    BY <1>4, <1>5

\* A thread that is taken off the queue will look at the word again.
LEMMA LeavesQueue ==
    ASSUME IInv, WakeInv, Untimed', NEW u \in queue, queue' = queue \ {u}, UNCHANGED value,
           \A w \in queue : pc'[w] = pc[w]
    PROVE  WakeInv'
<1>1. u \in Threads /\ pc'[u] = "sleep"
    BY DEF IInv, TypeOK, WakeInv
<1>2. Waker(u, value', queue', pc'[u])
    BY <1>1 DEF Waker, LockLabels
<1>3. QED
    BY <1>1, <1>2 DEF WakeInv

LEMMA WakeKeepsWaker ==
    ASSUME IInv, WakeInv, Untimed', NEW t \in Threads, Wake(t) \/ FutexReturnsEarly(t)
    PROVE  WakeInv'
<1>1. CASE FutexReturnsEarly(t)
    BY <1>1, LeavesQueue DEF FutexReturnsEarly
<1>2. CASE Wake(t)
  <2>1. UNCHANGED value /\ \A w \in queue : pc'[w] = pc[w]
    BY <1>2, MoveFacts DEF Wake
  <2>2. CASE queue = {}
    <3>1. queue' = {}
      BY <1>2, <2>2 DEF Wake, FutexWakeOne
    <3>2. QED
      BY <3>1 DEF WakeInv
  <2>3. CASE queue # {}
    <3>1. PICK u \in queue : queue' = queue \ {u}
      BY <1>2, <2>3 DEF Wake, FutexWakeOne
    <3>2. QED
      BY <2>1, <3>1, LeavesQueue
  <2>4. QED
    BY <2>2, <2>3
<1>3. QED
    BY <1>1, <1>2

\* A mutex is destroyed, and initialised, while nobody sleeps on it.
LEMMA LifeKeepsWaker ==
    ASSUME IInv, WakeInv, Untimed', NEW t \in Threads,
           MutexDestroy(t) \/ \E type \in Types : MutexInit(t, type)
    PROVE  WakeInv'
<1>1. CASE MutexDestroy(t)
  <2>1. queue = {}
    <3>1. \A u \in Threads : pc[u] # "sleep"
      BY <1>1 DEF MutexDestroy, Enter, Errors
    <3>2. QED
      BY <3>1 DEF IInv, TypeOK, WakeInv
  <2>2. QED
    BY <1>1, <2>1 DEF MutexDestroy, WakeInv
<1>2. CASE \E type \in Types : MutexInit(t, type)
  <2>1. queue = {}
    <3>1. \A u \in Threads : pc[u] # "sleep"
      BY <1>2 DEF MutexInit, IInv, ThreadOK, WaitLabels
    <3>2. QED
      BY <3>1 DEF IInv, TypeOK, WakeInv
  <2>2. QED
    BY <1>2, <2>1 DEF MutexInit, WakeInv
<1>3. QED
    BY <1>1, <1>2

LEMMA NextWakeInv == IInv /\ WakeInv /\ [Next]_vars => WakeInv'
<1> SUFFICES ASSUME IInv, WakeInv, [Next]_vars PROVE WakeInv'
    OBVIOUS
<1>0. Untimed'
    BY UntimedStep
<1>1. ASSUME UNCHANGED <<value, queue, pc>>
      PROVE  WakeInv'
    BY <1>0, <1>1 DEF WakeInv, LosesWakeups
<1>2. ASSUME NEW t \in Threads, Call(t)
      PROVE  WakeInv'
    BY <1>0, <1>2, CallKeepsWaker, LifeKeepsWaker DEF Call
<1>3. ASSUME NEW t \in Threads, Run(t)
      PROVE  WakeInv'
    BY <1>0, <1>3, ContendKeepsWaker, CheckTimeKeepsWaker, HolderKeepsWaker,
       FutexWaitKeepsWaker, WakeKeepsWaker DEF Run
<1>4. QED
    BY <1>0, <1>1, <1>2, <1>3, WakeKeepsWaker DEF Next, vars, Expire

\* Nobody is orphaned on the wait queue of a mutex, whether it is used with
\* timeouts or not, unless it tracks its owner and is used with them.
THEOREM NobodyOrphaned == Spec => []WakeupsKept
<1>1. Init => WakeInv
    BY DEF Init, WakeInv, Untimed
<1>2. Spec => []WakeInv
    BY <1>1, NextWakeInv, Invariance, PTL DEF Spec
<1>3. WakeInv => WakeupsKept
  <2> SUFFICES ASSUME WakeInv, ~LosesWakeups, queue # {}, value.state # 2
               PROVE  \E u \in Threads : pc[u] \in {"store", "wake"} \/ AwakeContender(u)
    BY DEF WakeupsKept, NoStrandedSleeper
  <2>1. PICK u \in Threads : Waker(u, value, queue, pc[u])
    BY DEF WakeInv
  <2>2. pc[u] \in {"store", "wake"} \/ AwakeContender(u)
    BY <2>1 DEF Waker, AwakeContender, LockLabels
  <2>3. QED
    BY <2>2
<1>4. QED
    BY <1>2, <1>3, PTL
=============================================================================
