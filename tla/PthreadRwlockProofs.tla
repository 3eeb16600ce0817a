-------------------------- MODULE PthreadRwlockProofs --------------------------
(***************************************************************************)
(* Proofs about PthreadRwlock, for every finite set of threads and every   *)
(* number of holds: its types, that the four counters are exact, that a    *)
(* writer is alone, and that no waiter is forgotten.                       *)
(***************************************************************************)
EXTENDS PthreadRwlock, FiniteSetTheorems, TLAPS

----------------------------------------------------------------------------
(* The inductive invariant.                                                *)

Vars ==
    /\ numLocks \in Nat
    /\ pendingReaders \in Nat
    /\ pendingWriters \in Nat
    /\ writerThreadId \in Threads \cup {0}
    /\ ready \in BOOLEAN
    /\ pc \in [Threads -> {"idle", "asleep", "awake", "timedout"} \cup Errors]
    /\ want \in [Threads -> {"none", "read", "write"}]
    /\ deadline \in [Threads -> {"none", "pending", "expired"}]
    /\ mode \in [Threads -> {"none", "read", "write"}]
    /\ holds \in [Threads -> 0 .. MaxHolds]

\* The client's view of a thread agrees with itself, a thread is inside a
\* blocked call exactly while its wait is not over, and what it waits for
\* is still below its bound.
ClientsOK ==
    \A t \in Threads :
        /\ holds[t] = 0 <=> mode[t] = "none"
        /\ want[t] # "none" <=> pc[t] \in {"asleep", "awake", "timedout"}
        /\ want[t] # "none" => holds[t] < MaxHolds

\* While the lock is had for writing nobody else has it.
WriterOK ==
    /\ \A t \in Threads : writerThreadId = t <=> mode[t] = "write"
    /\ \A t \in Threads : writerThreadId # 0 /\ t # writerThreadId => holds[t] = 0

\* A destroyed lock is free and nobody waits for it.
DestroyedOK == ~ready => numLocks = 0 /\ \A t \in Threads : want[t] = "none"

IInv == Vars /\ ClientsOK /\ WriterOK /\ DestroyedOK /\ CountersExact

\* While the lock is free every writer that waits is on its way to it, and
\* only readers that such a writer keeps out are asleep.
FreeWaiters ==
    /\ \A t \in Threads : want[t] = "write" => deadline[t] = "none" /\ pc[t] # "timedout"
    /\ numLocks = 0 =>
        /\ \A t \in Threads : want[t] = "write" => pc[t] = "awake"
        /\ (\E t \in Threads : pc[t] = "asleep") => \E u \in Threads : want[u] = "write"

----------------------------------------------------------------------------
(* Counting locks and waiters.                                             *)

\* There are no more locks than the bound allows.
LEMMA LocksFinite ==
    ASSUME Vars
    PROVE  /\ IsFiniteSet(LocksHeld)
           /\ Cardinality(LocksHeld) \in Nat
           /\ Cardinality(LocksHeld) <= MaxHolds * Cardinality(Threads)
<1> DEFINE All == Threads \X (1 .. MaxHolds)
<1>1. IsFiniteSet(1 .. MaxHolds) /\ Cardinality(1 .. MaxHolds) = MaxHolds
    BY FS_Interval, MaxHoldsAssumption
<1>2. IsFiniteSet(All) /\ Cardinality(All) = Cardinality(Threads) * MaxHolds
    BY <1>1, FS_Product, RwThreadsAssumption
<1>3. Cardinality(Threads) \in Nat
    BY FS_CardinalityType, RwThreadsAssumption
<1>4. LocksHeld \subseteq All
    BY DEF LocksHeld
<1>5. IsFiniteSet(LocksHeld) /\ Cardinality(LocksHeld) <= Cardinality(All)
    BY <1>2, <1>4, FS_Subset
<1>6. Cardinality(LocksHeld) \in Nat
    BY <1>5, FS_CardinalityType
<1>7. Cardinality(Threads) * MaxHolds = MaxHolds * Cardinality(Threads)
    BY <1>3, MaxHoldsAssumption
<1>8. QED
    BY <1>2, <1>5, <1>6, <1>7

\* Taking the lock once more adds one lock to those the clients have.
LEMMA OneLockMore ==
    ASSUME Vars, NEW t \in Threads, holds[t] < MaxHolds,
           holds' = [holds EXCEPT ![t] = @ + 1]
    PROVE  Cardinality(LocksHeld)' = Cardinality(LocksHeld) + 1
<1> DEFINE new == <<t, holds[t] + 1>>
<1>1. holds[t] \in 0 .. MaxHolds /\ MaxHolds \in Nat
    BY MaxHoldsAssumption DEF Vars
<1>2. new \notin LocksHeld
    BY <1>1 DEF LocksHeld
<1>3. LocksHeld' = LocksHeld \cup {new}
  <2>1. ASSUME NEW u \in Threads, NEW i \in 1 .. MaxHolds
        PROVE  i <= holds'[u] <=> i <= holds[u] \/ <<u, i>> = new
    BY <1>1 DEF Vars
  <2>2. new \in Threads \X (1 .. MaxHolds)
    BY <1>1
  <2>3. QED
    BY <2>1, <2>2 DEF LocksHeld
<1>4. QED
    BY <1>2, <1>3, LocksFinite, FS_AddElement

\* Giving it back once takes one lock away.
LEMMA OneLockLess ==
    ASSUME Vars, NEW t \in Threads, holds[t] > 0,
           holds' = [holds EXCEPT ![t] = @ - 1]
    PROVE  Cardinality(LocksHeld)' = Cardinality(LocksHeld) - 1
<1> DEFINE old == <<t, holds[t]>>
<1>1. holds[t] \in 0 .. MaxHolds /\ MaxHolds \in Nat
    BY MaxHoldsAssumption DEF Vars
<1>2. old \in LocksHeld
    BY <1>1 DEF LocksHeld
<1>3. LocksHeld' = LocksHeld \ {old}
  <2>1. ASSUME NEW u \in Threads, NEW i \in 1 .. MaxHolds
        PROVE  i <= holds'[u] <=> i <= holds[u] /\ <<u, i>> # old
    BY <1>1 DEF Vars
  <2>2. QED
    BY <2>1 DEF LocksHeld
<1>4. QED
    BY <1>2, <1>3, LocksFinite, FS_RemoveElement

\* numLocks = 0 means that nobody has the lock.
LEMMA NoLocks ==
    ASSUME Vars
    PROVE  Cardinality(LocksHeld) = 0 <=> \A t \in Threads : holds[t] = 0
<1>1. Cardinality(LocksHeld) = 0 <=> LocksHeld = {}
    BY LocksFinite, FS_EmptySet
<1>2. ASSUME NEW t \in Threads, holds[t] # 0
      PROVE  <<t, 1>> \in LocksHeld
    BY <1>2, MaxHoldsAssumption DEF Vars, LocksHeld
<1>3. ASSUME \A t \in Threads : holds[t] = 0
      PROVE  LocksHeld = {}
    BY <1>3, MaxHoldsAssumption DEF LocksHeld
<1>4. QED
    BY <1>1, <1>2, <1>3

\* numLocks = 1 means that a thread that has the lock has it once, and alone.
LEMMA LastLock ==
    ASSUME Vars, NEW t \in Threads, holds[t] > 0
    PROVE  Cardinality(LocksHeld) = 1 <=>
               holds[t] = 1 /\ \A u \in Threads \ {t} : holds[u] = 0
<1>0. <<t, 1>> \in LocksHeld /\ holds[t] \in 0 .. MaxHolds /\ MaxHolds \in Nat
    BY MaxHoldsAssumption DEF Vars, LocksHeld
<1>1. ASSUME Cardinality(LocksHeld) = 1
      PROVE  holds[t] = 1 /\ \A u \in Threads \ {t} : holds[u] = 0
  <2>1. PICK x : LocksHeld = {x}
    BY <1>1, LocksFinite, FS_Singleton
  <2>2. x = <<t, 1>>
    BY <1>0, <2>1
  <2>3. holds[t] # 1 => <<t, 2>> \in LocksHeld
    BY <1>0 DEF LocksHeld
  <2>4. ASSUME NEW u \in Threads \ {t}, holds[u] # 0
        PROVE  <<u, 1>> \in LocksHeld
    BY <2>4, <1>0 DEF Vars, LocksHeld
  <2>5. QED
    BY <2>1, <2>2, <2>3, <2>4
<1>2. ASSUME holds[t] = 1, \A u \in Threads \ {t} : holds[u] = 0
      PROVE  Cardinality(LocksHeld) = 1
  <2>1. LocksHeld = {<<t, 1>>}
    BY <1>0, <1>2 DEF LocksHeld
  <2>2. QED
    BY <2>1, FS_Singleton
<1>3. QED
    BY <1>1, <1>2

LEMMA WaitingFinite ==
    ASSUME NEW m
    PROVE  IsFiniteSet(Waiting(m)) /\ Cardinality(Waiting(m)) \in Nat
           /\ Cardinality(Waiting(m)) <= Cardinality(Threads)
<1>1. Waiting(m) \subseteq Threads
    BY DEF Waiting
<1>2. QED
    BY <1>1, RwThreadsAssumption, FS_Subset, FS_CardinalityType

\* A call that starts to wait is counted.
LEMMA PendingJoins ==
    ASSUME IInv, NEW t \in Threads, NEW m \in {"read", "write"},
           want[t] = "none", want' = [want EXCEPT ![t] = m], Pending(m, 1)
    PROVE  /\ pendingReaders' \in Nat /\ pendingReaders' = Cardinality(Waiting("read"))'
           /\ pendingWriters' \in Nat /\ pendingWriters' = Cardinality(Waiting("write"))'
<1>1. t \notin Waiting(m)
    BY DEF Waiting
<1>2. Waiting(m)' = Waiting(m) \cup {t}
    BY DEF IInv, Vars, Waiting
<1>3. \A n \in {"read", "write"} \ {m} : Waiting(n)' = Waiting(n)
    BY DEF IInv, Vars, Waiting
<1>4. Cardinality(Waiting(m)') = Cardinality(Waiting(m)) + 1
    BY <1>1, <1>2, WaitingFinite, FS_AddElement
<1>5. QED
    BY <1>3, <1>4 DEF IInv, Vars, CountersExact, Pending

\* A call that is over is no longer counted.
LEMMA PendingLeaves ==
    ASSUME IInv, NEW t \in Threads, NEW m \in {"read", "write"},
           want[t] = m, want' = [want EXCEPT ![t] = "none"], Pending(m, -1)
    PROVE  /\ pendingReaders' \in Nat /\ pendingReaders' = Cardinality(Waiting("read"))'
           /\ pendingWriters' \in Nat /\ pendingWriters' = Cardinality(Waiting("write"))'
<1>1. t \in Waiting(m)
    BY DEF Waiting
<1>2. Waiting(m)' = Waiting(m) \ {t}
    BY DEF IInv, Vars, Waiting
<1>3. \A n \in {"read", "write"} \ {m} : Waiting(n)' = Waiting(n)
    BY DEF IInv, Vars, Waiting
<1>4. Cardinality(Waiting(m) \ {t}) = Cardinality(Waiting(m)) - 1
    BY <1>1, WaitingFinite, FS_RemoveElement
<1>5. Cardinality(Waiting(m)') = Cardinality(Waiting(m)) - 1
    BY <1>2, <1>4
<1>6. Cardinality(Waiting(m)') \in Nat
    BY <1>2, WaitingFinite, FS_RemoveElement, FS_CardinalityType
<1>7. CASE m = "read"
    BY <1>3, <1>5, <1>6, <1>7 DEF IInv, Vars, CountersExact, Pending
<1>8. CASE m = "write"
    BY <1>3, <1>5, <1>6, <1>8 DEF IInv, Vars, CountersExact, Pending
<1>9. QED
    BY <1>7, <1>8

----------------------------------------------------------------------------
(* What the parts of a step do to the invariant.                           *)

\* The invariant says that nobody has the lock when numLocks is 0.
LEMMA FreeFacts ==
    ASSUME IInv, numLocks = 0
    PROVE  writerThreadId = 0 /\ \A t \in Threads : holds[t] = 0 /\ mode[t] = "none"
<1>1. \A t \in Threads : holds[t] = 0 /\ mode[t] = "none"
    BY NoLocks DEF IInv, CountersExact, ClientsOK
<1>2. QED
    BY <1>1 DEF IInv, Vars, WriterOK

\* A step of t that moves its label, and maybe its deadline, and nothing else.
LEMMA LabelStep ==
    ASSUME IInv, NEW t \in Threads, NEW p,
           p \in {"idle", "asleep", "awake", "timedout"} \cup Errors,
           want[t] # "none" <=> p \in {"asleep", "awake", "timedout"},
           pc' = [pc EXCEPT ![t] = p],
           deadline' \in [Threads -> {"none", "pending", "expired"}],
           UNCHANGED <<counters, ready, want, mode, holds>>
    PROVE  IInv'
<1>1. Vars'
    BY DEF IInv, Vars, counters
<1>2. ClientsOK'
    BY DEF IInv, Vars, ClientsOK
<1>3. WriterOK' /\ DestroyedOK'
    BY DEF IInv, WriterOK, DestroyedOK, counters
<1>4. LocksHeld' = LocksHeld
    BY DEF LocksHeld
<1>5. Waiting("read")' = Waiting("read") /\ Waiting("write")' = Waiting("write")
    BY DEF Waiting
<1>6. CountersExact'
    BY <1>4, <1>5 DEF IInv, CountersExact, counters
<1>7. QED
    BY <1>1, <1>2, <1>3, <1>6 DEF IInv

\* Taking the lock after its precondition held.
LEMMA GrantedStep ==
    ASSUME IInv, NEW t \in Threads, NEW m \in {"read", "write"},
           holds[t] < MaxHolds, Precondition(t, m), Granted(t, m)
    PROVE  /\ numLocks' \in Nat /\ numLocks' = Cardinality(LocksHeld)'
           /\ writerThreadId' \in Threads \cup {0}
           /\ mode' \in [Threads -> {"none", "read", "write"}]
           /\ holds' \in [Threads -> 0 .. MaxHolds]
           /\ \A u \in Threads \ {t} : holds'[u] = holds[u]
           /\ \A u \in Threads : holds'[u] = 0 <=> mode'[u] = "none"
           /\ WriterOK'
<1>1. numLocks' \in Nat /\ numLocks' = Cardinality(LocksHeld)'
  <2>1. Cardinality(LocksHeld)' = Cardinality(LocksHeld) + 1
    BY OneLockMore DEF IInv, Granted
  <2>2. QED
    BY <2>1 DEF IInv, Vars, CountersExact, Granted
<1>2. writerThreadId' \in Threads \cup {0} /\ mode' \in [Threads -> {"none", "read", "write"}]
    BY DEF IInv, Vars, Granted
<1>3. holds' \in [Threads -> 0 .. MaxHolds] /\ \A u \in Threads \ {t} : holds'[u] = holds[u]
    BY MaxHoldsAssumption DEF IInv, Vars, Granted
<1>4. \A u \in Threads : holds'[u] = 0 <=> mode'[u] = "none"
    BY MaxHoldsAssumption DEF IInv, Vars, ClientsOK, Granted
<1>5. WriterOK'
  <2>0. 0 \notin Threads
    BY RwThreadsAssumption
  <2>1. CASE m = "read"
    BY <2>0, <2>1 DEF IInv, Vars, WriterOK, Granted, Precondition, ReadPrecondition
  <2>2. CASE m = "write" /\ numLocks = 0
    BY <2>0, <2>2, FreeFacts DEF IInv, Vars, WriterOK, Granted
  <2>3. CASE m = "write" /\ writerThreadId = t
    BY <2>0, <2>3 DEF IInv, Vars, WriterOK, Granted
  <2>4. QED
    BY <2>1, <2>2, <2>3 DEF Precondition, WritePrecondition
<1>6. QED
    BY <1>1, <1>2, <1>3, <1>4, <1>5

\* A blocked call that gives up.
LEMMA GiveUpStep ==
    ASSUME IInv, NEW t \in Threads, want[t] # "none", GiveUp(t)
    PROVE  IInv'
<1>0. PICK m \in {"read", "write"} : want[t] = m
    BY DEF IInv, Vars
<1>1. Vars'
    BY <1>0, PendingLeaves DEF IInv, Vars, GiveUp, Leave, Errors
<1>2. ClientsOK'
    BY DEF IInv, Vars, ClientsOK, GiveUp, Leave
<1>3. WriterOK' /\ DestroyedOK'
    BY DEF IInv, WriterOK, DestroyedOK, GiveUp
<1>4. LocksHeld' = LocksHeld
    BY DEF LocksHeld, GiveUp
<1>5. CountersExact'
    BY <1>0, <1>4, PendingLeaves DEF IInv, CountersExact, GiveUp, Leave
<1>6. QED
    BY <1>1, <1>2, <1>3, <1>5 DEF IInv

----------------------------------------------------------------------------
(* The actions.                                                            *)

LEMMA LockAtOnceStep ==
    ASSUME IInv, NEW t \in Threads, NEW m \in {"read", "write"}, LockAtOnce(t, m)
    PROVE  IInv'
<1>0. holds[t] < MaxHolds /\ Precondition(t, m) /\ Granted(t, m) /\ ready /\ want[t] = "none"
    BY DEF LockAtOnce, Enter, IInv, ClientsOK, Vars
<1>1. Vars'
    BY <1>0, GrantedStep DEF IInv, Vars, LockAtOnce
<1>2. ClientsOK'
    BY <1>0, GrantedStep DEF IInv, Vars, ClientsOK, LockAtOnce
<1>3. DestroyedOK'
    BY <1>0 DEF DestroyedOK, LockAtOnce
<1>4. Waiting("read")' = Waiting("read") /\ Waiting("write")' = Waiting("write")
    BY DEF Waiting, LockAtOnce
<1>5. CountersExact'
    BY <1>0, <1>4, GrantedStep DEF IInv, CountersExact, LockAtOnce, WriterOK
<1>6. QED
    BY <1>0, <1>1, <1>2, <1>3, <1>5, GrantedStep DEF IInv

LEMMA LockBlocksStep ==
    ASSUME IInv, NEW t \in Threads, NEW m \in {"read", "write"},
           NEW abstime \in {"none", "pending"}, LockBlocks(t, m, abstime)
    PROVE  IInv'
<1>0. want[t] = "none" /\ ready /\ want' = [want EXCEPT ![t] = m] /\ Pending(m, 1)
    BY DEF LockBlocks, Enter, IInv, ClientsOK, Vars
<1>1. Vars'
    BY <1>0, PendingJoins DEF IInv, Vars, LockBlocks
<1>2. ClientsOK'
    BY <1>0 DEF IInv, Vars, ClientsOK, LockBlocks, Enter
<1>3. WriterOK' /\ DestroyedOK'
    BY <1>0 DEF IInv, WriterOK, DestroyedOK, LockBlocks
<1>4. LocksHeld' = LocksHeld
    BY DEF LocksHeld, LockBlocks
<1>5. CountersExact'
    BY <1>0, <1>4, PendingJoins DEF IInv, CountersExact, LockBlocks
<1>6. QED
    BY <1>1, <1>2, <1>3, <1>5 DEF IInv

LEMMA RetryStep ==
    ASSUME IInv, NEW t \in Threads, Retry(t)
    PROVE  IInv'
<1>0. PICK m \in {"read", "write"} : want[t] = m
    BY DEF IInv, Vars, ClientsOK, Retry
<1>1. CASE Precondition(t, m)
  <2>0. /\ holds[t] < MaxHolds /\ Granted(t, m) /\ Pending(m, -1) /\ Leave(t, "idle")
        /\ ready' = ready /\ ready
    BY <1>0, <1>1 DEF Retry, IInv, ClientsOK, DestroyedOK
  <2>1. Vars'
    BY <1>0, <1>1, <2>0, GrantedStep, PendingLeaves DEF IInv, Vars, Leave
  <2>2. ClientsOK'
    BY <1>0, <1>1, <2>0, GrantedStep DEF IInv, Vars, ClientsOK, Leave
  <2>3. DestroyedOK'
    BY <2>0 DEF DestroyedOK
  <2>4. CountersExact'
    BY <1>0, <1>1, <2>0, GrantedStep, PendingLeaves DEF CountersExact, Leave, WriterOK
  <2>5. QED
    BY <1>0, <1>1, <2>0, <2>1, <2>2, <2>3, <2>4, GrantedStep DEF IInv
<1>2. CASE ~Precondition(t, m) /\ deadline[t] = "expired"
    BY <1>0, <1>2, GiveUpStep DEF Retry
<1>3. CASE ~Precondition(t, m) /\ deadline[t] # "expired"
    BY <1>0, <1>3, LabelStep DEF Retry, IInv, Vars
<1>4. QED
    BY <1>1, <1>2, <1>3

\* Only the last lock given back clears writerThreadId: while the writer has
\* the lock, numLocks counts its locks alone.
LEMMA UnlockStep ==
    ASSUME IInv, NEW t \in Threads, Unlock(t)
    PROVE  IInv'
<1>1. CASE ~MayUnlock(t)
    BY <1>1, LabelStep DEF Unlock, IInv, Vars, ClientsOK, counters, Errors
<1>2. CASE MayUnlock(t)
  <2>0. ready /\ pc[t] = "idle" /\ want[t] = "none" /\ ready' = ready /\ numLocks' = numLocks - 1
    BY <1>2 DEF Unlock, IInv, ClientsOK, Vars
  <2>1. holds[t] > 0
    <3>1. CASE writerThreadId = 0
        BY <1>2, <3>1 DEF Unlock, MayUnlock, IInv, Vars
    <3>2. CASE writerThreadId = t
        BY <3>2 DEF IInv, Vars, ClientsOK, WriterOK
    <3>3. QED
        BY <1>2, <3>1, <3>2 DEF MayUnlock
  <2>2. holds' = [holds EXCEPT ![t] = @ - 1]
    BY <1>2 DEF Unlock
  <2>3. numLocks' \in Nat /\ numLocks' = Cardinality(LocksHeld)'
    <3>1. Cardinality(LocksHeld)' = Cardinality(LocksHeld) - 1
        BY <2>1, <2>2, OneLockLess DEF IInv
    <3>2. QED
        BY <1>2, <2>0, <3>1 DEF IInv, Vars, CountersExact, MayUnlock
  <2>4. numLocks = 1 <=> holds[t] = 1 /\ \A u \in Threads \ {t} : holds[u] = 0
    BY <2>1, LastLock DEF IInv, CountersExact
  <2>5. holds' \in [Threads -> 0 .. MaxHolds]
    BY <2>1, <2>2, MaxHoldsAssumption DEF IInv, Vars
  <2>6. mode' \in [Threads -> {"none", "read", "write"}]
        /\ mode' = [mode EXCEPT ![t] = IF holds[t] = 1 THEN "none" ELSE @]
    BY <1>2 DEF Unlock, IInv, Vars
  <2>7. pc' \in [Threads -> {"idle", "asleep", "awake", "timedout"} \cup Errors]
        /\ \A u \in Threads : pc'[u] \in {"asleep", "awake", "timedout"}
                                <=> pc[u] \in {"asleep", "awake", "timedout"}
    BY <1>2 DEF Unlock, Pulsed, IInv, Vars
  <2>8. writerThreadId' = IF numLocks = 1 THEN 0 ELSE writerThreadId
    BY <1>2 DEF Unlock
  <2>9. Vars'
    BY <1>2, <2>0, <2>3, <2>5, <2>6, <2>7, <2>8 DEF Unlock, IInv, Vars
  <2>10. ClientsOK'
    <3>1. \A u \in Threads : holds'[u] = 0 <=> mode'[u] = "none"
        BY <2>1, <2>2, <2>6 DEF IInv, Vars, ClientsOK
    <3>2. \A u \in Threads \ {t} : holds'[u] = holds[u]
        BY <2>2 DEF IInv, Vars
    <3>3. want' = want
        BY <1>2 DEF Unlock
    <3>4. QED
        BY <2>0, <2>7, <3>1, <3>2, <3>3 DEF IInv, ClientsOK
  <2>11. WriterOK'
    <3>0. 0 \notin Threads
        BY RwThreadsAssumption
    <3>1. CASE numLocks = 1
        BY <2>2, <2>4, <2>6, <2>8, <3>0, <3>1 DEF IInv, Vars, ClientsOK, WriterOK
    <3>2. CASE numLocks # 1 /\ writerThreadId = t
        BY <2>1, <2>2, <2>4, <2>6, <2>8, <3>0, <3>2 DEF IInv, Vars, WriterOK
    <3>3. CASE numLocks # 1 /\ writerThreadId = 0
        BY <2>2, <2>6, <2>8, <3>0, <3>3 DEF IInv, Vars, WriterOK
    <3>4. QED
        BY <1>2, <3>1, <3>2, <3>3 DEF MayUnlock
  <2>12. DestroyedOK'
    BY <2>0 DEF DestroyedOK
  <2>13. Waiting("read")' = Waiting("read") /\ Waiting("write")' = Waiting("write")
    BY <1>2 DEF Waiting, Unlock
  <2>14. CountersExact'
    BY <1>2, <2>3, <2>11, <2>13 DEF IInv, CountersExact, Unlock, WriterOK
  <2>15. QED
    BY <2>9, <2>10, <2>11, <2>12, <2>14 DEF IInv
<1>3. QED
    BY <1>1, <1>2

LEMMA DestroyStep ==
    ASSUME IInv, NEW t \in Threads, Destroy(t)
    PROVE  IInv'
<1>1. CASE numLocks > 0
  <2>1. numLocks # 0
    BY <1>1
  <2>2. /\ pc' = [pc EXCEPT ![t] = "EBUSY"] /\ want[t] = "none"
        /\ UNCHANGED <<counters, ready, want, deadline, mode, holds>>
    BY <2>1 DEF Destroy
  <2>3. QED
    BY <2>2, LabelStep DEF IInv, Vars, Errors
<1>2. CASE numLocks = 0
  <2>1. ready' = FALSE /\ UNCHANGED <<counters, pc, want, deadline, mode, holds>>
    BY <1>2 DEF Destroy
  <2>2. Vars' /\ ClientsOK' /\ WriterOK'
    BY <2>1 DEF IInv, Vars, ClientsOK, WriterOK, counters
  <2>3. DestroyedOK'
    BY <1>2, <2>1 DEF Destroy, DestroyedOK, counters
  <2>4. LocksHeld' = LocksHeld
        /\ Waiting("read")' = Waiting("read") /\ Waiting("write")' = Waiting("write")
    BY <2>1 DEF LocksHeld, Waiting
  <2>5. CountersExact'
    BY <2>1, <2>4 DEF IInv, CountersExact, counters
  <2>6. QED
    BY <2>2, <2>3, <2>5 DEF IInv
<1>3. QED
    BY <1>1, <1>2 DEF IInv, Vars

\* Initialising writes the values that a destroyed lock has already.
LEMMA InitLockStep ==
    ASSUME IInv, NEW t \in Threads, InitLock(t)
    PROVE  IInv'
<1>0. ~ready /\ numLocks = 0 /\ \A u \in Threads : want[u] = "none"
    BY DEF InitLock, IInv, DestroyedOK
<1>1. writerThreadId = 0
    BY <1>0, FreeFacts
<1>2. Waiting("read") = {} /\ Waiting("write") = {}
    BY <1>0 DEF Waiting
<1>3. pendingReaders = 0 /\ pendingWriters = 0
    BY <1>2, FS_EmptySet DEF IInv, CountersExact
<1>4. UNCHANGED <<counters, pc, want, deadline, mode, holds>> /\ ready' = TRUE
    BY <1>0, <1>1, <1>3 DEF InitLock, counters
<1>5. Vars' /\ ClientsOK' /\ WriterOK' /\ DestroyedOK'
    BY <1>4 DEF IInv, Vars, ClientsOK, WriterOK, DestroyedOK, counters
<1>6. LocksHeld' = LocksHeld
      /\ Waiting("read")' = Waiting("read") /\ Waiting("write")' = Waiting("write")
    BY <1>4 DEF LocksHeld, Waiting
<1>7. CountersExact'
    BY <1>4, <1>6 DEF IInv, CountersExact, counters
<1>8. QED
    BY <1>5, <1>7 DEF IInv

\* The steps that only move the label of a thread.
LEMMA LabelSteps ==
    ASSUME IInv, NEW t \in Threads, NEW m \in {"read", "write"},
           LockTooLate(t, m) \/ TryFails(t, m) \/ WaitInterrupted(t) \/ WaitTimesOut(t)
               \/ Expire(t) \/ Return(t)
    PROVE  IInv'
<1>0. want[t] # "none" <=> pc[t] \in {"asleep", "awake", "timedout"}
    BY DEF IInv, ClientsOK
<1>1. CASE LockTooLate(t, m)
    BY <1>0, <1>1, LabelStep DEF LockTooLate, Enter, IInv, Vars, Errors
<1>2. CASE TryFails(t, m)
    BY <1>0, <1>2, LabelStep DEF TryFails, Enter, IInv, Vars, Errors
<1>3. CASE WaitInterrupted(t) \/ WaitTimesOut(t)
    BY <1>0, <1>3, LabelStep DEF WaitInterrupted, WaitTimesOut, WaitEnds, IInv, Vars
<1>4. CASE Expire(t)
  <2>1. pc' = [pc EXCEPT ![t] = pc[t]]
    BY <1>4 DEF Expire, IInv, Vars
  <2>2. QED
    BY <1>0, <1>4, <2>1, LabelStep DEF Expire, IInv, Vars
<1>5. CASE Return(t)
  <2>1. want[t] = "none"
    BY <1>0, <1>5 DEF Return, Errors
  <2>2. want' = want
    BY <1>5, <2>1 DEF Return, Leave, IInv, Vars
  <2>3. QED
    BY <1>5, <2>1, <2>2, LabelStep DEF Return, Leave, IInv, Vars
<1>6. QED
    BY <1>1, <1>2, <1>3, <1>4, <1>5

LEMMA InitIInv == Init => IInv
<1> SUFFICES ASSUME Init PROVE IInv
    OBVIOUS
<1>1. Vars /\ ClientsOK /\ WriterOK /\ DestroyedOK
    BY RwThreadsAssumption, MaxHoldsAssumption
       DEF Init, Vars, ClientsOK, WriterOK, DestroyedOK
<1>2. LocksHeld = {} /\ Waiting("read") = {} /\ Waiting("write") = {}
    BY MaxHoldsAssumption DEF Init, LocksHeld, Waiting
<1>3. CountersExact
    BY <1>1, <1>2, FS_EmptySet DEF Init, CountersExact, WriterOK
<1>4. QED
    BY <1>1, <1>3 DEF IInv

LEMMA StepIInv == ASSUME IInv, [Next]_vars PROVE IInv'
<1>1. ASSUME NEW t \in Threads, Call(t)
      PROVE  IInv'
    BY <1>1, LockAtOnceStep, LabelSteps, LockBlocksStep, UnlockStep, DestroyStep, InitLockStep
       DEF Call
<1>2. ASSUME NEW t \in Threads, Run(t)
      PROVE  IInv'
  <2>1. CASE AfterTimeout(t)
    BY <2>1, GiveUpStep DEF AfterTimeout, IInv, ClientsOK
  <2>2. QED
    BY <1>2, <2>1, RetryStep, LabelSteps DEF Run
<1>3. ASSUME NEW t \in Threads, WaitInterrupted(t) \/ WaitTimesOut(t) \/ Expire(t)
      PROVE  IInv'
    BY <1>3, LabelSteps
<1>4. CASE UNCHANGED vars
  <2>1. Vars' /\ ClientsOK' /\ WriterOK' /\ DestroyedOK'
    BY <1>4 DEF IInv, Vars, ClientsOK, WriterOK, DestroyedOK, vars, counters
  <2>2. LocksHeld' = LocksHeld
        /\ Waiting("read")' = Waiting("read") /\ Waiting("write")' = Waiting("write")
    BY <1>4 DEF LocksHeld, Waiting, vars
  <2>3. CountersExact'
    BY <1>4, <2>2 DEF IInv, CountersExact, vars, counters
  <2>4. QED
    BY <2>1, <2>3 DEF IInv
<1>5. QED
    BY <1>1, <1>2, <1>3, <1>4 DEF Next

----------------------------------------------------------------------------
(* No forgotten waiter, when nobody calls pthread_rwlock_timedwrlock.      *)

FInv == IInv /\ FreeWaiters

\* A thread that is asleep is counted, so the test of _pthread_rwlock_pulse
\* finds it.
LEMMA SleeperPending ==
    ASSUME IInv, NEW t \in Threads, pc[t] = "asleep"
    PROVE  SomebodyWaits
<1>1. PICK m \in {"read", "write"} : want[t] = m
    BY DEF IInv, Vars, ClientsOK
<1>2. t \in Waiting(m)
    BY <1>1 DEF Waiting
<1>3. Cardinality(Waiting(m)) \in Nat /\ Cardinality(Waiting(m)) # 0
    BY <1>2, WaitingFinite, FS_EmptySet
<1>4. QED
    BY <1>3 DEF IInv, CountersExact, SomebodyWaits

\* What keeps a reader out of a free lock is a writer that waits.
LEMMA KeptOutByWriter ==
    ASSUME IInv, NEW t \in Threads, numLocks = 0, ~ReadPrecondition(t)
    PROVE  \E u \in Threads : want[u] = "write"
<1>1. Cardinality(Waiting("write")) # 0
    BY FreeFacts DEF ReadPrecondition, IInv, CountersExact
<1>2. Waiting("write") # {}
    BY <1>1, FS_EmptySet
<1>3. QED
    BY <1>2 DEF Waiting

\* A step that leaves the calls alone and the lock not free.
LEMMA BusyStep ==
    ASSUME FreeWaiters, IInv, numLocks' # 0,
           \A u \in Threads : want'[u] = "write" =>
               want[u] = "write" /\ deadline'[u] = deadline[u]
                   /\ (pc'[u] = pc[u] \/ pc'[u] = "awake")
    PROVE  FreeWaiters'
BY DEF FreeWaiters

LEMMA FreeCallStep ==
    ASSUME FInv, TimedWriters = {}, NEW t \in Threads, Call(t), IInv'
    PROVE  FreeWaiters'
<1> USE DEF FInv
<1>1. ASSUME NEW m \in {"read", "write"}, LockAtOnce(t, m)
      PROVE  FreeWaiters'
  <2>1. numLocks' # 0
    BY <1>1 DEF LockAtOnce, Granted, IInv, Vars
  <2>2. QED
    BY <1>1, <2>1, BusyStep DEF LockAtOnce
<1>2. ASSUME NEW m \in {"read", "write"}, LockTooLate(t, m) \/ TryFails(t, m)
      PROVE  FreeWaiters'
  <2>1. want[t] = "none"
    BY <1>2 DEF LockTooLate, TryFails, Enter, IInv, Vars, ClientsOK
  <2>2. pc'[t] # "asleep" /\ \A u \in Threads \ {t} : pc'[u] = pc[u]
    BY <1>2 DEF LockTooLate, TryFails, IInv, Vars, Errors
  <2>3. UNCHANGED <<numLocks, want, deadline>>
    BY <1>2 DEF LockTooLate, TryFails, counters
  <2>4. QED
    BY <2>1, <2>2, <2>3 DEF FreeWaiters
<1>3. ASSUME NEW m \in {"read", "write"}, NEW abstime \in {"none", "pending"},
             LockBlocks(t, m, abstime)
      PROVE  FreeWaiters'
  <2>0. /\ numLocks' = numLocks /\ want[t] = "none"
        /\ want'[t] = m /\ pc'[t] = "asleep" /\ deadline'[t] = abstime
        /\ \A u \in Threads \ {t} : /\ want'[u] = want[u] /\ pc'[u] = pc[u]
                                    /\ deadline'[u] = deadline[u]
    BY <1>3 DEF LockBlocks, Enter, IInv, Vars, ClientsOK
  <2>1. CASE m = "write"
    <3>1. numLocks # 0
        BY <1>3, <2>1 DEF LockBlocks, Precondition, WritePrecondition
    <3>2. abstime = "none"
        BY <1>3, <2>1 DEF LockBlocks
    <3>3. QED
        BY <2>0, <3>1, <3>2 DEF FreeWaiters
  <2>2. CASE m = "read"
    <3>1. numLocks = 0 => \E u \in Threads : want[u] = "write"
        BY <1>3, <2>2, KeptOutByWriter DEF LockBlocks, Precondition
    <3>2. QED
        BY <2>0, <2>2, <3>1 DEF FreeWaiters
  <2>3. QED
    BY <2>1, <2>2
<1>4. CASE Unlock(t)
  <2>0. want' = want /\ deadline' = deadline
    BY <1>4 DEF Unlock
  <2>1. CASE MayUnlock(t) /\ numLocks = 1
    <3>1. pc' = Pulsed
        BY <1>4, <2>1 DEF Unlock
    <3>2. \A u \in Threads : pc[u] = "asleep" => pc'[u] = "awake"
        BY <3>1, SleeperPending DEF Pulsed
    <3>3. \A u \in Threads : pc[u] # "asleep" => pc'[u] = pc[u]
        BY <3>1 DEF Pulsed
    <3>4. \A u \in Threads : want[u] = "write" => pc'[u] = "awake"
        BY <3>2, <3>3 DEF FreeWaiters, IInv, ClientsOK
    <3>5. QED
        BY <2>0, <3>2, <3>3, <3>4 DEF FreeWaiters
  <2>2. CASE MayUnlock(t) /\ numLocks # 1
    <3>1. numLocks' # 0 /\ pc' = pc
        BY <1>4, <2>2 DEF Unlock, IInv, Vars, MayUnlock
    <3>2. QED
        BY <2>0, <3>1, BusyStep
  <2>3. CASE ~MayUnlock(t)
    <3>1. numLocks' = numLocks /\ pc[t] = "idle" /\ pc' = [pc EXCEPT ![t] = "EPERM"]
        BY <1>4, <2>3 DEF Unlock
    <3>2. want[t] = "none"
        BY <3>1 DEF IInv, Vars, ClientsOK
    <3>3. QED
        BY <2>0, <3>1, <3>2 DEF FreeWaiters, IInv, Vars
  <2>4. QED
    BY <2>1, <2>2, <2>3
<1>5. CASE Destroy(t)
  <2>1. \A u \in Threads : want'[u] = "none"
    BY <1>5 DEF Destroy
  <2>2. QED
    BY <2>1 DEF FreeWaiters, IInv, ClientsOK
<1>6. CASE InitLock(t)
  <2>1. \A u \in Threads : want'[u] = "none"
    BY <1>6 DEF InitLock, IInv, DestroyedOK
  <2>2. QED
    BY <2>1 DEF FreeWaiters, IInv, ClientsOK
<1>7. QED
    BY <1>1, <1>2, <1>3, <1>4, <1>5, <1>6 DEF Call

LEMMA FreeRunStep ==
    ASSUME FInv, NEW t \in Threads,
           Run(t) \/ WaitInterrupted(t) \/ WaitTimesOut(t) \/ Expire(t), IInv'
    PROVE  FreeWaiters'
<1> USE DEF FInv
<1>1. CASE Retry(t) /\ Precondition(t, want[t])
  <2>1. numLocks' # 0
    BY <1>1 DEF Retry, Granted, IInv, Vars
  <2>2. \A u \in Threads \ {t} : want'[u] = want[u] /\ pc'[u] = pc[u] /\ deadline'[u] = deadline[u]
    BY <1>1 DEF Retry, Leave, IInv, Vars
  <2>3. want'[t] = "none"
    BY <1>1 DEF Retry, Leave, IInv, Vars
  <2>4. QED
    BY <2>1, <2>2, <2>3, BusyStep
<1>2. ASSUME want[t] # "none", GiveUp(t), deadline[t] = "expired" \/ pc[t] = "timedout"
      PROVE  FreeWaiters'
  <2>1. want[t] = "read"
    BY <1>2 DEF FreeWaiters, IInv, Vars
  <2>2. want'[t] = "none" /\ pc'[t] = "ETIMEDOUT" /\ numLocks' = numLocks
    BY <1>2 DEF GiveUp, Leave, IInv, Vars
  <2>3. \A u \in Threads \ {t} : want'[u] = want[u] /\ pc'[u] = pc[u] /\ deadline'[u] = deadline[u]
    BY <1>2 DEF GiveUp, Leave, IInv, Vars
  <2>4. QED
    BY <2>1, <2>2, <2>3 DEF FreeWaiters
<1>3. CASE Retry(t) /\ ~Precondition(t, want[t]) /\ deadline[t] # "expired"
  <2>1. pc[t] = "awake" /\ pc' = [pc EXCEPT ![t] = "asleep"] /\ UNCHANGED <<numLocks, want, deadline>>
    BY <1>3 DEF Retry, counters
  <2>2. want[t] \in {"read", "write"}
    BY <2>1 DEF IInv, Vars, ClientsOK
  <2>3. want[t] = "write" => numLocks # 0
    BY <1>3 DEF Precondition, WritePrecondition
  <2>4. want[t] = "read" /\ numLocks = 0 => \E u \in Threads : want[u] = "write"
    BY <1>3, KeptOutByWriter DEF Precondition
  <2>5. QED
    BY <2>1, <2>2, <2>3, <2>4 DEF FreeWaiters, IInv, Vars
<1>4. CASE AfterTimeout(t)
    BY <1>2, <1>4 DEF AfterTimeout, IInv, ClientsOK
<1>5. CASE Return(t)
  <2>1. want[t] = "none"
    BY <1>5 DEF Return, Errors, IInv, Vars, ClientsOK
  <2>2. want'[t] = "none" /\ pc'[t] = "idle" /\ numLocks' = numLocks
    BY <1>5 DEF Return, Leave, IInv, Vars, counters
  <2>3. \A u \in Threads \ {t} : want'[u] = want[u] /\ pc'[u] = pc[u] /\ deadline'[u] = deadline[u]
    BY <1>5 DEF Return, Leave, IInv, Vars
  <2>4. QED
    BY <2>1, <2>2, <2>3 DEF FreeWaiters
<1>6. CASE WaitInterrupted(t)
    BY <1>6 DEF WaitInterrupted, WaitEnds, FreeWaiters, IInv, Vars, counters
<1>7. CASE WaitTimesOut(t)
    BY <1>7 DEF WaitTimesOut, WaitEnds, FreeWaiters, IInv, Vars, counters
<1>8. CASE Expire(t)
    BY <1>8 DEF Expire, FreeWaiters, IInv, Vars, counters
<1>9. QED
  <2>1. Retry(t) => want[t] # "none"
    BY DEF Retry, IInv, ClientsOK
  <2>2. CASE Retry(t) /\ ~Precondition(t, want[t]) /\ deadline[t] = "expired"
    BY <1>2, <2>1, <2>2 DEF Retry
  <2>3. QED
    BY <1>1, <1>3, <1>4, <1>5, <1>6, <1>7, <1>8, <2>2 DEF Run

LEMMA StepFInv == ASSUME FInv, TimedWriters = {}, [Next]_vars PROVE FInv'
<1>1. IInv'
    BY StepIInv DEF FInv
<1>2. CASE Next
    BY <1>1, <1>2, FreeCallStep, FreeRunStep DEF Next, FInv
<1>3. CASE UNCHANGED vars
    BY <1>1, <1>3 DEF FInv, FreeWaiters, vars, counters
<1>4. QED
    BY <1>2, <1>3

----------------------------------------------------------------------------
(* The theorems.                                                           *)

LEMMA Invariance == Spec => []IInv
BY InitIInv, StepIInv, PTL DEF Spec

\* Type correctness: in particular none of the four counters becomes negative,
\* whichever calls time out.
THEOREM TypeCorrect == Spec => []TypeOK
<1>1. ASSUME IInv PROVE TypeOK
  <2>1. numLocks \in 0 .. MaxHolds * Cardinality(Threads)
    BY <1>1, LocksFinite, FS_CardinalityType, RwThreadsAssumption, MaxHoldsAssumption
       DEF IInv, CountersExact
  <2>2. Cardinality(Threads) \in Nat
    BY FS_CardinalityType, RwThreadsAssumption
  <2>3. pendingReaders \in 0 .. Cardinality(Threads)
    BY <1>1, <2>2, WaitingFinite DEF IInv, CountersExact
  <2>4. pendingWriters \in 0 .. Cardinality(Threads)
    BY <1>1, <2>2, WaitingFinite DEF IInv, CountersExact
  <2>5. QED
    BY <1>1, <2>1, <2>3, <2>4 DEF IInv, Vars, TypeOK
<1>2. QED
    BY <1>1, Invariance, PTL

\* numLocks, writerThreadId, pendingReaders and pendingWriters say what the
\* clients have and wait for, after every order of calls, unlocks, timeouts
\* and interrupted waits.
THEOREM CountersAreExact == Spec => []CountersExact
<1>1. IInv => CountersExact
    BY DEF IInv
<1>2. QED
    BY <1>1, Invariance, PTL

\* Mutual exclusion of pthread_rwlock_wrlock: whoever writes has the lock alone.
THEOREM WriterAlone == Spec => []WriterIsAlone
<1>1. ASSUME IInv PROVE WriterIsAlone
  <2>1. SUFFICES ASSUME NEW t \in Threads, NEW u \in Threads,
                        mode[t] = "write", mode[u] # "none"
                 PROVE  t = u
    BY DEF WriterIsAlone
  <2>2. writerThreadId = t /\ t # 0 /\ holds[u] # 0
    BY <1>1, <2>1, RwThreadsAssumption DEF IInv, WriterOK, ClientsOK
  <2>3. QED
    BY <1>1, <2>2 DEF IInv, WriterOK
<1>2. QED
    BY <1>1, Invariance, PTL

\* As long as nobody uses pthread_rwlock_timedwrlock, a lock that is free with
\* threads asleep on it has a thread on its way to it: _pthread_rwlock_pulse
\* forgets nobody, and a reader that goes back to sleep leaves a writer awake.
THEOREM NobodyForgotten ==
    ASSUME TimedWriters = {}
    PROVE  Spec => []NoForgottenWaiter
<1>1. Init => FInv
    BY InitIInv DEF FInv, FreeWaiters, Init
<1>2. FInv /\ [Next]_vars => FInv'
    BY StepFInv
<1>3. FInv => NoForgottenWaiter
    BY DEF FInv, FreeWaiters, NoForgottenWaiter
<1>4. QED
    BY <1>1, <1>2, <1>3, PTL DEF Spec
=============================================================================
