--------------------------- MODULE PthreadKeysProofs ---------------------------
(***************************************************************************)
(* Proofs about thread-specific data: for any set of threads and keys, any *)
(* number of rounds and of creations, no thread ever reads a value of a    *)
(* key that has been deleted, a destructor is given only its own data, and *)
(* a thread leaves the destructor loop with nothing left to destroy unless *)
(* it has used up its rounds.                                              *)
(***************************************************************************)
EXTENDS PthreadKeys, TLAPS

\* Inside the destructor loop there is a round to count down.
RoundLeft == \A t \in Threads : pc[t] \in {"clean", "dtor"} => rounds[t] >= 1

\* The inductive invariant.  NothingLeftToDestroy needs NoStaleValue when a
\* key is created: the slot that becomes due is empty everywhere.
IInv ==
    /\ TypeOK
    /\ RoundLeft
    /\ NoStaleValue
    /\ DestructorOwnsData
    /\ NothingLeftToDestroy

USE KeysAssumption, IterationsAssumption, CreationsAssumption

\* The initial state: only the initial thread has a TLS area, and it is empty.
LEMMA InitIInv == Init => IInv
BY KeyThreadsAssumption
   DEF Init, IInv, TypeOK, Values, NULL, Garbage, RoundLeft, NoStaleValue,
       HasTls, GetSpecific, DestructorOwnsData, NothingLeftToDestroy

----------------------------------------------------------------------------
(* One lemma per action: what it does to the parts of the invariant.       *)

\* pthread_key_create: the new key is empty in every TLS area.
LEMMA KeyCreateIInv ==
    ASSUME IInv, NEW t \in Threads, NEW k \in Keys, NEW d \in BOOLEAN, KeyCreate(t, k, d)
    PROVE  IInv'
<1> USE DEF IInv, KeyCreate, loop
<1>1. TypeOK'
    BY DEF TypeOK, Values, NULL, Garbage
<1>2. RoundLeft'
    BY DEF RoundLeft
<1>3. NoStaleValue'
    BY DEF NoStaleValue, TypeOK, HasTls, GetSpecific
<1>4. DestructorOwnsData'
    BY DEF DestructorOwnsData
<1>5. \A u \in Threads : pc[u] = "done" => tls[u][k] = NULL
    BY DEF NoStaleValue, HasTls, GetSpecific
<1>6. NothingLeftToDestroy'
    BY <1>5 DEF NothingLeftToDestroy, Due
<1>7. QED
    BY <1>1, <1>2, <1>3, <1>4, <1>6

\* pthread_key_delete: every TLS area that somebody reads is cleared.
LEMMA KeyDeleteIInv ==
    ASSUME IInv, NEW t \in Threads, NEW k \in Keys, KeyDelete(t, k)
    PROVE  IInv'
<1> USE DEF IInv, KeyDelete, loop
<1>1. \A u \in Threads, j \in Keys :
          tls'[u][j] = IF HasTls(u) /\ j = k THEN NULL ELSE tls[u][j]
    BY DEF Cleared, TypeOK
<1>2. TypeOK'
    <2>1. tls' \in [Threads -> [Keys -> Values \cup {Garbage}]]
        BY DEF Cleared, TypeOK, Values, NULL
    <2>2. QED
        BY <2>1 DEF TypeOK
<1>3. RoundLeft'
    BY DEF RoundLeft
<1>4. NoStaleValue'
    BY <1>1 DEF NoStaleValue, HasTls, GetSpecific
<1>5. DestructorOwnsData'
    BY DEF DestructorOwnsData
<1>6. NothingLeftToDestroy'
    <2>1. SUFFICES ASSUME NEW u \in Threads, pc[u] = "done", rounds[u] > 0
                   PROVE  \A j \in dtors \ {k} : tls'[u][j] = NULL
        BY DEF NothingLeftToDestroy, Due
    <2>2. \A j \in dtors : tls[u][j] = NULL
        BY <2>1 DEF NothingLeftToDestroy, Due
    <2>3. QED
        BY <1>1, <2>2 DEF TypeOK
<1>7. QED
    BY <1>2, <1>3, <1>4, <1>5, <1>6

\* pthread_setspecific: the value belongs to the key as it is now.
LEMMA SetSpecificIInv ==
    ASSUME IInv, NEW t \in Threads, NEW k \in Keys, NEW d \in BOOLEAN, SetSpecific(t, k, d)
    PROVE  IInv'
<1> USE DEF IInv, SetSpecific, loop, map
<1>1. \A u \in Threads, j \in Keys :
          tls'[u][j] = IF u = t /\ j = k THEN (IF d THEN NULL ELSE creation[k]) ELSE tls[u][j]
    BY DEF TypeOK
<1>2. TypeOK'
    <2>1. tls' \in [Threads -> [Keys -> Values \cup {Garbage}]]
        BY DEF TypeOK, Values, NULL
    <2>2. QED
        BY <2>1 DEF TypeOK
<1>3. RoundLeft'
    BY DEF RoundLeft
<1>4. NoStaleValue'
    BY <1>1 DEF NoStaleValue, HasTls, GetSpecific
<1>5. DestructorOwnsData'
    BY DEF DestructorOwnsData
<1>6. NothingLeftToDestroy'
    BY <1>1 DEF NothingLeftToDestroy, Due, TypeOK, InClient
<1>7. QED
    BY <1>2, <1>3, <1>4, <1>5, <1>6

\* The cleanup stack: pushing, popping and running handlers changes no value.
LEMMA HandlersIInv ==
    ASSUME IInv, NEW t \in Threads, CleanupPush(t) \/ CleanupPop(t) \/ RunHandler(t)
    PROVE  IInv'
<1> USE DEF IInv, map, loop
<1>1. /\ UNCHANGED <<map, tls, loop>>
      /\ cleanup' \in [Threads -> 0 .. MaxHandlers]
      /\ \/ UNCHANGED pc
         \/ pc[t] = "exit" /\ pc' = [pc EXCEPT ![t] = "handler"]
    <2>1. CASE CleanupPush(t)
        BY <2>1 DEF CleanupPush, TypeOK
    <2>2. CASE CleanupPop(t)
        BY <2>2 DEF CleanupPop, TypeOK
    <2>3. CASE RunHandler(t)
        BY <2>3 DEF RunHandler, Goto, TypeOK
    <2>4. QED
        BY <2>1, <2>2, <2>3
<1>2. TypeOK'
    BY <1>1 DEF TypeOK
<1>3. RoundLeft'
    BY <1>1 DEF RoundLeft, TypeOK
<1>4. NoStaleValue'
    BY <1>1 DEF NoStaleValue, HasTls, GetSpecific, TypeOK
<1>5. DestructorOwnsData'
    BY <1>1 DEF DestructorOwnsData, TypeOK
<1>6. NothingLeftToDestroy'
    BY <1>1 DEF NothingLeftToDestroy, Due, TypeOK
<1>7. QED
    BY <1>2, <1>3, <1>4, <1>5, <1>6

\* The ways out of client code and out of the loop.
LEMMA LeavingIInv ==
    ASSUME IInv, NEW t \in Threads, Exit(t) \/ HandlerReturns(t) \/ Leave(t)
    PROVE  IInv'
<1> USE DEF IInv, map, loop
<1>1. /\ UNCHANGED <<map, tls, cleanup, loop>>
      /\ pc[t] \in {"run", "handler", "done"}
      /\ \/ pc' = [pc EXCEPT ![t] = "exit"]
         \/ pc' = [pc EXCEPT ![t] = "gone"]
    BY DEF Exit, HandlerReturns, Leave, Goto
<1>2. TypeOK'
    BY <1>1 DEF TypeOK
<1>3. RoundLeft'
    BY <1>1 DEF RoundLeft, TypeOK
<1>4. NoStaleValue'
    BY <1>1 DEF NoStaleValue, HasTls, GetSpecific, TypeOK
<1>5. DestructorOwnsData'
    BY <1>1 DEF DestructorOwnsData, TypeOK
<1>6. NothingLeftToDestroy'
    BY <1>1 DEF NothingLeftToDestroy, Due, TypeOK
<1>7. QED
    BY <1>2, <1>3, <1>4, <1>5, <1>6

\* The destructor loop starts with all its rounds.
LEMMA StartCleanIInv ==
    ASSUME IInv, NEW t \in Threads, StartClean(t)
    PROVE  IInv'
<1> USE DEF IInv, map, StartClean, Goto
<1>2. TypeOK'
    BY DEF TypeOK, NULL
<1>3. RoundLeft'
    BY DEF RoundLeft, TypeOK
<1>4. NoStaleValue'
    BY DEF NoStaleValue, HasTls, GetSpecific, TypeOK
<1>5. DestructorOwnsData'
    BY DEF DestructorOwnsData, TypeOK
<1>6. NothingLeftToDestroy'
    BY DEF NothingLeftToDestroy, Due, TypeOK
<1>7. QED
    BY <1>2, <1>3, <1>4, <1>5, <1>6

\* A new thread starts with an empty TLS area.
LEMMA ThreadEntryIInv ==
    ASSUME IInv, NEW t \in Threads, ThreadEntry(t)
    PROVE  IInv'
<1> USE DEF IInv, ThreadEntry, loop, map, Goto
<1>1. TypeOK'
    BY DEF TypeOK, Values, NULL
<1>2. RoundLeft'
    BY DEF RoundLeft, TypeOK
<1>3. NoStaleValue'
    BY DEF NoStaleValue, HasTls, GetSpecific, TypeOK
<1>4. DestructorOwnsData'
    BY DEF DestructorOwnsData, TypeOK
<1>5. NothingLeftToDestroy'
    BY DEF NothingLeftToDestroy, Due, TypeOK
<1>6. QED
    BY <1>1, <1>2, <1>3, <1>4, <1>5

\* A destructor is called with the value of its key, which is cleared.
LEMMA CallIInv ==
    ASSUME IInv, NEW t \in Threads, NEW k \in Keys,
           CleanThisRound(t, k) \/ CleanNextRound(t, k)
    PROVE  IInv'
<1> USE DEF IInv, map
<1>1. /\ pc[t] = "clean"
      /\ k \in dtors /\ tls[t][k] # NULL
      /\ CallDestructor(t, k)
      /\ UNCHANGED <<allocated, dtors, creation, cleanup>>
      /\ rounds' \in [Threads -> 0 .. Iterations]
      /\ rounds'[t] >= 1
      /\ \A u \in Threads \ {t} : rounds'[u] = rounds[u]
    BY DEF CleanThisRound, CleanNextRound, Ahead, Due, TypeOK, RoundLeft
<1>2. tls[t][k] = creation[k]
    BY <1>1 DEF NoStaleValue, HasTls, GetSpecific
<1>3. \A u \in Threads, j \in Keys :
          tls'[u][j] = IF u = t /\ j = k THEN NULL ELSE tls[u][j]
    BY <1>1 DEF TypeOK, CallDestructor
<1>4. TypeOK'
    <2>1. tls' \in [Threads -> [Keys -> Values \cup {Garbage}]]
        BY <1>1 DEF TypeOK, CallDestructor, Values, NULL
    <2>2. pc' \in [Threads -> {"new", "run", "exit", "handler", "clean", "dtor", "done", "gone"}]
        BY <1>1 DEF TypeOK, CallDestructor, Goto
    <2>3. /\ kk' \in [Threads -> Keys \cup {NULL}]
          /\ data' \in [Threads -> Values \cup {Garbage}]
          /\ dtor' \in [Threads -> Values]
        BY <1>1 DEF TypeOK, CallDestructor, Values, NULL
    <2>4. QED
        BY <1>1, <2>1, <2>2, <2>3 DEF TypeOK
<1>5. \A u \in Threads : pc'[u] = IF u = t THEN "dtor" ELSE pc[u]
    BY <1>1 DEF TypeOK, CallDestructor, Goto
<1>6. RoundLeft'
    BY <1>1, <1>5 DEF RoundLeft
<1>7. NoStaleValue'
    <2>1. SUFFICES ASSUME NEW u \in Threads, NEW j \in Keys,
                          pc'[u] \notin {"new", "gone"}, tls'[u][j] # NULL
                   PROVE  j \in allocated /\ tls'[u][j] = creation[j]
        BY <1>1 DEF NoStaleValue, HasTls, GetSpecific
    <2>2. pc[u] \notin {"new", "gone"} /\ tls'[u][j] = tls[u][j]
        BY <1>1, <1>3, <1>5, <2>1
    <2>3. QED
        BY <2>1, <2>2 DEF NoStaleValue, HasTls, GetSpecific
<1>8. DestructorOwnsData'
    <2>1. \A u \in Threads : /\ data'[u] = IF u = t THEN tls[t][k] ELSE data[u]
                             /\ dtor'[u] = IF u = t THEN creation[k] ELSE dtor[u]
        BY <1>1 DEF CallDestructor, TypeOK
    <2>2. QED
        BY <1>2, <1>5, <2>1 DEF DestructorOwnsData
<1>9. NothingLeftToDestroy'
    <2>1. SUFFICES ASSUME NEW u \in Threads, u # t, pc[u] = "done", rounds[u] > 0
                   PROVE  \A j \in dtors : tls'[u][j] = NULL
        BY <1>1, <1>5 DEF NothingLeftToDestroy, Due
    <2>2. \A j \in dtors : tls[u][j] = NULL
        BY <2>1 DEF NothingLeftToDestroy, Due
    <2>3. QED
        BY <1>3, <2>1, <2>2 DEF TypeOK
<1>10. QED
    BY <1>4, <1>6, <1>7, <1>8, <1>9

\* A destructor returns.
LEMMA DestructorReturnsIInv ==
    ASSUME IInv, NEW t \in Threads, DestructorReturns(t)
    PROVE  IInv'
<1> USE DEF IInv, DestructorReturns, map, Goto
<1>1. TypeOK'
    BY DEF TypeOK, Values, NULL
<1>2. RoundLeft'
    BY DEF RoundLeft, TypeOK
<1>3. NoStaleValue'
    BY DEF NoStaleValue, HasTls, GetSpecific, TypeOK
<1>4. DestructorOwnsData'
    BY DEF DestructorOwnsData, TypeOK
<1>5. NothingLeftToDestroy'
    BY DEF NothingLeftToDestroy, Due, TypeOK
<1>6. QED
    BY <1>1, <1>2, <1>3, <1>4, <1>5

\* The loop ends: a round that called nobody has looked at every key.
LEMMA CleanEndsIInv ==
    ASSUME IInv, NEW t \in Threads, CleanEnds(t)
    PROVE  IInv'
<1> USE DEF IInv, CleanEnds, map, Goto
<1>1. rounds'[t] > 0 => Due(t) = {}
    <2>1. CASE Called(t)
        BY <2>1 DEF TypeOK
    <2>2. CASE ~Called(t)
        <3>1. \A k \in Due(t) : k > kk[t]
            BY <2>2 DEF Called, Due, TypeOK, NULL
        <3>2. QED
            BY <3>1 DEF Ahead
    <2>3. QED
        BY <2>1, <2>2
<1>2. TypeOK'
    BY DEF TypeOK, RoundLeft, Called
<1>3. RoundLeft'
    BY DEF RoundLeft, TypeOK
<1>4. NoStaleValue'
    BY DEF NoStaleValue, HasTls, GetSpecific, TypeOK
<1>5. DestructorOwnsData'
    BY DEF DestructorOwnsData, TypeOK
<1>6. NothingLeftToDestroy'
    BY <1>1 DEF NothingLeftToDestroy, Due, TypeOK
<1>7. QED
    BY <1>2, <1>3, <1>4, <1>5, <1>6

----------------------------------------------------------------------------
\* Every step keeps the invariant.
LEMMA NextIInv == IInv /\ [Next]_vars => IInv'
<1> SUFFICES ASSUME IInv, [Next]_vars PROVE IInv'
    OBVIOUS
<1>1. CASE UNCHANGED vars
    BY <1>1 DEF IInv, vars, map, loop, TypeOK, RoundLeft, NoStaleValue, HasTls,
                GetSpecific, DestructorOwnsData, NothingLeftToDestroy, Due
<1>2. CASE Next
    <2>1. PICK t \in Threads : Call(t) \/ Run(t)
        BY <1>2 DEF Next
    <2>2. CASE Call(t)
        BY <2>2, KeyCreateIInv, KeyDeleteIInv, SetSpecificIInv, HandlersIInv, LeavingIInv
           DEF Call
    <2>3. CASE Run(t)
        BY <2>3, ThreadEntryIInv, HandlersIInv, LeavingIInv, StartCleanIInv, CallIInv,
           DestructorReturnsIInv, CleanEndsIInv
           DEF Run
    <2>4. QED
        BY <2>1, <2>2, <2>3
<1>3. QED
    BY <1>1, <1>2

\* The inductive invariant holds in every reachable state.
THEOREM Invariance == Spec => []IInv
BY InitIInv, NextIInv, PTL DEF Spec

\* Type correctness: in particular no round is counted below zero.
THEOREM TypeCorrect == Spec => []TypeOK
<1>1. IInv => TypeOK
    BY DEF IInv
<1>2. QED
    BY <1>1, Invariance, PTL

\* pthread_getspecific never yields a value of a key that has been deleted.
THEOREM ValuesFresh == Spec => []NoStaleValue
<1>1. IInv => NoStaleValue
    BY DEF IInv
<1>2. QED
    BY <1>1, Invariance, PTL

\* A destructor of pthread_key_clean_all is given only its own key's data.
THEOREM DestructorsSafe == Spec => []DestructorOwnsData
<1>1. IInv => DestructorOwnsData
    BY DEF IInv
<1>2. QED
    BY <1>1, Invariance, PTL

\* pthread_key_clean_all leaves nothing to destroy unless its rounds are used up.
THEOREM LoopComplete == Spec => []NothingLeftToDestroy
<1>1. IInv => NothingLeftToDestroy
    BY DEF IInv
<1>2. QED
    BY <1>1, Invariance, PTL
=============================================================================
