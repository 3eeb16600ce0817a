-------------------------- MODULE PthreadThreadsProofs -------------------------
(***************************************************************************)
(* Proofs about PthreadThreads, for every finite set of descriptors: its   *)
(* types, that gThreadList is exact, that join_count is exact, and that a  *)
(* join returns, and a descriptor is freed, only after the thread's death. *)
(* The condition throughout is that no signal interrupts the wait of a     *)
(* joiner, whose result pthread_join does not look at.                     *)
(***************************************************************************)
EXTENDS PthreadThreads, FiniteSetTheorems, SequenceTheorems, TLAPS

----------------------------------------------------------------------------
(* The inductive invariant.                                                *)

Vars ==
    /\ list \in Seq(Descs)
    /\ pc \in [Descs -> Labels]
    /\ target \in [Descs -> Descs]
    /\ detached \in [Descs -> BOOLEAN]
    /\ join_count \in [Descs -> Int]
    /\ tls \in [Descs -> {"null", "mapped", "gone"}]
    /\ woken \subseteq Descs

\* No descriptor is in the list twice.
Once(l) == \A i, j \in DOMAIN l : l[i] = l[j] => i = j

\* The second part of ListIsExact.
MembersOK ==
    \A d \in Descs :
        /\ pc[d] \in (Alive \cup {"start", "leave", "remove", "dead"}) => d \in Listed
        /\ pc[d] \in {"free", "dealloc"} => d \notin Listed

\* A thread inside pthread_create is the only one that makes its descriptor,
\* which waits for the start mutex and is in the list after _init_thread.
CreatorsOK ==
    /\ \A t \in Descs : pc[t] \in {"create", "created"} =>
          /\ pc[target[t]] = "blocked"
          /\ target[t] \in Listed <=> pc[t] = "created"
    /\ \A t, u \in Descs :
          /\ pc[t] \in {"create", "created"} /\ pc[u] \in {"create", "created"}
          /\ target[t] = target[u]
          => t = u

\* Who is waited for is in the list and not detached.
TargetsOK ==
    \A t \in Descs : pc[t] = "join" =>
        target[t] \in Listed /\ target[t] \in Managed /\ ~detached[target[t]]

\* A joiner is woken by the death of the thread it waits for.
WokenOK == \A t \in woken : pc[t] = "join" /\ pc[target[t]] = "dead"

\* The first part of JoinersCounted.
CountOK ==
    \A d \in Descs :
        \/ join_count[d] = Cardinality(Joiners(d))
        \/ join_count[d] = -1 /\ Joiners(d) = {} /\ pc[d] = "dead"

\* A dead thread is a zombie or has joiners; only the dead have lost their
\* stack; and only a detached thread takes itself off the list.
DeadOK ==
    \A d \in Descs :
        /\ pc[d] = "dead" => join_count[d] # 0
        /\ tls[d] = "gone" => pc[d] = "dead"
        /\ pc[d] \in {"remove", "dealloc"} => detached[d]

IInv ==
    /\ Vars /\ Once(list) /\ MembersOK /\ CreatorsOK
    /\ TargetsOK /\ WokenOK /\ CountOK /\ DeadOK

\* The initial thread, which nobody joins or detaches, stays at the end.
MainOK ==
    /\ pc[Main] \notin {"free", "blocked", "remove", "dealloc"}
    /\ ~detached[Main]
    /\ Len(list) > 0 /\ list[Len(list)] = Main

----------------------------------------------------------------------------
(* The list and its two changes.                                           *)

\* _pthread_internal_add puts a descriptor that was not in the list in front.
LEMMA AddedFacts ==
    ASSUME list \in Seq(Descs), Once(list), NEW d \in Descs, d \notin Listed, list' = Added(d)
    PROVE  /\ list' \in Seq(Descs) /\ Once(list') /\ Listed' = Listed \cup {d}
           /\ Len(list) > 0 => Len(list') > 0 /\ list'[Len(list')] = list[Len(list)]
<1>1. list' \in Seq(Descs) /\ Len(list') = Len(list) + 1
    BY DEF Added
<1>2. list'[1] = d /\ \A i \in 1 .. Len(list) : list'[i + 1] = list[i]
    BY DEF Added
<1>3. Listed' = Listed \cup {d}
  <2>1. ASSUME NEW i \in DOMAIN list'
        PROVE  list'[i] \in Listed \cup {d}
    <3>1. CASE i = 1
        BY <1>2, <3>1
    <3>2. CASE i # 1
      <4>1. i - 1 \in 1 .. Len(list)
        BY <1>1, <2>1, <3>2
      <4>2. list'[(i - 1) + 1] = list[i - 1] /\ (i - 1) + 1 = i
        BY <1>1, <1>2, <4>1
      <4>3. QED
        BY <4>1, <4>2 DEF Listed
    <3>3. QED
        BY <3>1, <3>2
  <2>2. ASSUME NEW i \in DOMAIN list
        PROVE  list[i] \in Listed'
    BY <1>1, <1>2, <2>2 DEF Listed
  <2>3. d \in Listed'
    BY <1>1, <1>2 DEF Listed
  <2>4. QED
    BY <2>1, <2>2, <2>3 DEF Listed
<1>4. Once(list')
  <2>1. ASSUME NEW i \in DOMAIN list', NEW j \in DOMAIN list', list'[i] = list'[j]
        PROVE  i = j
    <3>1. \A k \in DOMAIN list' : k # 1 => k - 1 \in 1 .. Len(list) /\ list'[k] = list[k - 1]
        BY <1>1, <1>2
    <3>2. \A k \in 1 .. Len(list) : list[k] # d
        BY DEF Listed
    <3>3. CASE i # 1 /\ j # 1
        BY <1>1, <2>1, <3>1, <3>3 DEF Once
    <3>4. CASE i = 1 \/ j = 1
        BY <1>1, <1>2, <2>1, <3>1, <3>2, <3>4
    <3>5. QED
        BY <3>3, <3>4
  <2>2. QED
    BY <2>1 DEF Once
<1>5. QED
    BY <1>1, <1>2, <1>3, <1>4

\* _pthread_internal_remove_locked takes out one descriptor, and leaves the
\* end of the list as it was unless that was the one.
LEMMA RemovedFacts ==
    ASSUME list \in Seq(Descs), Once(list), NEW d \in Listed, list' = Removed(d)
    PROVE  /\ list' \in Seq(Descs) /\ Once(list') /\ Listed' = Listed \ {d}
           /\ list[Len(list)] # d => Len(list') > 0 /\ list'[Len(list')] = list[Len(list)]
<1>1. PICK i \in DOMAIN list :
        list[i] = d /\ list' = SubSeq(list, 1, i - 1) \o SubSeq(list, i + 1, Len(list))
    BY DEF Removed, Listed
<1> DEFINE n == Len(list)
<1>2. n \in Nat /\ i \in 1 .. n
    BY <1>1
<1> DEFINE front == SubSeq(list, 1, i - 1)
           back == SubSeq(list, i + 1, n)
<1>3. /\ front \in Seq(Descs) /\ Len(front) = i - 1
      /\ \A k \in 1 .. i - 1 : front[k] = list[k]
    BY <1>2
<1>4. /\ back \in Seq(Descs) /\ Len(back) = n - i
      /\ \A k \in 1 .. n - i : back[k] = list[i + k]
    BY <1>2
<1>5. list' \in Seq(Descs) /\ Len(list') = n - 1
  <2> HIDE DEF front, back
  <2>1. list' = front \o back
    BY <1>1 DEF front, back
  <2>2. QED
    BY <1>2, <1>3, <1>4, <2>1, ConcatProperties
<1>6. \A k \in 1 .. n - 1 : list'[k] = IF k < i THEN list[k] ELSE list[k + 1]
  <2> HIDE DEF front, back
  <2>1. list' = front \o back
    BY <1>1 DEF front, back
  <2>2. \A k \in 1 .. n - 1 : list'[k] = IF k <= i - 1 THEN front[k] ELSE back[k - (i - 1)]
    BY <1>2, <1>3, <1>4, <2>1, ConcatProperties
  <2>3. ASSUME NEW k \in 1 .. n - 1, k >= i
        PROVE  back[k - (i - 1)] = list[k + 1]
    <3>1. k - (i - 1) \in 1 .. n - i /\ i + (k - (i - 1)) = k + 1
        BY <1>2, <2>3
    <3>2. QED
        BY <1>4, <3>1
  <2>4. QED
    BY <1>2, <1>3, <2>2, <2>3
<1>7. \A k \in 1 .. n : list[k] = d => k = i
    BY <1>1, <1>2 DEF Once
<1>8. Once(list')
  <2>1. ASSUME NEW j \in 1 .. n - 1, NEW k \in 1 .. n - 1, list'[j] = list'[k]
        PROVE  j = k
    BY <1>2, <1>6, <2>1 DEF Once
  <2>2. QED
    BY <1>2, <1>5, <2>1 DEF Once
<1>9. Listed' = Listed \ {d}
  <2>1. ASSUME NEW k \in DOMAIN list'
        PROVE  list'[k] \in Listed \ {d}
    BY <1>2, <1>5, <1>6, <1>7, <2>1 DEF Listed
  <2>2. ASSUME NEW k \in DOMAIN list, list[k] # d
        PROVE  list[k] \in Listed'
    <3>1. CASE k < i
        BY <1>2, <1>5, <1>6, <2>2, <3>1 DEF Listed
    <3>2. CASE k > i
      <4>1. k - 1 \in DOMAIN list' /\ list'[k - 1] = list[k]
        BY <1>2, <1>5, <1>6, <2>2, <3>2
      <4>2. QED
        BY <4>1 DEF Listed
    <3>3. QED
        BY <1>1, <1>2, <2>2, <3>1, <3>2
  <2>3. QED
    BY <2>1, <2>2 DEF Listed
<1>10. ASSUME list[n] # d
       PROVE  Len(list') > 0 /\ list'[Len(list')] = list[n]
  <2>1. i < n
    BY <1>1, <1>2, <1>10
  <2>2. QED
    BY <1>2, <1>5, <1>6, <2>1
<1>11. QED
    BY <1>5, <1>8, <1>9, <1>10

----------------------------------------------------------------------------
(* What the parts of a step do to the invariant.                           *)

LEMMA ListedSame == ASSUME list' = list PROVE Listed' = Listed
BY DEF Listed

LEMMA JoinersFinite ==
    ASSUME NEW d
    PROVE  IsFiniteSet(Joiners(d)) /\ Cardinality(Joiners(d)) \in Nat
           /\ Cardinality(Joiners(d)) <= Cardinality(Descs)
<1>1. Joiners(d) \subseteq Descs
    BY DEF Joiners
<1>2. QED
    BY <1>1, DescsAssumption, FS_Subset, FS_CardinalityType

\* Nobody begins or ends a wait.
LEMMA JoinersSame ==
    ASSUME \A u \in Descs : /\ pc'[u] = "join" <=> pc[u] = "join"
                            /\ pc[u] = "join" => target'[u] = target[u]
    PROVE  \A d : Joiners(d)' = Joiners(d)
BY DEF Joiners

\* What is known of a descriptor whose memory is in nobody's use.
LEMMA UnlistedFacts ==
    ASSUME IInv, NEW d \in Descs, d \notin Listed
    PROVE  /\ Joiners(d) = {} /\ join_count[d] = 0
           /\ pc[d] \in {"free", "dealloc", "blocked"}
<1>1. Joiners(d) = {}
    BY DEF IInv, TargetsOK, Joiners
<1>2. pc[d] \in {"free", "dealloc", "blocked"}
    BY DEF IInv, Vars, MembersOK, Labels
<1>3. join_count[d] = Cardinality(Joiners(d))
    BY <1>2 DEF IInv, CountOK
<1>4. QED
    BY <1>1, <1>2, <1>3, FS_EmptySet

LEMMA CreatorFacts ==
    ASSUME IInv, NEW t \in Descs, pc[t] \in {"create", "created"}
    PROVE  /\ target[t] \in Descs /\ pc[target[t]] = "blocked"
           /\ target[t] \in Listed <=> pc[t] = "created"
BY DEF IInv, Vars, CreatorsOK

LEMMA TargetFacts ==
    ASSUME IInv, NEW t \in Descs, pc[t] = "join"
    PROVE  /\ target[t] \in Descs /\ target[t] \in Listed /\ target[t] \in Managed
           /\ detached[target[t]] = FALSE
           /\ pc[target[t]] \notin {"free", "remove", "dealloc"}
BY DEF IInv, Vars, TargetsOK, MembersOK, DeadOK

LEMMA WokenFacts ==
    ASSUME IInv, NEW t \in woken
    PROVE  t \in Descs /\ pc[t] = "join" /\ target[t] \in Descs /\ pc[target[t]] = "dead"
BY DEF IInv, Vars, WokenOK

\* A step of a running thread to another label, which may also set up TLS or
\* detach somebody nobody waits for.
LEMMA LabelStep ==
    ASSUME IInv, NEW t \in Descs, NEW p \in {"run", "leave", "remove"} \cup Errors,
           pc[t] \in {"run", "start"} \cup Errors,
           p = "remove" => detached[t],
           pc' = [pc EXCEPT ![t] = p],
           tls' \in [Descs -> {"null", "mapped", "gone"}],
           \A d \in Descs : tls'[d] = "gone" => tls[d] = "gone",
           UNCHANGED <<list, target, detached, join_count, woken>>
    PROVE  IInv'
<1>1. pc'[t] = p /\ \A u \in Descs \ {t} : pc'[u] = pc[u]
    BY DEF IInv, Vars
<1>2. Vars' /\ Once(list')
    BY DEF IInv, Vars, Labels, Alive
<1>3. Listed' = Listed
    BY ListedSame
<1>4. MembersOK'
    BY <1>1, <1>3 DEF IInv, MembersOK, Alive, Errors
<1>5. CreatorsOK'
    BY <1>1, <1>3 DEF IInv, Vars, CreatorsOK, Errors
<1>6. TargetsOK' /\ WokenOK'
    BY <1>1, <1>3 DEF IInv, Vars, TargetsOK, WokenOK, Errors
<1>7. \A d : Joiners(d)' = Joiners(d)
    BY <1>1, JoinersSame DEF Errors
<1>8. CountOK'
    BY <1>1, <1>7 DEF IInv, CountOK, Errors
<1>9. DeadOK'
    BY <1>1 DEF IInv, DeadOK, Errors
<1>10. QED
    BY <1>2, <1>4, <1>5, <1>6, <1>8, <1>9 DEF IInv

----------------------------------------------------------------------------
(* The actions.                                                            *)

LEMMA CreateStep ==
    ASSUME IInv, NEW t \in Descs, NEW d \in Descs, Create(t, d)
    PROVE  IInv'
<1>0. pc[t] = "run" /\ pc[d] = "free" /\ t # d /\ d \notin Listed /\ t \in Listed
    BY DEF Create, IInv, MembersOK, Alive
<1>1. /\ pc'[t] = "create" /\ pc'[d] = "blocked" /\ target'[t] = d /\ target'[d] = d
      /\ \A u \in Descs \ {t, d} : pc'[u] = pc[u] /\ target'[u] = target[u]
    BY <1>0 DEF Create, IInv, Vars
<1>2. Vars' /\ Once(list')
    BY DEF Create, IInv, Vars, Labels, Alive
<1>3. Listed' = Listed
    BY ListedSame DEF Create
<1>4. MembersOK'
    BY <1>0, <1>1, <1>3 DEF IInv, MembersOK, Alive, Errors
<1>5. CreatorsOK'
  <2>0. \A u \in Descs \ {t} : pc'[u] \in {"create", "created"} =>
            /\ u # d /\ pc'[u] = pc[u] /\ target'[u] = target[u] /\ target[u] \in Descs \ {t, d}
            /\ pc[target[u]] = "blocked" /\ (target[u] \in Listed <=> pc[u] = "created")
    BY <1>0, <1>1, CreatorFacts
  <2>1. \A u \in Descs : pc'[u] \in {"create", "created"} =>
            pc'[target'[u]] = "blocked" /\ (target'[u] \in Listed' <=> pc'[u] = "created")
    BY <1>0, <1>1, <1>3, <2>0
  <2>2. ASSUME NEW u \in Descs, NEW v \in Descs, target'[u] = target'[v],
               pc'[u] \in {"create", "created"}, pc'[v] \in {"create", "created"}
        PROVE  u = v
    BY <1>1, <2>0, <2>2 DEF IInv, CreatorsOK
  <2>3. QED
    BY <2>1, <2>2 DEF CreatorsOK
<1>6. TargetsOK' /\ WokenOK'
    BY <1>0, <1>1, <1>3 DEF IInv, Vars, TargetsOK, WokenOK, Create
<1>7. \A e : Joiners(e)' = Joiners(e)
    BY <1>0, <1>1, JoinersSame
<1>8. CountOK'
    BY <1>0, <1>1, <1>7 DEF IInv, CountOK, Create
<1>9. DeadOK'
    BY <1>0, <1>1 DEF IInv, DeadOK, Create
<1>10. QED
    BY <1>2, <1>4, <1>5, <1>6, <1>8, <1>9 DEF IInv

LEMMA CreateInitStep ==
    ASSUME IInv, NEW t \in Descs, NEW detachstate \in BOOLEAN, CreateInit(t, detachstate)
    PROVE  IInv'
<1>0. PICK d \in Descs : d = target[t]
    BY DEF IInv, Vars
<1>1. pc[t] = "create" /\ pc[d] = "blocked" /\ d \notin Listed /\ d # t
    BY <1>0 DEF CreateInit, IInv, CreatorsOK
<1>2. Joiners(d) = {} /\ join_count[d] = 0 /\ join_count' = join_count
    BY <1>0, <1>1, UnlistedFacts DEF CreateInit, IInv, Vars
<1>3. list' \in Seq(Descs) /\ Once(list') /\ Listed' = Listed \cup {d}
    BY <1>0, <1>1, AddedFacts DEF CreateInit, IInv, Vars
<1>4. /\ pc'[t] = "created" /\ \A u \in Descs \ {t} : pc'[u] = pc[u]
      /\ \A u \in Descs \ {d} : detached'[u] = detached[u]
      /\ UNCHANGED <<target, tls, woken>>
    BY <1>0 DEF CreateInit, Goto, IInv, Vars
<1>5. Vars'
    BY <1>2, <1>3 DEF CreateInit, Goto, IInv, Vars, Labels, Alive
<1>6. MembersOK'
    BY <1>1, <1>3, <1>4 DEF IInv, MembersOK, Alive, Errors
<1>7. CreatorsOK'
  <2>0. \A u \in Descs \ {t} : pc'[u] \in {"create", "created"} =>
            /\ pc'[u] = pc[u] /\ target[u] \in Descs \ {t} /\ target[u] # d
            /\ pc[target[u]] = "blocked" /\ (target[u] \in Listed <=> pc[u] = "created")
    BY <1>0, <1>1, <1>4, CreatorFacts DEF IInv, CreatorsOK
  <2>1. \A u \in Descs : pc'[u] \in {"create", "created"} =>
            pc'[target'[u]] = "blocked" /\ (target'[u] \in Listed' <=> pc'[u] = "created")
    BY <1>0, <1>1, <1>3, <1>4, <2>0
  <2>2. ASSUME NEW u \in Descs, NEW v \in Descs, target'[u] = target'[v],
               pc'[u] \in {"create", "created"}, pc'[v] \in {"create", "created"}
        PROVE  u = v
    BY <1>0, <1>4, <2>0, <2>2 DEF IInv, CreatorsOK
  <2>3. QED
    BY <2>1, <2>2 DEF CreatorsOK
<1>8. TargetsOK' /\ WokenOK'
    BY <1>1, <1>3, <1>4 DEF IInv, Vars, TargetsOK, WokenOK
<1>9. \A e : Joiners(e)' = Joiners(e)
    BY <1>1, <1>4, JoinersSame
<1>10. CountOK'
    BY <1>1, <1>2, <1>4, <1>9 DEF IInv, CountOK
<1>11. DeadOK'
    BY <1>1, <1>2, <1>4 DEF IInv, DeadOK
<1>12. QED
    BY <1>3, <1>5, <1>6, <1>7, <1>8, <1>10, <1>11 DEF IInv

LEMMA CreateReleaseStep ==
    ASSUME IInv, NEW t \in Descs, CreateRelease(t)
    PROVE  IInv'
<1>0. PICK d \in Descs : d = target[t]
    BY DEF IInv, Vars
<1>1. pc[t] = "created" /\ pc[d] = "blocked" /\ d \in Listed /\ d # t
    BY <1>0 DEF CreateRelease, IInv, CreatorsOK
<1>2. /\ pc'[t] = "run" /\ pc'[d] = "start" /\ target'[t] = t
      /\ \A u \in Descs \ {t, d} : pc'[u] = pc[u]
      /\ \A u \in Descs \ {t} : target'[u] = target[u]
      /\ UNCHANGED <<list, detached, join_count, tls, woken>>
    BY <1>0, <1>1 DEF CreateRelease, IInv, Vars
<1>3. Vars' /\ Once(list')
    BY <1>0 DEF CreateRelease, IInv, Vars, Labels, Alive
<1>4. Listed' = Listed
    BY <1>2, ListedSame
<1>5. MembersOK'
    BY <1>1, <1>2, <1>4 DEF IInv, MembersOK, Alive, Errors
<1>6. CreatorsOK'
  <2>0. \A u \in Descs : pc'[u] \in {"create", "created"} =>
            /\ u # t /\ pc'[u] = pc[u] /\ target'[u] = target[u]
            /\ target[u] \in Descs \ {t} /\ target[u] # d
            /\ pc[target[u]] = "blocked" /\ (target[u] \in Listed <=> pc[u] = "created")
    BY <1>0, <1>1, <1>2, CreatorFacts DEF IInv, CreatorsOK
  <2>1. \A u \in Descs : pc'[u] \in {"create", "created"} =>
            pc'[target'[u]] = "blocked" /\ (target'[u] \in Listed' <=> pc'[u] = "created")
    BY <1>2, <1>4, <2>0
  <2>2. ASSUME NEW u \in Descs, NEW v \in Descs, target'[u] = target'[v],
               pc'[u] \in {"create", "created"}, pc'[v] \in {"create", "created"}
        PROVE  u = v
    BY <2>0, <2>2 DEF IInv, CreatorsOK
  <2>3. QED
    BY <2>1, <2>2 DEF CreatorsOK
<1>7. TargetsOK' /\ WokenOK'
  <2>1. \A u \in Descs : pc'[u] = "join" => pc[u] = "join" /\ target'[u] = target[u]
    BY <1>2
  <2>2. TargetsOK'
    BY <1>2, <1>4, <2>1 DEF IInv, TargetsOK
  <2>3. WokenOK'
    BY <1>1, <1>2, WokenFacts DEF WokenOK
  <2>4. QED
    BY <2>2, <2>3
<1>8. \A e : Joiners(e)' = Joiners(e)
    BY <1>1, <1>2, JoinersSame
<1>9. CountOK'
    BY <1>1, <1>2, <1>8 DEF IInv, CountOK
<1>10. DeadOK'
    BY <1>1, <1>2 DEF IInv, DeadOK
<1>11. QED
    BY <1>3, <1>5, <1>6, <1>7, <1>9, <1>10 DEF IInv

LEMMA ThreadEntryStep ==
    ASSUME IInv, NEW t \in Descs, ThreadEntry(t)
    PROVE  IInv'
<1>1. tls' \in [Descs -> {"null", "mapped", "gone"}]
      /\ \A d \in Descs : tls'[d] = "gone" => tls[d] = "gone"
    BY DEF ThreadEntry, IInv, Vars
<1>2. QED
    BY <1>1, LabelStep DEF ThreadEntry, Goto

LEMMA ExitStep ==
    ASSUME IInv, NEW t \in Descs, Exit(t)
    PROVE  IInv'
<1>1. CASE detached[t]
    BY <1>1, LabelStep DEF Exit, Goto, IInv, Vars
<1>2. CASE ~detached[t]
    BY <1>2, LabelStep DEF Exit, Goto, IInv, Vars
<1>3. QED
    BY <1>1, <1>2

LEMMA ReturnStep ==
    ASSUME IInv, NEW t \in Descs, Return(t)
    PROVE  IInv'
BY LabelStep DEF Return, Goto, IInv, Vars

LEMMA JoinRefusedStep ==
    ASSUME IInv, NEW t \in Descs, NEW d \in Descs, JoinRefused(t, d)
    PROVE  IInv'
<1>1. PICK p \in Errors : Goto(t, p)
    BY DEF JoinRefused, Errors
<1>2. QED
    BY <1>1, LabelStep DEF JoinRefused, Goto, IInv, Vars, Errors

\* A detached thread is off the list; nobody waited for it.
LEMMA ExitRemoveStep ==
    ASSUME IInv, NEW t \in Descs, ExitRemove(t)
    PROVE  IInv'
<1>0. pc[t] = "remove" /\ detached[t] /\ t \in Listed
    BY DEF ExitRemove, IInv, DeadOK, MembersOK
<1>1. /\ pc'[t] = "dealloc" /\ \A u \in Descs \ {t} : pc'[u] = pc[u]
      /\ UNCHANGED <<target, detached, join_count, tls, woken>>
    BY DEF ExitRemove, Goto, IInv, Vars
<1>2. list' \in Seq(Descs) /\ Once(list') /\ Listed' = Listed \ {t}
    BY <1>0, RemovedFacts DEF ExitRemove, IInv, Vars
<1>3. Vars'
    BY <1>2 DEF ExitRemove, Goto, IInv, Vars, Labels
<1>4. MembersOK'
    BY <1>1, <1>2 DEF IInv, MembersOK, Alive, Errors
<1>5. CreatorsOK'
  <2>0. \A u \in Descs : pc'[u] \in {"create", "created"} =>
            /\ pc'[u] = pc[u] /\ target[u] \in Descs \ {t}
            /\ pc[target[u]] = "blocked" /\ (target[u] \in Listed <=> pc[u] = "created")
    BY <1>0, <1>1, CreatorFacts
  <2>1. \A u \in Descs : pc'[u] \in {"create", "created"} =>
            pc'[target'[u]] = "blocked" /\ (target'[u] \in Listed' <=> pc'[u] = "created")
    BY <1>1, <1>2, <2>0
  <2>2. QED
    BY <1>1, <2>0, <2>1 DEF IInv, CreatorsOK
<1>6. TargetsOK'
    BY <1>0, <1>1, <1>2, TargetFacts DEF TargetsOK
<1>7. WokenOK'
    BY <1>0, <1>1, WokenFacts DEF WokenOK
<1>8. \A e : Joiners(e)' = Joiners(e)
    BY <1>0, <1>1, JoinersSame
<1>9. CountOK'
    BY <1>0, <1>1, <1>8 DEF IInv, CountOK
<1>10. DeadOK'
    BY <1>0, <1>1 DEF IInv, DeadOK
<1>11. QED
    BY <1>2, <1>3, <1>4, <1>5, <1>6, <1>7, <1>9, <1>10 DEF IInv

LEMMA ExitFreeStep ==
    ASSUME IInv, NEW t \in Descs, ExitFree(t)
    PROVE  IInv'
<1>0. pc[t] = "dealloc" /\ t \notin Listed
    BY DEF ExitFree, IInv, MembersOK
<1>1. Joiners(t) = {} /\ join_count[t] = 0 /\ join_count' = join_count
    BY <1>0, UnlistedFacts DEF ExitFree, Cleared, IInv, Vars
<1>2. /\ pc'[t] = "free" /\ \A u \in Descs \ {t} : pc'[u] = pc[u]
      /\ \A u \in Descs \ {t} : detached'[u] = detached[u]
      /\ \A u \in Descs : tls'[u] = "gone" => tls[u] = "gone" /\ u # t
      /\ UNCHANGED <<list, target, woken>>
    BY DEF ExitFree, Cleared, Goto, IInv, Vars
<1>3. Vars' /\ Once(list')
    BY <1>1 DEF ExitFree, Cleared, Goto, IInv, Vars, Labels
<1>4. Listed' = Listed
    BY <1>2, ListedSame
<1>5. MembersOK'
    BY <1>0, <1>2, <1>4 DEF IInv, MembersOK, Alive, Errors
<1>6. CreatorsOK'
  <2>0. \A u \in Descs : pc'[u] \in {"create", "created"} =>
            /\ pc'[u] = pc[u] /\ target[u] \in Descs \ {t}
            /\ pc[target[u]] = "blocked" /\ (target[u] \in Listed <=> pc[u] = "created")
    BY <1>0, <1>2, CreatorFacts
  <2>1. \A u \in Descs : pc'[u] \in {"create", "created"} =>
            pc'[target'[u]] = "blocked" /\ (target'[u] \in Listed' <=> pc'[u] = "created")
    BY <1>2, <1>4, <2>0
  <2>2. QED
    BY <1>2, <2>0, <2>1 DEF IInv, CreatorsOK
<1>7. TargetsOK'
    BY <1>0, <1>2, <1>4 DEF IInv, Vars, TargetsOK
<1>8. WokenOK'
    BY <1>0, <1>2, WokenFacts DEF WokenOK
<1>9. \A e : Joiners(e)' = Joiners(e)
    BY <1>0, <1>2, JoinersSame
<1>10. CountOK'
    BY <1>0, <1>1, <1>2, <1>9 DEF IInv, CountOK
<1>11. DeadOK'
    BY <1>0, <1>1, <1>2 DEF IInv, DeadOK
<1>12. QED
    BY <1>3, <1>5, <1>6, <1>7, <1>8, <1>10, <1>11 DEF IInv

\* A thread that leaves becomes a zombie, or its joiners are woken.
LEMMA ExitPublishStep ==
    ASSUME IInv, NEW t \in Descs, ExitPublish(t)
    PROVE  IInv'
<1>0. pc[t] = "leave" /\ t \in Listed /\ join_count[t] = Cardinality(Joiners(t))
    BY DEF ExitPublish, IInv, MembersOK, CountOK
<1>1. /\ pc'[t] = "dead" /\ \A u \in Descs \ {t} : pc'[u] = pc[u]
      /\ UNCHANGED <<list, target, detached, tls>>
    BY DEF ExitPublish, Goto, IInv, Vars
<1>2. Listed' = Listed
    BY <1>1, ListedSame
<1>3. \A e : Joiners(e)' = Joiners(e)
    BY <1>0, <1>1, JoinersSame
<1>4. Vars' /\ Once(list')
    BY DEF ExitPublish, Goto, IInv, Vars, Labels, Joiners
<1>5. MembersOK'
    BY <1>0, <1>1, <1>2 DEF IInv, MembersOK
<1>6. CreatorsOK'
  <2>0. \A u \in Descs : pc'[u] \in {"create", "created"} =>
            /\ pc'[u] = pc[u] /\ target[u] \in Descs \ {t}
            /\ pc[target[u]] = "blocked" /\ (target[u] \in Listed <=> pc[u] = "created")
    BY <1>0, <1>1, CreatorFacts
  <2>1. \A u \in Descs : pc'[u] \in {"create", "created"} =>
            pc'[target'[u]] = "blocked" /\ (target'[u] \in Listed' <=> pc'[u] = "created")
    BY <1>1, <1>2, <2>0
  <2>2. QED
    BY <1>1, <2>0, <2>1 DEF IInv, CreatorsOK
<1>7. TargetsOK'
    BY <1>1, <1>2, TargetFacts DEF TargetsOK
<1>8. WokenOK'
  <2>1. \A u \in woken : pc'[u] = "join" /\ pc'[target'[u]] = "dead"
    BY <1>0, <1>1, WokenFacts
  <2>2. \A u \in Joiners(t) : pc'[u] = "join" /\ pc'[target'[u]] = "dead"
    BY <1>0, <1>1 DEF Joiners
  <2>3. QED
    BY <2>1, <2>2 DEF WokenOK, ExitPublish
<1>9. CountOK' /\ DeadOK'
  <2>1. CASE join_count[t] > 0
    <3>1. join_count' = join_count
        BY <2>1, <1>0 DEF ExitPublish, IInv, Vars
    <3>2. CountOK'
        BY <1>0, <1>1, <1>3, <3>1 DEF IInv, CountOK
    <3>3. DeadOK'
        BY <1>0, <1>1, <2>1, <3>1 DEF IInv, DeadOK
    <3>4. QED
        BY <3>2, <3>3
  <2>2. CASE ~(join_count[t] > 0)
    <3>1. join_count' = [join_count EXCEPT ![t] = -1]
        BY <2>2, <1>0 DEF ExitPublish, IInv, Vars
    <3>2. join_count'[t] = -1 /\ \A u \in Descs \ {t} : join_count'[u] = join_count[u]
        BY <3>1 DEF IInv, Vars
    <3>3. Joiners(t) = {}
        BY <1>0, <2>2, JoinersFinite, FS_EmptySet
    <3>4. CountOK'
        BY <1>0, <1>1, <1>3, <3>2, <3>3 DEF IInv, CountOK
    <3>5. DeadOK'
        BY <1>0, <1>1, <3>2 DEF IInv, DeadOK
    <3>6. QED
        BY <3>4, <3>5
  <2>3. QED
    BY <2>1, <2>2
<1>10. QED
    BY <1>4, <1>5, <1>6, <1>7, <1>8, <1>9 DEF IInv

LEMMA TeardownStep ==
    ASSUME IInv, NEW t \in Descs, Teardown(t)
    PROVE  IInv'
<1>1. Listed' = Listed
    BY ListedSame DEF Teardown
<1>2. \A e : Joiners(e)' = Joiners(e)
    BY JoinersSame DEF Teardown
<1>3. Vars' /\ Once(list')
    BY DEF Teardown, IInv, Vars
<1>4. MembersOK' /\ CreatorsOK' /\ TargetsOK' /\ WokenOK'
    BY <1>1 DEF Teardown, IInv, MembersOK, CreatorsOK, TargetsOK, WokenOK
<1>5. CountOK'
    BY <1>2 DEF Teardown, IInv, CountOK
<1>6. DeadOK'
    BY DEF Teardown, IInv, Vars, DeadOK
<1>7. QED
    BY <1>3, <1>4, <1>5, <1>6 DEF IInv

\* The descriptor of a dead thread is disposed of: by a late caller of
\* pthread_join, or by the last joiner, who returns.
LEMMA DisposeStep ==
    ASSUME IInv, NEW d \in Descs, pc[d] = "dead", Dispose(d),
           pc' \in [Descs -> Labels], target' \in [Descs -> Descs], woken' \subseteq woken,
           pc'[d] = "free",
           \A u \in Descs \ {d} : pc'[u] = pc[u] \/ (pc[u] = "join" /\ pc'[u] = "run"),
           \A u \in Descs : pc'[u] # "run" => target'[u] = target[u],
           \A u \in Descs : pc'[u] = "join" => target[u] # d,
           \A u \in woken' : pc'[u] = "join",
           Joiners(d)' = {}, \A e \in Descs \ {d} : Joiners(e)' = Joiners(e)
    PROVE  IInv'
<1>0. d \in Listed
    BY DEF IInv, MembersOK
<1>1. list' \in Seq(Descs) /\ Once(list') /\ Listed' = Listed \ {d}
    BY <1>0, RemovedFacts DEF Dispose, IInv, Vars
<1>2. /\ join_count'[d] = 0 /\ \A u \in Descs \ {d} : join_count'[u] = join_count[u]
      /\ detached'[d] = FALSE /\ \A u \in Descs \ {d} : detached'[u] = detached[u]
      /\ tls'[d] = "null" /\ \A u \in Descs \ {d} : tls'[u] = tls[u]
    BY DEF Dispose, Cleared, IInv, Vars
<1>3. Vars'
  <2>1. /\ detached' \in [Descs -> BOOLEAN] /\ join_count' \in [Descs -> Int]
        /\ tls' \in [Descs -> {"null", "mapped", "gone"}]
    BY DEF Dispose, Cleared, IInv, Vars
  <2>2. woken' \subseteq Descs
    BY DEF IInv, Vars
  <2>3. QED
    BY <1>1, <2>1, <2>2 DEF Vars
<1>4. MembersOK'
    BY <1>1 DEF IInv, MembersOK, Alive, Errors
<1>5. CreatorsOK'
  <2>0. \A u \in Descs : pc'[u] \in {"create", "created"} =>
            /\ pc'[u] = pc[u] /\ target'[u] = target[u] /\ target[u] \in Descs \ {d}
            /\ pc[target[u]] = "blocked" /\ (target[u] \in Listed <=> pc[u] = "created")
    BY CreatorFacts
  <2>1. \A u \in Descs : pc'[u] \in {"create", "created"} =>
            pc'[target'[u]] = "blocked" /\ (target'[u] \in Listed' <=> pc'[u] = "created")
    BY <1>1, <2>0
  <2>2. QED
    BY <2>0, <2>1 DEF IInv, CreatorsOK
<1>6. TargetsOK'
  <2>1. \A u \in Descs : pc'[u] = "join" =>
            pc[u] = "join" /\ target'[u] = target[u] /\ target[u] \in Descs \ {d}
    BY TargetFacts
  <2>2. QED
    BY <1>1, <1>2, <2>1, TargetFacts DEF TargetsOK
<1>7. WokenOK'
  <2>1. \A u \in woken' :
            /\ u \in Descs /\ pc'[u] = "join" /\ target'[u] = target[u]
            /\ target[u] \in Descs \ {d} /\ pc[target[u]] = "dead"
    BY WokenFacts
  <2>2. QED
    BY <2>1 DEF WokenOK
<1>8. CountOK'
  <2>1. join_count'[d] = Cardinality(Joiners(d)')
    BY <1>2, FS_EmptySet
  <2>2. \A e \in Descs \ {d} : pc[e] = "dead" => pc'[e] = "dead"
    OBVIOUS
  <2>3. QED
    BY <1>2, <2>1, <2>2 DEF IInv, CountOK
<1>9. DeadOK'
    BY <1>2 DEF IInv, DeadOK
<1>10. QED
    BY <1>1, <1>3, <1>4, <1>5, <1>6, <1>7, <1>8, <1>9 DEF IInv

LEMMA JoinZombieStep ==
    ASSUME IInv, NEW t \in Descs, NEW d \in Descs, JoinZombie(t, d)
    PROVE  IInv'
<1>0. join_count[d] = -1 /\ Joiners(d) = {} /\ pc[d] = "dead"
  <2>1. join_count[d] # Cardinality(Joiners(d))
    BY JoinersFinite DEF JoinZombie
  <2>2. QED
    BY <2>1 DEF IInv, CountOK
<1>1. /\ pc' \in [Descs -> Labels] /\ pc'[d] = "free"
      /\ \A u \in Descs \ {d} : pc'[u] = pc[u]
    BY DEF JoinZombie, Goto, IInv, Vars, Labels
<1>2. \A e : Joiners(e)' = Joiners(e)
    BY <1>0, <1>1, JoinersSame DEF JoinZombie
<1>3. \A u \in Descs : pc'[u] = "join" => target[u] # d
    BY <1>0, <1>1 DEF Joiners
<1>4. \A u \in woken : pc'[u] = "join"
    BY <1>0, <1>1, WokenFacts
<1>5. Dispose(d) /\ target' = target /\ woken' = woken
    BY DEF JoinZombie
<1>6. QED
    BY <1>0, <1>1, <1>2, <1>3, <1>4, <1>5, DisposeStep DEF IInv, Vars

LEMMA JoinWaitStep ==
    ASSUME IInv, NEW t \in Descs, NEW d \in Descs, JoinWait(t, d)
    PROVE  IInv'
<1>0. pc[t] = "run" /\ d # t /\ d \in Listed /\ d \in Managed /\ detached[d] = FALSE
    BY DEF JoinWait, CanJoin, IInv, Vars
<1>1. /\ pc'[t] = "join" /\ \A u \in Descs \ {t} : pc'[u] = pc[u]
      /\ target'[t] = d /\ \A u \in Descs \ {t} : target'[u] = target[u]
      /\ join_count'[d] = join_count[d] + 1
      /\ \A u \in Descs \ {d} : join_count'[u] = join_count[u]
      /\ UNCHANGED <<list, detached, tls, woken>>
    BY DEF JoinWait, Goto, IInv, Vars
<1>2. Listed' = Listed
    BY <1>1, ListedSame
<1>3. Vars' /\ Once(list')
    BY DEF JoinWait, Goto, IInv, Vars, Labels, Alive
<1>4. MembersOK'
    BY <1>0, <1>1, <1>2 DEF IInv, MembersOK, Alive, Errors
<1>5. CreatorsOK'
  <2>0. \A u \in Descs : pc'[u] \in {"create", "created"} =>
            /\ pc'[u] = pc[u] /\ target'[u] = target[u] /\ target[u] \in Descs \ {t}
            /\ pc[target[u]] = "blocked" /\ (target[u] \in Listed <=> pc[u] = "created")
    BY <1>0, <1>1, CreatorFacts
  <2>1. \A u \in Descs : pc'[u] \in {"create", "created"} =>
            pc'[target'[u]] = "blocked" /\ (target'[u] \in Listed' <=> pc'[u] = "created")
    BY <1>1, <1>2, <2>0
  <2>2. QED
    BY <2>0, <2>1 DEF IInv, CreatorsOK
<1>6. TargetsOK'
    BY <1>0, <1>1, <1>2, TargetFacts DEF TargetsOK
<1>7. WokenOK'
    BY <1>0, <1>1, WokenFacts DEF WokenOK
<1>8. Joiners(d)' = Joiners(d) \cup {t} /\ \A e \in Descs \ {d} : Joiners(e)' = Joiners(e)
    BY <1>0, <1>1 DEF Joiners
<1>9. Cardinality(Joiners(d)') = Cardinality(Joiners(d)) + 1
  <2>1. t \notin Joiners(d)
    BY <1>0 DEF Joiners
  <2>2. QED
    BY <1>8, <2>1, JoinersFinite, FS_AddElement
<1>10. join_count[d] = Cardinality(Joiners(d))
    BY DEF JoinWait, IInv, CountOK
<1>11. CountOK'
    BY <1>0, <1>1, <1>8, <1>9, <1>10 DEF IInv, CountOK
<1>12. DeadOK'
  <2>1. join_count'[d] # 0
    BY <1>1, <1>10, JoinersFinite
  <2>2. QED
    BY <1>0, <1>1, <2>1 DEF IInv, DeadOK
<1>13. QED
    BY <1>3, <1>4, <1>5, <1>6, <1>7, <1>11, <1>12 DEF IInv

\* What holds when a woken joiner returns: the thread is dead, and the joiner
\* is one of those that join_count counts.
LEMMA JoinReturnFacts ==
    ASSUME IInv, Interrupted = {}, NEW t \in Descs, JoinReturn(t)
    PROVE  /\ t \in woken /\ pc[t] = "join"
           /\ target[t] \in Descs /\ target[t] # t /\ pc[target[t]] = "dead"
           /\ t \in Joiners(target[t])
           /\ join_count[target[t]] = Cardinality(Joiners(target[t]))
<1>1. t \in woken /\ pc[t] = "join"
    BY DEF JoinReturn
<1>2. target[t] \in Descs /\ pc[target[t]] = "dead"
    BY <1>1, WokenFacts
<1>3. t \in Joiners(target[t])
    BY <1>1 DEF Joiners
<1>4. QED
    BY <1>1, <1>2, <1>3 DEF IInv, CountOK

LEMMA JoinReturnStep ==
    ASSUME IInv, Interrupted = {}, NEW t \in Descs, JoinReturn(t)
    PROVE  IInv'
<1>0. PICK d \in Descs : d = target[t]
    BY JoinReturnFacts
<1>1. /\ t \in woken /\ pc[t] = "join" /\ d # t /\ pc[d] = "dead" /\ t \in Joiners(d)
      /\ join_count[d] = Cardinality(Joiners(d)) /\ Cardinality(Joiners(d)) \in Nat
    BY <1>0, JoinReturnFacts, JoinersFinite
<1>2. /\ target' \in [Descs -> Descs] /\ target'[t] = t
      /\ \A u \in Descs \ {t} : target'[u] = target[u]
      /\ woken' = woken \ {t}
    BY DEF JoinReturn, IInv, Vars
<1>3. Cardinality(Joiners(d) \ {t}) = Cardinality(Joiners(d)) - 1
    BY <1>1, JoinersFinite, FS_RemoveElement
<1>4. CASE join_count[d] > 1
  <2>1. /\ join_count' = [join_count EXCEPT ![d] = @ - 1] /\ Goto(t, "run")
        /\ UNCHANGED <<list, detached, tls>>
    BY <1>0, <1>1, <1>4 DEF JoinReturn
  <2>2. /\ pc'[t] = "run" /\ \A u \in Descs \ {t} : pc'[u] = pc[u]
        /\ join_count'[d] = join_count[d] - 1
        /\ \A u \in Descs \ {d} : join_count'[u] = join_count[u]
    BY <2>1 DEF Goto, IInv, Vars
  <2>3. Listed' = Listed
    BY <2>1, ListedSame
  <2>4. Vars' /\ Once(list')
    BY <1>2, <2>1 DEF Goto, IInv, Vars, Labels, Alive
  <2>5. MembersOK'
    BY <1>1, <2>2, <2>3 DEF IInv, MembersOK, Alive, Errors
  <2>6. CreatorsOK'
    <3>0. \A u \in Descs : pc'[u] \in {"create", "created"} =>
              /\ pc'[u] = pc[u] /\ target'[u] = target[u] /\ target[u] \in Descs \ {t}
              /\ pc[target[u]] = "blocked" /\ (target[u] \in Listed <=> pc[u] = "created")
        BY <1>1, <1>2, <2>2, CreatorFacts
    <3>1. \A u \in Descs : pc'[u] \in {"create", "created"} =>
              pc'[target'[u]] = "blocked" /\ (target'[u] \in Listed' <=> pc'[u] = "created")
        BY <2>2, <2>3, <3>0
    <3>2. QED
        BY <3>0, <3>1 DEF IInv, CreatorsOK
  <2>7. TargetsOK'
    BY <1>2, <2>1, <2>2, <2>3, TargetFacts DEF TargetsOK
  <2>8. WokenOK'
    BY <1>1, <1>2, <2>2, WokenFacts DEF WokenOK
  <2>9. Joiners(d)' = Joiners(d) \ {t} /\ \A e \in Descs \ {d} : Joiners(e)' = Joiners(e)
    BY <1>0, <1>1, <1>2, <2>2 DEF Joiners
  <2>10. CountOK'
    BY <1>1, <1>3, <2>2, <2>9 DEF IInv, CountOK
  <2>11. DeadOK'
    <3>1. join_count'[d] # 0
        BY <1>1, <1>4, <2>2
    <3>2. QED
        BY <1>1, <2>1, <2>2, <3>1 DEF IInv, DeadOK
  <2>12. QED
    BY <2>4, <2>5, <2>6, <2>7, <2>8, <2>10, <2>11 DEF IInv
<1>5. CASE ~(join_count[d] > 1)
  <2>1. Dispose(d) /\ pc' = [pc EXCEPT ![t] = "run", ![d] = "free"]
    BY <1>0, <1>1, <1>5 DEF JoinReturn
  <2>2. /\ pc' \in [Descs -> Labels] /\ pc'[d] = "free" /\ pc'[t] = "run"
        /\ \A u \in Descs \ {d, t} : pc'[u] = pc[u]
    BY <1>1, <2>1 DEF IInv, Vars, Labels, Alive
  <2>3. Cardinality(Joiners(d) \ {t}) = 0
    <3>1. Cardinality(Joiners(d) \ {t}) \in Nat
        BY JoinersFinite, FS_RemoveElement, FS_CardinalityType
    <3>2. QED
        BY <1>1, <1>3, <1>5, <3>1
  <2>4. Joiners(d) \ {t} = {}
    BY <2>3, JoinersFinite, FS_RemoveElement, FS_EmptySet
  <2>5. Joiners(d)' = {}
    BY <1>1, <1>2, <2>2, <2>4 DEF Joiners
  <2>6. \A e \in Descs \ {d} : Joiners(e)' = Joiners(e)
    BY <1>0, <1>1, <1>2, <2>2 DEF Joiners
  <2>7. \A u \in Descs : pc'[u] = "join" => target[u] # d
    BY <1>1, <2>2, <2>4 DEF Joiners
  <2>8. \A u \in woken' : pc'[u] = "join"
    BY <1>1, <1>2, <2>2, WokenFacts
  <2>9. QED
    BY <1>1, <1>2, <2>1, <2>2, <2>5, <2>6, <2>7, <2>8, DisposeStep
<1>6. QED
    BY <1>4, <1>5

LEMMA DetachStep ==
    ASSUME IInv, NEW t \in Descs, NEW d \in Descs, Detach(t, d)
    PROVE  IInv'
<1>1. CASE d \notin Listed \/ detached[d]
  <2>1. PICK p \in Errors : Goto(t, p)
    BY <1>1 DEF Detach, Errors
  <2>2. detached' = detached
    BY <1>1 DEF Detach
  <2>3. QED
    BY <2>1, <2>2, LabelStep DEF Detach, Goto, IInv, Vars, Errors
<1>2. CASE d \in Listed /\ ~detached[d]
  <2>0. Joiners(d) = {}
    BY DEF Detach
  <2>1. /\ detached' = [detached EXCEPT ![d] = TRUE]
        /\ UNCHANGED <<pc, list, target, join_count, tls, woken>>
    BY <1>2 DEF Detach
  <2>2. \A u \in Descs \ {d} : detached'[u] = detached[u]
    BY <2>1 DEF IInv, Vars
  <2>3. Vars' /\ Once(list')
    BY <2>1 DEF IInv, Vars
  <2>4. Listed' = Listed
    BY <2>1, ListedSame
  <2>5. MembersOK' /\ CreatorsOK' /\ WokenOK'
    BY <2>1, <2>4 DEF IInv, MembersOK, CreatorsOK, WokenOK
  <2>6. TargetsOK'
    <3>1. \A u \in Descs : pc[u] = "join" => target[u] # d
        BY <2>0 DEF Joiners
    <3>2. QED
        BY <2>1, <2>2, <2>4, <3>1, TargetFacts DEF TargetsOK
  <2>7. CountOK'
    <3>1. \A e : Joiners(e)' = Joiners(e)
        BY <2>1, JoinersSame
    <3>2. QED
        BY <2>1, <3>1 DEF IInv, CountOK
  <2>8. DeadOK'
    BY <2>1 DEF IInv, Vars, DeadOK
  <2>9. QED
    BY <2>3, <2>5, <2>6, <2>7, <2>8 DEF IInv
<1>3. QED
    BY <1>1, <1>2

LEMMA InitIInv == Init => IInv
<1> SUFFICES ASSUME Init PROVE IInv
    OBVIOUS
<1>1. Vars
    BY DescsAssumption DEF Init, Vars, Labels, Alive
<1>2. Listed = {Main}
    BY DEF Init, Listed
<1>3. Once(list)
    BY DEF Init, Once
<1>4. MembersOK /\ CreatorsOK /\ TargetsOK /\ WokenOK
    BY <1>2, DescsAssumption DEF Init, MembersOK, CreatorsOK, TargetsOK, WokenOK, Alive, Errors
<1>5. \A d : Joiners(d) = {}
    BY DEF Init, Joiners
<1>6. CountOK
    BY <1>5, FS_EmptySet DEF Init, CountOK
<1>7. DeadOK
    BY DEF Init, DeadOK
<1>8. QED
    BY <1>1, <1>3, <1>4, <1>6, <1>7 DEF IInv

LEMMA StutterIInv == ASSUME IInv, UNCHANGED vars PROVE IInv'
<1>1. UNCHANGED <<list, pc, target, detached, join_count, tls, woken>>
    BY DEF vars
<1>2. Listed' = Listed
    BY <1>1, ListedSame
<1>3. Vars' /\ Once(list') /\ MembersOK' /\ CreatorsOK' /\ TargetsOK' /\ WokenOK' /\ DeadOK'
    BY <1>1, <1>2 DEF IInv, Vars, MembersOK, CreatorsOK, TargetsOK, WokenOK, DeadOK
<1>4. \A e : Joiners(e)' = Joiners(e)
    BY <1>1, JoinersSame
<1>5. CountOK'
    BY <1>1, <1>4 DEF IInv, CountOK
<1>6. QED
    BY <1>3, <1>5 DEF IInv

LEMMA StepIInv == ASSUME IInv, Interrupted = {}, [Next]_vars PROVE IInv'
<1>1. ASSUME NEW t \in Descs, Call(t)
      PROVE  IInv'
    BY <1>1, CreateStep, JoinRefusedStep, JoinZombieStep, JoinWaitStep, DetachStep, ExitStep
       DEF Call
<1>2. ASSUME NEW t \in Descs, Run(t)
      PROVE  IInv'
    BY <1>2, CreateInitStep, CreateReleaseStep, ThreadEntryStep, ExitRemoveStep, ExitFreeStep,
       ExitPublishStep, ReturnStep
       DEF Run
<1>3. QED
    BY <1>1, <1>2, JoinReturnStep, TeardownStep, StutterIInv DEF Next

----------------------------------------------------------------------------
(* What a step does to the initial thread, and to a joiner.                *)

\* Nobody takes the initial thread off the end of the list.
LEMMA MainStep ==
    ASSUME IInv, MainOK, Main \notin Managed, Interrupted = {}, NEW t \in Descs,
           Call(t) \/ Run(t) \/ JoinReturn(t) \/ Teardown(t)
    PROVE  MainOK'
<1> USE DescsAssumption DEF IInv, Vars, MainOK
<1>1. ASSUME NEW d \in Descs, Create(t, d)
      PROVE  MainOK'
    BY <1>1 DEF Create
<1>2. CASE (\E d \in Descs : JoinRefused(t, d) \/ JoinWait(t, d)) \/ Return(t) \/ ThreadEntry(t)
    BY <1>2 DEF JoinRefused, JoinWait, Return, ThreadEntry, Goto
<1>3. CASE Exit(t)
    BY <1>3 DEF Exit, Goto
<1>4. ASSUME NEW d \in Descs, Detach(t, d)
      PROVE  MainOK'
  <2>1. list' = list /\ detached'[Main] = detached[Main]
    BY <1>4 DEF Detach
  <2>2. pc'[Main] \notin {"free", "blocked", "remove", "dealloc"}
    BY <1>4 DEF Detach, Goto
  <2>3. QED
    BY <2>1, <2>2
<1>5. ASSUME NEW d \in Descs, d \in Managed, pc[d] = "dead", Dispose(d)
      PROVE  /\ detached'[Main] = detached[Main]
             /\ Len(list') > 0 /\ list'[Len(list')] = Main
  <2>1. d # Main /\ d \in Listed
    BY <1>5 DEF MembersOK
  <2>2. QED
    BY <1>5, <2>1, RemovedFacts DEF Dispose, Cleared
<1>6. ASSUME NEW d \in Descs, JoinZombie(t, d)
      PROVE  MainOK'
  <2>1. d \in Managed /\ Dispose(d) /\ pc'[Main] = pc[Main]
    BY <1>6 DEF JoinZombie, CanJoin, Goto
  <2>2. pc[d] = "dead"
    BY <1>6, JoinersFinite DEF JoinZombie, CountOK
  <2>3. QED
    BY <1>5, <2>1, <2>2
<1>7. CASE JoinReturn(t)
  <2>0. PICK d \in Descs : d = target[t]
    OBVIOUS
  <2>1. pc[t] = "join" /\ d \in Managed /\ pc[d] = "dead"
    BY <1>7, <2>0, JoinReturnFacts, TargetFacts
  <2>2. pc'[Main] \in {pc[Main], "run"}
    BY <1>7, <2>0, <2>1 DEF JoinReturn, Goto
  <2>3. CASE Dispose(d)
    BY <1>5, <2>1, <2>2, <2>3
  <2>4. CASE UNCHANGED <<list, detached>>
    BY <2>2, <2>4
  <2>5. QED
    BY <1>7, <2>0, <2>3, <2>4 DEF JoinReturn
<1>8. ASSUME NEW detachstate \in BOOLEAN, CreateInit(t, detachstate)
      PROVE  MainOK'
  <2>0. PICK d \in Descs : d = target[t]
    OBVIOUS
  <2>1. pc[d] = "blocked" /\ d \notin Listed
    BY <1>8, <2>0, CreatorFacts DEF CreateInit
  <2>2. Len(list') > 0 /\ list'[Len(list')] = Main
    BY <1>8, <2>0, <2>1, AddedFacts DEF CreateInit
  <2>3. detached'[Main] = detached[Main] /\ pc'[Main] \in {pc[Main], "created"}
    BY <1>8, <2>0, <2>1 DEF CreateInit, Goto
  <2>4. QED
    BY <2>2, <2>3
<1>9. CASE CreateRelease(t)
  <2>1. target[t] # Main
    BY <1>9, CreatorFacts DEF CreateRelease
  <2>2. QED
    BY <1>9, <2>1 DEF CreateRelease
<1>10. CASE ExitRemove(t)
  <2>1. t # Main /\ t \in Listed
    BY <1>10 DEF ExitRemove, MembersOK
  <2>2. Len(list') > 0 /\ list'[Len(list')] = Main
    BY <1>10, <2>1, RemovedFacts DEF ExitRemove
  <2>3. QED
    BY <1>10, <2>1, <2>2 DEF ExitRemove, Goto
<1>11. CASE ExitFree(t)
    BY <1>11 DEF ExitFree, Cleared, Goto
<1>12. CASE ExitPublish(t) \/ Teardown(t)
    BY <1>12 DEF ExitPublish, Teardown, Goto
<1>13. QED
    BY <1>1, <1>2, <1>3, <1>4, <1>6, <1>7, <1>8, <1>9, <1>10, <1>11, <1>12 DEF Call, Run

\* Only a return ends a wait, and only ExitFree and the joiners free memory.
LEMMA DeathStep ==
    ASSUME IInv, Interrupted = {}, NEW t \in Descs, NEW d \in Descs,
           Call(t) \/ Run(t) \/ JoinReturn(t) \/ Teardown(t)
    PROVE  /\ pc[d] = "join" /\ pc'[d] = "run" => pc[target[d]] = "dead"
           /\ pc[d] # "free" /\ pc'[d] = "free" => pc[d] \in {"dead", "dealloc"}
<1> DEFINE Kept == pc'[d] # pc[d] => pc[d] # "join" /\ pc'[d] # "free"
<1> USE DEF IInv, Vars
<1>1. CASE \E e \in Descs : Create(t, e) \/ JoinRefused(t, e) \/ JoinWait(t, e) \/ Detach(t, e)
  <2>1. Kept
    BY <1>1 DEF Create, JoinRefused, JoinWait, CanJoin, Detach, Goto
  <2>2. QED
    BY <2>1
<1>2. ASSUME NEW e \in Descs, JoinZombie(t, e)
      PROVE  /\ pc[d] = "join" /\ pc'[d] = "run" => pc[target[d]] = "dead"
             /\ pc[d] # "free" /\ pc'[d] = "free" => pc[d] \in {"dead", "dealloc"}
  <2>1. pc[e] = "dead"
    BY <1>2, JoinersFinite DEF JoinZombie, CountOK
  <2>2. QED
    BY <1>2, <2>1 DEF JoinZombie, Goto
<1>3. CASE Exit(t) \/ (\E detachstate \in BOOLEAN : CreateInit(t, detachstate))
           \/ ThreadEntry(t) \/ ExitRemove(t) \/ ExitPublish(t) \/ Return(t) \/ Teardown(t)
  <2>1. Kept
    BY <1>3 DEF Exit, CreateInit, ThreadEntry, ExitRemove, ExitPublish, Return, Teardown, Goto,
        Errors
  <2>2. QED
    BY <2>1
<1>4. CASE CreateRelease(t)
  <2>1. target[t] \in Descs /\ pc[target[t]] = "blocked"
    BY <1>4, CreatorFacts DEF CreateRelease
  <2>2. QED
    BY <1>4, <2>1 DEF CreateRelease
<1>5. CASE ExitFree(t)
    BY <1>5 DEF ExitFree, Goto
<1>6. CASE JoinReturn(t)
  <2>0. PICK e \in Descs : e = target[t]
    OBVIOUS
  <2>1. e # t /\ pc[t] = "join" /\ pc[e] = "dead"
    BY <1>6, <2>0, JoinReturnFacts
  <2>2. pc' = [pc EXCEPT ![t] = "run"] \/ pc' = [pc EXCEPT ![t] = "run", ![e] = "free"]
    BY <1>6, <2>0 DEF JoinReturn, Goto
  <2>3. QED
    BY <2>0, <2>1, <2>2
<1>7. QED
    BY <1>1, <1>2, <1>3, <1>4, <1>5, <1>6 DEF Call, Run

----------------------------------------------------------------------------
(* The theorems.                                                           *)

LEMMA Invariance ==
    ASSUME Interrupted = {}
    PROVE  Spec => []IInv
<1>1. IInv /\ [Next]_vars => IInv'
    BY StepIInv
<1>2. QED
    BY <1>1, InitIInv, PTL DEF Spec

\* Type correctness: gThreadList has no more members than there are
\* descriptors, and join_count is -1 or counts threads.
THEOREM TypeCorrect ==
    ASSUME Interrupted = {}
    PROVE  Spec => []TypeOK
<1>1. ASSUME IInv PROVE TypeOK
  <2>1. Len(list) <= Cardinality(Descs)
    <3>1. Len(list) \in Nat /\ IsFiniteSet(1 .. Len(list)) /\ Cardinality(1 .. Len(list)) = Len(list)
        BY <1>1, FS_Interval DEF IInv, Vars
    <3>2. list \in Injection(1 .. Len(list), Descs)
        BY <1>1 DEF IInv, Vars, Once, Injection, IsInjective
    <3>3. QED
        BY <3>1, <3>2, FS_Injection, DescsAssumption
  <2>2. ASSUME NEW d \in Descs
        PROVE  join_count[d] \in -1 .. Cardinality(Descs)
    <3>1. Cardinality(Descs) \in Nat
        BY FS_CardinalityType, DescsAssumption
    <3>2. join_count[d] = Cardinality(Joiners(d)) \/ join_count[d] = -1
        BY <1>1 DEF IInv, CountOK
    <3>3. QED
        BY <3>1, <3>2, JoinersFinite
  <2>3. join_count \in [Descs -> -1 .. Cardinality(Descs)]
    BY <1>1, <2>2 DEF IInv, Vars
  <2>4. QED
    BY <1>1, <2>1, <2>3 DEF IInv, Vars, TypeOK
<1>2. QED
    BY <1>1, Invariance, PTL

\* gThreadList holds each running thread once and no freed memory, so
\* pthread_join, pthread_detach and pthread_key_delete find none there.
THEOREM ListExact ==
    ASSUME Interrupted = {}
    PROVE  Spec => []ListIsExact
<1>1. IInv => ListIsExact
    BY DEF IInv, Once, MembersOK, ListIsExact
<1>2. QED
    BY <1>1, Invariance, PTL

\* join_count is the number of threads inside pthread_join, or marks a zombie;
\* pthread_key_delete, which tells the dead by it, meets a stack that is gone
\* only while joiners have not returned.
THEOREM JoinCountExact ==
    ASSUME Interrupted = {}
    PROVE  Spec => []JoinersCounted
<1>1. ASSUME IInv PROVE JoinersCounted
  <2>1. ASSUME NEW d \in KeyDeleteClears, tls[d] = "gone"
        PROVE  Joiners(d) # {}
    <3>1. d \in Descs /\ join_count[d] >= 0
        BY <1>1, <2>1 DEF IInv, Vars, KeyDeleteClears, Listed
    <3>2. join_count[d] # 0 /\ join_count[d] = Cardinality(Joiners(d))
        BY <1>1, <2>1, <3>1 DEF IInv, DeadOK, CountOK
    <3>3. QED
        BY <3>2, FS_EmptySet
  <2>2. QED
    BY <1>1, <2>1 DEF IInv, CountOK, JoinersCounted
<1>2. QED
    BY <1>1, Invariance, PTL

\* pthread_join returns 0 only after the thread it was called for has
\* published its end, and _pthread_internal_free is called only for a thread
\* that makes no other access to its descriptor.
THEOREM JoinWaitsForDeath ==
    ASSUME Interrupted = {}
    PROVE  Spec => JoinAfterDeath
<1> DEFINE Death ==
        \A d \in Descs :
            /\ pc[d] = "join" /\ pc'[d] = "run" => pc[target[d]] = "dead"
            /\ pc[d] # "free" /\ pc'[d] = "free" => pc[d] \in {"dead", "dealloc"}
<1>1. IInv /\ [Next]_vars => [Death]_vars
    BY DeathStep DEF Next
<1>2. QED
    BY <1>1, Invariance, PTL DEF Spec, JoinAfterDeath

\* _pthread_internal_remove_locked, which writes to thread->next->prev without
\* a test, always finds a successor as long as nobody joins or detaches the
\* initial thread.
THEOREM RemovedAlwaysHasNext ==
    ASSUME Interrupted = {}, Main \notin Managed
    PROVE  Spec => []RemovedHasNext
<1>1. Init => MainOK
    BY DescsAssumption DEF Init, MainOK
<1>2. IInv /\ MainOK /\ [Next]_vars => MainOK'
    BY MainStep DEF Next, MainOK, vars
<1>3. ASSUME IInv, MainOK PROVE RemovedHasNext
  <2>1. SUFFICES ASSUME NEW i \in DOMAIN list,
                        \/ pc[list[i]] = "remove"
                        \/ list[i] \in Managed /\ pc[list[i]] = "dead"
                 PROVE  i < Len(list)
    BY DEF RemovedHasNext
  <2>2. list[i] # Main
    BY <1>3, <2>1 DEF MainOK
  <2>3. i \in 1 .. Len(list) /\ i # Len(list) /\ Len(list) \in Nat
    BY <1>3, <2>1, <2>2 DEF IInv, Vars, MainOK
  <2>4. QED
    BY <2>3
<1>4. QED
    BY <1>1, <1>2, <1>3, Invariance, PTL DEF Spec
=============================================================================
