---------------------------- MODULE LkKernelProofs ----------------------------
(***************************************************************************)
(* Proofs about LkKernel, for every finite set of threads, every choice of *)
(* those of low priority and every time slice: run queues and wait queues  *)
(* are exact, the count of the mutex is, and nobody waits for something    *)
(* that has happened already.                                              *)
(***************************************************************************)
EXTENDS LkKernel, FiniteSetTheorems, SequenceTheorems, WellFoundedInduction,
    TLAPS

----------------------------------------------------------------------------
(* Queues as sequences in which a thread stands at most once.              *)

LEMMA NotEmpty ==
    ASSUME NEW S, NEW s \in Seq(S)
    PROVE  s # <<>> <=> Range(s) # {}
<1>1. CASE s = <<>>
    BY <1>1 DEF Range
<1>2. CASE s # <<>>
  <2>1. Len(s) \in Nat /\ Len(s) # 0 /\ DOMAIN s = 1 .. Len(s)
    BY <1>2, EmptySeq
  <2>2. 1 \in DOMAIN s
    BY <2>1
  <2> QED BY <1>2, <2>2 DEF Range
<1> QED BY <1>1, <1>2

\* list_add_head.
LEMMA PutAtHead ==
    ASSUME NEW S, NEW s \in Seq(S), NEW x \in S, x \notin Range(s), IsInjective(s)
    PROVE  LET r == <<x>> \o s
           IN  r \in Seq(S) /\ IsInjective(r) /\ Range(r) = Range(s) \cup {x} /\ r # <<>>
<1> DEFINE r == <<x>> \o s
<1>1. /\ r \in Seq(S) /\ Len(r) = Len(s) + 1 /\ r[1] = x
      /\ \A i \in 1 .. Len(s) : r[i + 1] = s[i]
    OBVIOUS
<1> HIDE DEF r
<1>2. Len(s) \in Nat /\ DOMAIN s = 1 .. Len(s) /\ DOMAIN r = 1 .. Len(s) + 1
    BY <1>1
<1>3. \A i \in DOMAIN r : i = 1 \/ (i - 1 \in DOMAIN s /\ r[i] = s[i - 1])
  <2>1. ASSUME NEW i \in DOMAIN r, i # 1
        PROVE  i - 1 \in DOMAIN s /\ r[i] = s[i - 1]
    <3>1. i - 1 \in 1 .. Len(s) /\ (i - 1) + 1 = i
      BY <1>2, <2>1
    <3> QED BY <1>1, <1>2, <3>1
  <2> QED BY <2>1
<1>4. Range(r) = Range(s) \cup {x}
  <2>1. Range(r) \subseteq Range(s) \cup {x}
    BY <1>1, <1>3 DEF Range
  <2>2. x \in Range(r)
    BY <1>1, <1>2 DEF Range
  <2>3. \A i \in DOMAIN s : s[i] = r[i + 1] /\ i + 1 \in DOMAIN r
    BY <1>1, <1>2
  <2>4. Range(s) \subseteq Range(r)
    BY <2>3 DEF Range
  <2> QED BY <2>1, <2>2, <2>4
<1>5. IsInjective(r)
  <2>1. ASSUME NEW i \in DOMAIN r, NEW j \in DOMAIN r, r[i] = r[j]
        PROVE  i = j
    <3>1. CASE i = 1 /\ j = 1
      BY <3>1
    <3>2. CASE i = 1 /\ j # 1
      BY <1>1, <1>3, <2>1, <3>2 DEF Range
    <3>3. CASE i # 1 /\ j = 1
      BY <1>1, <1>3, <2>1, <3>3 DEF Range
    <3>4. CASE i # 1 /\ j # 1
      <4>1. i - 1 \in DOMAIN s /\ j - 1 \in DOMAIN s /\ s[i - 1] = s[j - 1]
        BY <1>3, <2>1, <3>4
      <4>2. i - 1 = j - 1
        BY <4>1 DEF IsInjective
      <4> QED BY <1>2, <4>2
    <3> QED BY <3>1, <3>2, <3>3, <3>4
  <2> QED BY <2>1 DEF IsInjective
<1> QED BY <1>1, <1>2, <1>4, <1>5 DEF r

\* list_add_tail.
LEMMA PutAtTail ==
    ASSUME NEW S, NEW s \in Seq(S), NEW x \in S, x \notin Range(s), IsInjective(s)
    PROVE  LET r == Append(s, x)
           IN  /\ r \in Seq(S) /\ IsInjective(r) /\ Range(r) = Range(s) \cup {x}
               /\ r # <<>> /\ Len(r) = Len(s) + 1
<1> DEFINE r == Append(s, x)
<1>1. /\ r \in Seq(S) /\ Len(r) = Len(s) + 1 /\ r[Len(s) + 1] = x
      /\ \A i \in 1 .. Len(s) : r[i] = s[i]
    OBVIOUS
<1> HIDE DEF r
<1>2. Len(s) \in Nat /\ DOMAIN s = 1 .. Len(s) /\ DOMAIN r = 1 .. Len(s) + 1
    BY <1>1
<1>3. \A i \in DOMAIN r : i = Len(s) + 1 \/ (i \in DOMAIN s /\ r[i] = s[i])
    BY <1>1, <1>2
<1>4. Range(r) = Range(s) \cup {x}
  <2>1. Range(r) \subseteq Range(s) \cup {x}
    BY <1>1, <1>3 DEF Range
  <2>2. x \in Range(r)
    BY <1>1, <1>2 DEF Range
  <2>3. \A i \in DOMAIN s : s[i] = r[i] /\ i \in DOMAIN r
    BY <1>1, <1>2
  <2>4. Range(s) \subseteq Range(r)
    BY <2>3 DEF Range
  <2> QED BY <2>1, <2>2, <2>4
<1>5. IsInjective(r)
    BY <1>1, <1>2, <1>3 DEF IsInjective, Range
<1> QED BY <1>1, <1>2, <1>4, <1>5 DEF r

\* list_remove_head.
LEMMA TakeHead ==
    ASSUME NEW S, NEW s \in Seq(S), s # <<>>, IsInjective(s)
    PROVE  LET r == Tail(s)
           IN  /\ r \in Seq(S) /\ IsInjective(r) /\ Range(r) = Range(s) \ {Head(s)}
               /\ Head(s) \in Range(s) /\ Head(s) \in S /\ Len(r) = Len(s) - 1
               /\ r = <<>> <=> Len(s) = 1
<1> DEFINE r == Tail(s)
<1>1. /\ r \in Seq(S) /\ Len(s) \in Nat \ {0} /\ Len(r) = Len(s) - 1
      /\ Head(s) = s[1] /\ Head(s) \in S
      /\ \A i \in 1 .. Len(s) - 1 : r[i] = s[i + 1]
    OBVIOUS
<1> HIDE DEF r
<1>2. DOMAIN s = 1 .. Len(s) /\ DOMAIN r = 1 .. Len(s) - 1 /\ 1 \in DOMAIN s
    BY <1>1
<1>3. \A i \in DOMAIN r : i + 1 \in DOMAIN s /\ i + 1 # 1 /\ r[i] = s[i + 1]
    BY <1>1, <1>2
<1>4. \A i \in DOMAIN s : i # 1 => i - 1 \in DOMAIN r /\ r[i - 1] = s[i]
  <2>1. ASSUME NEW i \in DOMAIN s, i # 1
        PROVE  i - 1 \in DOMAIN r /\ r[i - 1] = s[i]
    <3>1. i - 1 \in 1 .. Len(s) - 1 /\ (i - 1) + 1 = i
      BY <1>1, <1>2, <2>1
    <3> QED BY <1>1, <1>2, <3>1
  <2> QED BY <2>1
<1>5. Range(r) = Range(s) \ {Head(s)}
  <2>1. \A i \in DOMAIN r : r[i] \in Range(s) /\ r[i] # s[1]
    BY <1>2, <1>3 DEF Range, IsInjective
  <2>2. \A i \in DOMAIN s : s[i] # s[1] => s[i] \in Range(r)
    BY <1>4 DEF Range
  <2> QED BY <1>1, <2>1, <2>2 DEF Range
<1>6. IsInjective(r)
  <2>1. ASSUME NEW i \in DOMAIN r, NEW j \in DOMAIN r, r[i] = r[j]
        PROVE  i = j
    <3>1. i + 1 = j + 1
      BY <1>3, <2>1 DEF IsInjective
    <3> QED BY <1>1, <1>2, <3>1
  <2> QED BY <2>1 DEF IsInjective
<1>7. r = <<>> <=> Len(s) = 1
    BY <1>1
<1> QED BY <1>1, <1>2, <1>5, <1>6, <1>7 DEF r, Range

\* list_delete.
LEMMA TakeOut ==
    ASSUME NEW S, NEW s \in Seq(S), NEW x \in Range(s), IsInjective(s)
    PROVE  LET r == Removed(s, x)
           IN  /\ r \in Seq(S) /\ IsInjective(r) /\ Range(r) = Range(s) \ {x}
               /\ Len(r) = Len(s) - 1
<1> DEFINE r == Removed(s, x)
           n == Len(s)
<1>1. PICK i \in DOMAIN s : s[i] = x /\ r = SubSeq(s, 1, i - 1) \o SubSeq(s, i + 1, n)
    BY DEF Removed, Range
<1>2. n \in Nat /\ i \in 1 .. n /\ DOMAIN s = 1 .. n
    BY <1>1
<1> DEFINE front == SubSeq(s, 1, i - 1)
           back == SubSeq(s, i + 1, n)
<1>3. /\ front \in Seq(S) /\ Len(front) = i - 1
      /\ \A j \in 1 .. i - 1 : front[j] = s[j]
    BY <1>2
<1>4. /\ back \in Seq(S) /\ Len(back) = n - i
      /\ \A j \in 1 .. n - i : back[j] = s[i + j]
    BY <1>2
<1>5. r = front \o back
    BY <1>1
<1> HIDE DEF front, back, r
<1>6. r \in Seq(S) /\ Len(r) = n - 1
  <2>0. front \in Seq(S) /\ back \in Seq(S)
    BY <1>3, <1>4
  <2>1. r \in Seq(S) /\ Len(r) = Len(front) + Len(back)
    BY <1>5, <2>0
  <2> QED BY <1>2, <1>3, <1>4, <2>1
<1>7. \A j \in 1 .. n - 1 : r[j] = IF j < i THEN s[j] ELSE s[j + 1]
  <2>1. \A j \in 1 .. n - 1 : r[j] = IF j <= i - 1 THEN front[j] ELSE back[j - (i - 1)]
    BY <1>2, <1>3, <1>4, <1>5, ConcatProperties
  <2>2. ASSUME NEW j \in 1 .. n - 1, j >= i
        PROVE  back[j - (i - 1)] = s[j + 1]
    <3>1. j - (i - 1) \in 1 .. n - i /\ i + (j - (i - 1)) = j + 1
      BY <1>2, <2>2
    <3> QED BY <1>4, <3>1
  <2> QED BY <1>2, <1>3, <2>1, <2>2
<1>8. \A j \in 1 .. n : s[j] = x => j = i
    BY <1>1, <1>2 DEF IsInjective
<1>9. IsInjective(r)
  <2>1. ASSUME NEW a \in 1 .. n - 1, NEW b \in 1 .. n - 1, r[a] = r[b]
        PROVE  a = b
    BY <1>2, <1>7, <2>1 DEF IsInjective
  <2> QED BY <1>2, <1>6, <2>1 DEF IsInjective
<1>10. Range(r) = Range(s) \ {x}
  <2>1. ASSUME NEW a \in DOMAIN r
        PROVE  r[a] \in Range(s) \ {x}
    <3>1. a \in 1 .. n - 1
      BY <1>2, <1>6
    <3>2. CASE a < i
      BY <1>2, <1>7, <1>8, <3>1, <3>2 DEF Range
    <3>3. CASE a >= i
      BY <1>2, <1>7, <1>8, <3>1, <3>3 DEF Range
    <3> QED BY <1>2, <3>1, <3>2, <3>3
  <2>2. ASSUME NEW a \in DOMAIN s, s[a] # x
        PROVE  s[a] \in Range(r)
    <3>1. a \in 1 .. n /\ a # i
      BY <1>1, <1>2, <2>2
    <3>2. CASE a < i
      <4>1. a \in 1 .. n - 1 /\ r[a] = s[a]
        BY <1>2, <1>7, <3>1, <3>2
      <4> QED BY <1>6, <4>1 DEF Range
    <3>3. CASE a > i
      <4>1. a - 1 \in 1 .. n - 1 /\ a - 1 >= i /\ (a - 1) + 1 = a
        BY <1>2, <3>1, <3>3
      <4>2. r[a - 1] = s[a]
        BY <1>2, <1>7, <4>1
      <4> QED BY <1>6, <4>1, <4>2 DEF Range
    <3> QED BY <1>2, <3>1, <3>2, <3>3
  <2> QED BY <2>1, <2>2 DEF Range
<1> QED BY <1>6, <1>9, <1>10 DEF r

\* One queue before another.
LEMMA PutBefore ==
    ASSUME NEW S, NEW s \in Seq(S), NEW u \in Seq(S), IsInjective(s), IsInjective(u),
           Range(s) \cap Range(u) = {}
    PROVE  LET r == s \o u
           IN  r \in Seq(S) /\ IsInjective(r) /\ Range(r) = Range(s) \cup Range(u)
<1> DEFINE r == s \o u
<1>1. /\ r \in Seq(S) /\ Len(r) = Len(s) + Len(u) /\ Len(s) \in Nat /\ Len(u) \in Nat
      /\ \A i \in 1 .. Len(s) + Len(u) : r[i] = IF i <= Len(s) THEN s[i] ELSE u[i - Len(s)]
    BY ConcatProperties
<1>2. Range(r) = Range(s) \cup Range(u)
    BY RangeConcatenation
<1> HIDE DEF r
<1>3. DOMAIN s = 1 .. Len(s) /\ DOMAIN u = 1 .. Len(u) /\ DOMAIN r = 1 .. Len(s) + Len(u)
    BY <1>1
<1>4. ASSUME NEW i \in DOMAIN r
      PROVE  \/ i \in DOMAIN s /\ r[i] = s[i] /\ r[i] \in Range(s)
             \/ i - Len(s) \in DOMAIN u /\ r[i] = u[i - Len(s)] /\ r[i] \in Range(u)
  <2>1. CASE i <= Len(s)
    BY <1>1, <1>3, <2>1 DEF Range
  <2>2. CASE i > Len(s)
    <3>1. i - Len(s) \in 1 .. Len(u) /\ r[i] = u[i - Len(s)]
      BY <1>1, <1>3, <2>2
    <3> QED BY <1>3, <3>1 DEF Range
  <2> QED BY <1>1, <1>3, <2>1, <2>2
<1>5. IsInjective(r)
  <2>1. ASSUME NEW i \in DOMAIN r, NEW j \in DOMAIN r, r[i] = r[j]
        PROVE  i = j
    <3>1. CASE i \in DOMAIN s /\ r[i] = s[i] /\ r[i] \in Range(s)
      <4>1. j \in DOMAIN s /\ r[j] = s[j]
        BY <1>4, <2>1, <3>1
      <4> QED BY <2>1, <3>1, <4>1 DEF IsInjective
    <3>2. CASE i - Len(s) \in DOMAIN u /\ r[i] = u[i - Len(s)] /\ r[i] \in Range(u)
      <4>1. j - Len(s) \in DOMAIN u /\ r[j] = u[j - Len(s)]
        BY <1>4, <2>1, <3>2
      <4>2. i - Len(s) = j - Len(s)
        BY <2>1, <3>2, <4>1 DEF IsInjective
      <4> QED BY <1>1, <1>3, <4>2
    <3> QED BY <1>4, <3>1, <3>2
  <2> QED BY <2>1 DEF IsInjective
<1> QED BY <1>1, <1>2, <1>5 DEF r

\* A set of numbers has a least member: how these proofs do induction.
LEMMA LeastNumber ==
    ASSUME NEW T \in SUBSET Nat, T # {}
    PROVE  \E m \in T : \A n \in T : m <= n
<1>1. PICK m \in T : \A n \in T : ~ (<<n, m>> \in OpToRel(<, Nat))
    BY NatLessThanWellFounded, WFMin
<1>2. \A n \in T : ~ (n < m)
    BY <1>1 DEF OpToRel
<1> QED BY <1>2

\* The order that wait_queue_wake_all makes exists: n threads of the queue
\* have been put at the head of the run queue, one after the other.
LEMMA LastFirstExists ==
    ASSUME NEW queue \in Seq(All), IsInjective(queue), NEW p \in Priorities,
           NEW n \in 0 .. Len(queue)
    PROVE  \E s \in Seq(All) :
                /\ Range(s) = {queue[i] : i \in {j \in 1 .. n : Priority(queue[j]) = p}}
                /\ \A i, j \in DOMAIN s : i < j => Later(queue, s[i], s[j])
<1> DEFINE Who(m) == {queue[i] : i \in {j \in 1 .. m : Priority(queue[j]) = p}}
           Good(s, m) == /\ Range(s) = Who(m)
                         /\ \A i, j \in DOMAIN s : i < j => Later(queue, s[i], s[j])
           Bad == {m \in 0 .. Len(queue) : ~ \E s \in Seq(All) : Good(s, m)}
<1>0. Len(queue) \in Nat /\ DOMAIN queue = 1 .. Len(queue)
    OBVIOUS
<1>1. SUFFICES ASSUME Bad # {} PROVE FALSE
    BY <1>1
<1>2. PICK m \in Bad : \A j \in Bad : m <= j
  <2>1. Bad \in SUBSET Nat
    BY <1>0
  <2> HIDE DEF Bad
  <2> QED BY <1>1, <2>1, LeastNumber
<1>3. m \in 0 .. Len(queue) /\ ~ \E s \in Seq(All) : Good(s, m)
    OBVIOUS
<1>4. m # 0
  <2>1. SUFFICES ASSUME m = 0 PROVE FALSE
    OBVIOUS
  <2>2. Who(0) = {} /\ <<>> \in Seq(All) /\ Range(<<>>) = {} /\ DOMAIN <<>> = {}
    BY DEF Range
  <2> QED BY <1>3, <2>1, <2>2
<1>5. m - 1 \in 0 .. Len(queue) /\ m \in 1 .. Len(queue)
    BY <1>0, <1>3, <1>4
<1>6. m - 1 \notin Bad
  <2>1. ~ (m <= m - 1)
    BY <1>5
  <2> HIDE DEF Bad
  <2> QED BY <1>2, <2>1
<1>7. PICK s \in Seq(All) : Good(s, m - 1)
    BY <1>5, <1>6
<1>8. 1 .. m = (1 .. m - 1) \cup {m}
    BY <1>5
<1>9. CASE Priority(queue[m]) # p
  <2>1. Who(m) = Who(m - 1)
    BY <1>8, <1>9
  <2> QED BY <1>3, <1>7, <2>1
<1>10. CASE Priority(queue[m]) = p
  <2> DEFINE r == <<queue[m]>> \o s
  <2>1. Who(m) = Who(m - 1) \cup {queue[m]}
    BY <1>8, <1>10
  <2>2. queue[m] \in All
    BY <1>0, <1>5
  <2>3. /\ r \in Seq(All) /\ Len(r) = Len(s) + 1 /\ r[1] = queue[m]
        /\ \A i \in 1 .. Len(s) : r[i + 1] = s[i]
    BY <2>2
  <2> HIDE DEF r
  <2>4. Len(s) \in Nat /\ DOMAIN s = 1 .. Len(s) /\ DOMAIN r = 1 .. Len(s) + 1
    BY <2>3
  <2>5. \A i \in DOMAIN r : i = 1 \/ (i - 1 \in DOMAIN s /\ r[i] = s[i - 1])
    <3>1. ASSUME NEW i \in DOMAIN r, i # 1
          PROVE  i - 1 \in DOMAIN s /\ r[i] = s[i - 1]
      <4>1. i - 1 \in 1 .. Len(s) /\ (i - 1) + 1 = i
        BY <2>4, <3>1
      <4> QED BY <2>3, <2>4, <4>1
    <3> QED BY <3>1
  <2>6. Range(r) = Who(m)
    <3>1. Range(r) \subseteq Range(s) \cup {queue[m]}
      BY <2>3, <2>5 DEF Range
    <3>2. queue[m] \in Range(r)
      <4>1. 1 \in DOMAIN r
        BY <2>4
      <4> QED BY <2>3, <4>1 DEF Range
    <3>3. \A i \in DOMAIN s : s[i] = r[i + 1] /\ i + 1 \in DOMAIN r
      BY <2>3, <2>4
    <3>4. Range(s) \subseteq Range(r)
      BY <3>3 DEF Range
    <3> HIDE DEF Who
    <3> QED BY <1>7, <2>1, <3>1, <3>2, <3>4
  <2>7. ASSUME NEW i \in DOMAIN r, NEW j \in DOMAIN r, i < j
        PROVE  Later(queue, r[i], r[j])
    <3>1. j - 1 \in DOMAIN s /\ r[j] = s[j - 1]
      BY <2>4, <2>5, <2>7
    <3>2. CASE i = 1
      <4>1. s[j - 1] \in Who(m - 1)
        BY <1>7, <3>1 DEF Range
      <4>2. PICK l \in 1 .. m - 1 : queue[l] = s[j - 1]
        BY <4>1
      <4>3. m \in DOMAIN queue /\ l \in DOMAIN queue /\ m > l
        BY <1>0, <1>5
      <4> QED BY <2>3, <3>1, <3>2, <4>2, <4>3 DEF Later
    <3>3. CASE i # 1
      <4>1. i - 1 \in DOMAIN s /\ r[i] = s[i - 1] /\ i - 1 < j - 1
        BY <2>4, <2>5, <2>7, <3>3
      <4> QED BY <1>7, <3>1, <4>1
    <3> QED BY <3>2, <3>3
  <2> QED BY <1>3, <2>3, <2>6, <2>7
<1> QED BY <1>9, <1>10

\* The order of wait_queue_wake_all: each of the threads once.
LEMMA LastFirstFacts ==
    ASSUME NEW queue \in Seq(All), IsInjective(queue), NEW p \in Priorities
    PROVE  LET r == LastFirst(queue, p)
           IN  /\ r \in Seq(All) /\ IsInjective(r)
               /\ Range(r) = {t \in Range(queue) : Priority(t) = p}
<1> DEFINE who == {t \in Range(queue) : Priority(t) = p}
           n == Cardinality(who)
           Sorted(s) == /\ Range(s) = who
                        /\ \A i, j \in 1 .. n : i < j => Later(queue, s[i], s[j])
           r == LastFirst(queue, p)
<1>0. Len(queue) \in Nat /\ DOMAIN queue = 1 .. Len(queue)
    OBVIOUS
<1>1. PICK s \in Seq(All) :
        /\ Range(s) = {queue[i] : i \in {j \in 1 .. Len(queue) : Priority(queue[j]) = p}}
        /\ \A i, j \in DOMAIN s : i < j => Later(queue, s[i], s[j])
  <2>1. Len(queue) \in 0 .. Len(queue)
    BY <1>0
  <2> QED BY <2>1, LastFirstExists
<1>2. Range(s) = who
    BY <1>0, <1>1 DEF Range
<1>3. \A t, u \in All : Later(queue, t, u) => t # u
    BY <1>0 DEF Later, IsInjective
<1>4. Len(s) \in Nat /\ DOMAIN s = 1 .. Len(s) /\ \A i \in DOMAIN s : s[i] \in All
    OBVIOUS
<1>5. IsInjective(s)
    BY <1>1, <1>3, <1>4 DEF IsInjective
<1>6. IsFiniteSet(who) /\ n = Len(s)
  <2>1. s \in [1 .. Len(s) -> who]
    BY <1>2, <1>4 DEF Range
  <2>2. s \in Injection(1 .. Len(s), who) /\ s \in Surjection(1 .. Len(s), who)
    BY <1>2, <1>4, <1>5, <2>1 DEF Injection, Surjection, Range
  <2>3. IsFiniteSet(1 .. Len(s)) /\ Cardinality(1 .. Len(s)) = Len(s)
    <3>1. 1 \in Int /\ Len(s) \in Int
      BY <1>4
    <3>2. /\ IsFiniteSet(1 .. Len(s))
          /\ Cardinality(1 .. Len(s)) = IF 1 > Len(s) THEN 0 ELSE Len(s) - 1 + 1
      BY <3>1, FS_Interval
    <3> QED BY <1>4, <3>2
  <2> HIDE DEF who
  <2>4. IsFiniteSet(who) /\ Cardinality(who) = Cardinality(1 .. Len(s))
    BY <2>2, <2>3, FS_Surjection
  <2> QED BY <2>3, <2>4
<1> HIDE DEF who, n
<1>7. s \in [1 .. n -> who] /\ Sorted(s)
    BY <1>1, <1>2, <1>4, <1>6 DEF Range
<1>8. r \in [1 .. n -> who] /\ Sorted(r)
  <2>1. r = CHOOSE u \in [1 .. n -> who] : Sorted(u)
    BY DEF LastFirst, who, n
  <2> QED BY <1>7, <2>1
<1> HIDE DEF r
<1>9. n \in Nat /\ who \subseteq All
    BY <1>0, <1>4, <1>6 DEF who, Range
<1>10. r \in Seq(All) /\ DOMAIN r = 1 .. n /\ \A i \in DOMAIN r : r[i] \in All
    BY <1>8, <1>9
<1>11. IsInjective(r)
    BY <1>3, <1>8, <1>9, <1>10 DEF IsInjective
<1> QED BY <1>8, <1>10, <1>11 DEF r, who

----------------------------------------------------------------------------
(* The scheduler.  SchedOK is what its queues promise at any moment, also  *)
(* between a thread's leaving the CPU and the next one's getting it.       *)

\* READY threads are in the run queue of their priority, once.
RunqOK(kk) ==
    \A p \in Priorities :
        /\ IsInjective(kk.runq[p])
        /\ \A t \in All :
              t \in Range(kk.runq[p]) <=> kk.state[t] = "READY" /\ Priority(t) = p

BitmapOK(kk) == kk.bitmap = {p \in Priorities : kk.runq[p] # <<>>}

SchedOK(kk) == kk \in Scheds /\ RunqOK(kk) /\ BitmapOK(kk)

\* The threads that run are those of R: the current one, or none.
Runs(kk, R) == \A t \in All : kk.state[t] = "RUNNING" <=> t \in R

\* What is left of the states when running and being ready are one.
Modes(kk) ==
    [t \in All |-> IF kk.state[t] \in {"READY", "RUNNING"} THEN "AWAKE" ELSE kk.state[t]]

LEMMA SchedFields ==
    ASSUME NEW kk \in Scheds
    PROVE  /\ kk.current \in All /\ kk.state \in [All -> States]
           /\ kk.runq \in [Priorities -> Seq(All)] /\ kk.bitmap \in SUBSET Priorities
           /\ kk.quantum \in [Threads -> 0 .. Quantum]
           /\ kk.wait \in [Queues -> Seq(All)] /\ kk.ret \in [All -> Results]
BY DEF Scheds

LEMMA AllFacts == Threads \subseteq All /\ Idle \in All /\ Dpc \in All /\ IsFiniteSet(All)
                  /\ Idle \notin Threads /\ Dpc \notin Threads /\ Idle # Dpc
<1>1. IsFiniteSet({Idle, Dpc})
  <2>1. {Idle, Dpc} = {Idle} \cup {Dpc}
    OBVIOUS
  <2>2. IsFiniteSet({Idle})
    BY FS_Singleton
  <2>3. IsFiniteSet({Idle} \cup {Dpc})
    BY <2>2, FS_AddElement
  <2> QED BY <2>1, <2>3
<1>2. IsFiniteSet(All)
    BY <1>1, LkThreadsAssumption, FS_Union DEF All
<1> QED BY <1>2, LkThreadsAssumption DEF All, Idle, Dpc

LEMMA PriorityType == \A t \in All : Priority(t) \in Priorities
BY DEF Priority, Priorities, All

\* insert_in_run_queue_head and insert_in_run_queue_tail, field by field.
LEMMA ReadyFields ==
    ASSUME NEW kk \in Scheds, NEW t \in All, NEW r \in {ReadyAtHead(kk, t), ReadyAtTail(kk, t)}
    PROVE  /\ r \in Scheds
           /\ r.state = [kk.state EXCEPT ![t] = "READY"]
           /\ \/ r.runq = [kk.runq EXCEPT ![Priority(t)] = <<t>> \o @]
              \/ r.runq = [kk.runq EXCEPT ![Priority(t)] = Append(@, t)]
           /\ r.bitmap = kk.bitmap \cup {Priority(t)}
           /\ r.current = kk.current /\ r.quantum = kk.quantum
           /\ r.wait = kk.wait /\ r.ret = kk.ret
<1>1. Priority(t) \in Priorities
    BY PriorityType
<1>2. kk.runq[Priority(t)] \in Seq(All)
    BY <1>1, SchedFields
<1>3. <<t>> \o kk.runq[Priority(t)] \in Seq(All) /\ Append(kk.runq[Priority(t)], t) \in Seq(All)
    BY <1>2
<1>4. CASE r = ReadyAtHead(kk, t)
    BY <1>1, <1>3, <1>4 DEF ReadyAtHead, Scheds, States
<1>5. CASE r = ReadyAtTail(kk, t)
    BY <1>1, <1>3, <1>5 DEF ReadyAtTail, Scheds, States
<1> QED BY <1>4, <1>5

\* They keep the run queues exact, and nobody else's state changes.
LEMMA ReadyOK ==
    ASSUME NEW kk, SchedOK(kk), NEW t \in All, kk.state[t] # "READY",
           NEW r \in {ReadyAtHead(kk, t), ReadyAtTail(kk, t)}
    PROVE  SchedOK(r)
<1>0. kk \in Scheds
    BY DEF SchedOK
<1> DEFINE p == Priority(t)
<1>1. p \in Priorities
    BY PriorityType
<1>2. kk.runq \in [Priorities -> Seq(All)] /\ kk.state \in [All -> States]
    BY <1>0, SchedFields
<1>3. /\ r \in Scheds /\ r.state = [kk.state EXCEPT ![t] = "READY"]
      /\ r.bitmap = kk.bitmap \cup {p}
      /\ \/ r.runq = [kk.runq EXCEPT ![p] = <<t>> \o @]
         \/ r.runq = [kk.runq EXCEPT ![p] = Append(@, t)]
    BY <1>0, ReadyFields
<1> HIDE DEF p
<1>4. t \notin Range(kk.runq[p]) /\ IsInjective(kk.runq[p]) /\ kk.runq[p] \in Seq(All)
    BY <1>1, <1>2 DEF SchedOK, RunqOK
<1>5. r.runq[p] = <<t>> \o kk.runq[p] \/ r.runq[p] = Append(kk.runq[p], t)
    BY <1>1, <1>2, <1>3
<1>6. \A o \in Priorities : o # p => r.runq[o] = kk.runq[o]
    BY <1>1, <1>2, <1>3
<1>7. /\ IsInjective(r.runq[p]) /\ r.runq[p] # <<>>
      /\ Range(r.runq[p]) = Range(kk.runq[p]) \cup {t}
  <2>1. CASE r.runq[p] = <<t>> \o kk.runq[p]
    <3> DEFINE s == kk.runq[p]
    <3> HIDE DEF s
    <3>1. LET h == <<t>> \o s
          IN  h # <<>> /\ IsInjective(h) /\ Range(h) = Range(s) \cup {t}
      BY <1>4, PutAtHead DEF s
    <3> QED BY <2>1, <3>1 DEF s
  <2>2. CASE r.runq[p] = Append(kk.runq[p], t)
    <3> DEFINE s == kk.runq[p]
    <3> HIDE DEF s
    <3>1. LET h == Append(s, t)
          IN  h # <<>> /\ IsInjective(h) /\ Range(h) = Range(s) \cup {t}
      BY <1>4, PutAtTail DEF s
    <3> QED BY <2>2, <3>1 DEF s
  <2> QED BY <1>5, <2>1, <2>2
<1>8. RunqOK(r)
  <2>1. ASSUME NEW o \in Priorities
        PROVE  /\ IsInjective(r.runq[o])
               /\ \A u \in All : u \in Range(r.runq[o]) <=> r.state[u] = "READY" /\ Priority(u) = o
    <3>1. CASE o = p
      BY <1>1, <1>2, <1>3, <1>7, <3>1 DEF SchedOK, RunqOK, p
    <3>2. CASE o # p
      BY <1>2, <1>3, <1>6, <3>2 DEF SchedOK, RunqOK, p
    <3> QED BY <3>1, <3>2
  <2> QED BY <2>1 DEF RunqOK
<1>9. BitmapOK(r)
    BY <1>1, <1>3, <1>6, <1>7 DEF SchedOK, BitmapOK
<1> QED BY <1>3, <1>8, <1>9 DEF SchedOK

\* thread_resched: somebody gets the CPU, if somebody is READY.
LEMMA ReschedOK ==
    ASSUME NEW kk, SchedOK(kk), NEW w \in All, kk.state[w] = "READY"
    PROVE  \E t \in All :
              LET r == Resched[kk]
              IN  /\ SchedOK(r) /\ kk.state[t] = "READY" /\ r.current = t
                  /\ r.state = [kk.state EXCEPT ![t] = "RUNNING"]
                  /\ r.wait = kk.wait /\ r.ret = kk.ret
<1> DEFINE p == Highest(kk)
           t == Head(kk.runq[p])
           r == Resched[kk]
<1>0. kk \in Scheds
    BY DEF SchedOK
<1>1. /\ kk.runq \in [Priorities -> Seq(All)] /\ kk.state \in [All -> States]
      /\ kk.bitmap \in SUBSET Priorities
    BY <1>0, SchedFields
<1>2. Priority(w) \in kk.bitmap
  <2>1. Priority(w) \in Priorities
    BY PriorityType
  <2>2. w \in Range(kk.runq[Priority(w)])
    BY <2>1 DEF SchedOK, RunqOK
  <2>3. kk.runq[Priority(w)] # <<>>
    BY <2>2 DEF Range
  <2> QED BY <2>1, <2>3 DEF SchedOK, BitmapOK
<1>3. p \in kk.bitmap
  <2> DEFINE B == kk.bitmap
  <2>0. B \subseteq {0, 1, 2, 3} /\ B # {}
    BY <1>1, <1>2 DEF Priorities
  <2> HIDE DEF B
  <2>1. \E o \in B : \A u \in B : u <= o
    <3>1. CASE 3 \in B
      BY <2>0, <3>1
    <3>2. CASE 3 \notin B /\ 2 \in B
      BY <2>0, <3>2
    <3>3. CASE 3 \notin B /\ 2 \notin B /\ 1 \in B
      BY <2>0, <3>3
    <3>4. CASE 3 \notin B /\ 2 \notin B /\ 1 \notin B
      <4>1. B = {0}
        BY <2>0, <3>4
      <4> QED BY <4>1
    <3> QED BY <3>1, <3>2, <3>3, <3>4
  <2> QED BY <2>1 DEF Highest, B
<1>4. p \in Priorities /\ kk.runq[p] \in Seq(All) /\ kk.runq[p] # <<>> /\ IsInjective(kk.runq[p])
    BY <1>1, <1>3 DEF SchedOK, BitmapOK, RunqOK
<1>5. /\ Tail(kk.runq[p]) \in Seq(All) /\ IsInjective(Tail(kk.runq[p]))
      /\ Range(Tail(kk.runq[p])) = Range(kk.runq[p]) \ {t}
      /\ t \in Range(kk.runq[p]) /\ t \in All
      /\ Tail(kk.runq[p]) = <<>> <=> Len(kk.runq[p]) = 1
  <2> DEFINE s == kk.runq[p]
  <2> HIDE DEF s
  <2>1. LET h == Tail(s)
        IN  /\ h \in Seq(All) /\ IsInjective(h) /\ Range(h) = Range(s) \ {Head(s)}
            /\ Head(s) \in Range(s) /\ Head(s) \in All /\ (h = <<>> <=> Len(s) = 1)
    BY <1>4, TakeHead DEF s
  <2> QED BY <2>1 DEF s
<1>6. kk.state[t] = "READY" /\ Priority(t) = p
    BY <1>4, <1>5 DEF SchedOK, RunqOK
<1>7. /\ r.current = t /\ r.state = [kk.state EXCEPT ![t] = "RUNNING"]
      /\ r.runq = [kk.runq EXCEPT ![p] = Tail(@)]
      /\ r.bitmap = IF Len(kk.runq[p]) = 1 THEN kk.bitmap \ {p} ELSE kk.bitmap
      /\ r.wait = kk.wait /\ r.ret = kk.ret /\ r \in Scheds
  <2> DEFINE slice == IF t \in Threads \ {kk.current} /\ kk.quantum[t] = 0
                      THEN [kk.quantum EXCEPT ![t] = Quantum] ELSE kk.quantum
  <2>1. r = [kk EXCEPT !.runq[p] = Tail(@),
                       !.bitmap = IF Len(kk.runq[p]) = 1 THEN @ \ {p} ELSE @,
                       !.state[t] = "RUNNING",
                       !.quantum = slice,
                       !.current = t]
    BY <1>0 DEF Resched
  <2>2. slice \in [Threads -> 0 .. Quantum]
    BY <1>0, SchedFields, QuantumAssumption
  <2> HIDE DEF r, slice, p, t
  <2> QED BY <1>0, <1>4, <1>5, <2>1, <2>2 DEF Scheds, States
<1> HIDE DEF r, p, t
<1>8. RunqOK(r)
  <2>1. ASSUME NEW o \in Priorities
        PROVE  /\ IsInjective(r.runq[o])
               /\ \A u \in All : u \in Range(r.runq[o]) <=> r.state[u] = "READY" /\ Priority(u) = o
    <3>1. CASE o = p
      <4>1. r.runq[o] = Tail(kk.runq[p])
        BY <1>1, <1>4, <1>7, <3>1
      <4>2. \A u \in All : r.state[u] = "READY" <=> kk.state[u] = "READY" /\ u # t
        BY <1>1, <1>5, <1>7
      <4>3. IsInjective(r.runq[o]) /\ Range(r.runq[o]) = Range(kk.runq[p]) \ {t}
        BY <1>5, <4>1
      <4>4. \A u \in All : u \in Range(kk.runq[p]) <=> kk.state[u] = "READY" /\ Priority(u) = p
        BY <1>4 DEF SchedOK, RunqOK
      <4> QED BY <3>1, <4>2, <4>3, <4>4
    <3>2. CASE o # p
      <4>1. r.runq[o] = kk.runq[o]
        BY <1>1, <1>4, <1>7, <3>2
      <4> QED BY <1>1, <1>5, <1>6, <1>7, <3>2, <4>1 DEF SchedOK, RunqOK
    <3> QED BY <3>1, <3>2
  <2> QED BY <2>1 DEF RunqOK
<1>9. BitmapOK(r)
  <2>1. ASSUME NEW o \in Priorities
        PROVE  o \in r.bitmap <=> r.runq[o] # <<>>
    <3>1. CASE o = p
      <4>1. r.runq[o] = Tail(kk.runq[p])
        BY <1>1, <1>4, <1>7, <3>1
      <4>2. r.runq[o] = <<>> <=> Len(kk.runq[p]) = 1
        BY <1>5, <4>1
      <4> QED BY <1>3, <1>7, <3>1, <4>2
    <3>2. CASE o # p
      <4>1. r.runq[o] = kk.runq[o]
        BY <1>1, <1>4, <1>7, <3>2
      <4> QED BY <1>7, <3>2, <4>1 DEF SchedOK, BitmapOK
    <3> QED BY <3>1, <3>2
  <2> QED BY <1>1, <1>7, <2>1 DEF BitmapOK
<1> QED BY <1>5, <1>6, <1>7, <1>8, <1>9 DEF SchedOK, r

\* What a step leaves that touches no run queue and makes nobody READY.
LEMMA FrameOK ==
    ASSUME NEW kk, SchedOK(kk), NEW r \in Scheds, r.runq = kk.runq, r.bitmap = kk.bitmap,
           \A t \in All : r.state[t] = "READY" <=> kk.state[t] = "READY"
    PROVE  SchedOK(r)
BY DEF SchedOK, RunqOK, BitmapOK

\* The state of the CPU while a thread has it.
CpuOK(kk) == SchedOK(kk) /\ Runs(kk, {kk.current})

\* A thread that did not run gets READY.
LEMMA ReadyModes ==
    ASSUME NEW kk, SchedOK(kk), NEW t \in All, kk.state[t] # "READY",
           NEW r \in {ReadyAtHead(kk, t), ReadyAtTail(kk, t)}, NEW R, Runs(kk, R)
    PROVE  /\ SchedOK(r) /\ r.state[t] = "READY"
           /\ Runs(r, R \ {t}) /\ Modes(r) = [Modes(kk) EXCEPT ![t] = "AWAKE"]
           /\ r.current = kk.current /\ r.wait = kk.wait /\ r.ret = kk.ret
<1>1. kk \in Scheds /\ kk.state \in [All -> States]
    BY SchedFields DEF SchedOK
<1>2. /\ r.state = [kk.state EXCEPT ![t] = "READY"]
      /\ r.current = kk.current /\ r.wait = kk.wait /\ r.ret = kk.ret
    BY <1>1, ReadyFields
<1>3. SchedOK(r)
    BY ReadyOK
<1>4. Runs(r, R \ {t})
    BY <1>1, <1>2 DEF Runs
<1>5. Modes(r) = [Modes(kk) EXCEPT ![t] = "AWAKE"]
    BY <1>1, <1>2 DEF Modes
<1> QED BY <1>1, <1>2, <1>3, <1>4, <1>5

\* The CPU is given to somebody.
LEMMA SwitchOK ==
    ASSUME NEW kk, SchedOK(kk), Runs(kk, {}), NEW w \in All, kk.state[w] = "READY"
    PROVE  LET r == Resched[kk]
           IN  CpuOK(r) /\ Modes(r) = Modes(kk) /\ r.wait = kk.wait /\ r.ret = kk.ret
<1> DEFINE r == Resched[kk]
<1>1. PICK t \in All :
        /\ SchedOK(r) /\ kk.state[t] = "READY" /\ r.current = t
        /\ r.state = [kk.state EXCEPT ![t] = "RUNNING"]
        /\ r.wait = kk.wait /\ r.ret = kk.ret
    BY ReschedOK
<1> HIDE DEF r
<1>2. kk.state \in [All -> States]
    BY SchedFields DEF SchedOK
<1>3. Runs(r, {r.current})
    BY <1>1, <1>2 DEF Runs
<1>4. Modes(r) = Modes(kk)
    BY <1>1, <1>2 DEF Modes
<1> QED BY <1>1, <1>3, <1>4 DEF CpuOK, r

\* The idle thread is never blocked, so that there is always a next thread.
LEMMA LeaveOK ==
    ASSUME NEW kk, CpuOK(kk), Modes(kk)[Idle] = "AWAKE", kk.current # Idle,
           NEW r \in Scheds, NEW s \in {"BLOCKED", "SLEEPING", "DEATH"},
           r.runq = kk.runq, r.bitmap = kk.bitmap,
           r.state = [kk.state EXCEPT ![kk.current] = s]
    PROVE  /\ SchedOK(r) /\ Runs(r, {}) /\ r.state[Idle] = "READY"
           /\ Modes(r) = [Modes(kk) EXCEPT ![kk.current] = s]
<1>1. kk.current \in All /\ kk.state \in [All -> States] /\ Idle \in All
    BY SchedFields, AllFacts DEF CpuOK, SchedOK
<1>2. kk.state[kk.current] = "RUNNING"
    BY <1>1 DEF CpuOK, Runs
<1>3. SchedOK(r)
    BY <1>1, <1>2, FrameOK DEF CpuOK
<1>4. Runs(r, {}) 
    BY <1>1 DEF CpuOK, Runs
<1>5. kk.state[Idle] = "READY"
    BY <1>1 DEF CpuOK, Runs, Modes, States
<1>6. Modes(r) = [Modes(kk) EXCEPT ![kk.current] = s]
    BY <1>1 DEF Modes
<1> QED BY <1>1, <1>3, <1>4, <1>5, <1>6

\* thread_sleep, thread_exit when the dpc thread is awake.
LEMMA LeaveCpu ==
    ASSUME NEW kk, CpuOK(kk), Modes(kk)[Idle] = "AWAKE", kk.current # Idle,
           NEW s \in {"SLEEPING", "DEATH"}
    PROVE  LET r == Resched[SetState(kk, kk.current, s)]
           IN  /\ CpuOK(r) /\ Modes(r) = [Modes(kk) EXCEPT ![kk.current] = s]
               /\ r.wait = kk.wait /\ r.ret = kk.ret
<1> DEFINE r == SetState(kk, kk.current, s)
<1>1. kk \in Scheds /\ kk.current \in All
    BY SchedFields DEF CpuOK, SchedOK
<1>2. /\ r \in Scheds /\ r.runq = kk.runq /\ r.bitmap = kk.bitmap
      /\ r.wait = kk.wait /\ r.ret = kk.ret
      /\ r.state = [kk.state EXCEPT ![kk.current] = s]
    BY <1>1 DEF SetState, Scheds, States
<1> HIDE DEF r
<1>3. /\ SchedOK(r) /\ Runs(r, {}) /\ r.state[Idle] = "READY"
      /\ Modes(r) = [Modes(kk) EXCEPT ![kk.current] = s]
  <2>1. CASE s = "SLEEPING"
    BY <1>2, <2>1, LeaveOK
  <2>2. CASE s = "DEATH"
    BY <1>2, <2>2, LeaveOK
  <2> QED BY <2>1, <2>2
<1>4. LET x == Resched[r]
      IN  CpuOK(x) /\ Modes(x) = Modes(r) /\ x.wait = r.wait /\ x.ret = r.ret
    BY <1>3, AllFacts, SwitchOK
<1> QED BY <1>2, <1>3, <1>4 DEF r

\* The first half of wait_queue_block.
LEMMA BlockOK ==
    ASSUME NEW kk, CpuOK(kk), Modes(kk)[Idle] = "AWAKE", kk.current # Idle, NEW q \in Queues
    PROVE  LET r == Block(kk, q)
           IN  /\ CpuOK(r) /\ Modes(r) = [Modes(kk) EXCEPT ![kk.current] = "BLOCKED"]
               /\ r.wait = [kk.wait EXCEPT ![q] = Append(@, kk.current)]
               /\ r.ret = [kk.ret EXCEPT ![kk.current] = "NO_ERROR"]
<1> DEFINE r == [kk EXCEPT !.wait[q] = Append(@, kk.current),
                           !.state[kk.current] = "BLOCKED",
                           !.ret[kk.current] = "NO_ERROR"]
<1>1. kk \in Scheds /\ kk.current \in All /\ kk.wait[q] \in Seq(All)
    BY SchedFields DEF CpuOK, SchedOK
<1>2. Append(kk.wait[q], kk.current) \in Seq(All)
    BY <1>1
<1>3. /\ r \in Scheds /\ r.runq = kk.runq /\ r.bitmap = kk.bitmap
      /\ r.state = [kk.state EXCEPT ![kk.current] = "BLOCKED"]
      /\ r.wait = [kk.wait EXCEPT ![q] = Append(@, kk.current)]
      /\ r.ret = [kk.ret EXCEPT ![kk.current] = "NO_ERROR"]
    BY <1>1, <1>2 DEF Scheds, States, Results
<1> HIDE DEF r
<1>4. /\ SchedOK(r) /\ Runs(r, {}) /\ r.state[Idle] = "READY"
      /\ Modes(r) = [Modes(kk) EXCEPT ![kk.current] = "BLOCKED"]
    BY <1>3, LeaveOK
<1>5. LET x == Resched[r]
      IN  CpuOK(x) /\ Modes(x) = Modes(r) /\ x.wait = r.wait /\ x.ret = r.ret
    BY <1>4, AllFacts, SwitchOK
<1>6. Block(kk, q) = Resched[r]
    BY DEF Block, r
<1> QED BY <1>3, <1>4, <1>5, <1>6

\* A thread whose state has nothing to do with the CPU is created or dies.
LEMMA SetStateOK ==
    ASSUME NEW kk, CpuOK(kk), NEW t \in All, kk.state[t] \notin {"READY", "RUNNING"},
           NEW s \in {"SUSPENDED", "NONE"}
    PROVE  LET r == SetState(kk, t, s)
           IN  /\ CpuOK(r) /\ Modes(r) = [Modes(kk) EXCEPT ![t] = s]
               /\ r.current = kk.current /\ r.wait = kk.wait /\ r.ret = kk.ret
<1> DEFINE r == SetState(kk, t, s)
<1>1. kk \in Scheds /\ kk.state \in [All -> States] /\ SchedOK(kk)
    BY SchedFields DEF CpuOK, SchedOK
<1>2. /\ r \in Scheds /\ r.runq = kk.runq /\ r.bitmap = kk.bitmap
      /\ r.wait = kk.wait /\ r.ret = kk.ret /\ r.current = kk.current
      /\ r.state = [kk.state EXCEPT ![t] = s]
    BY <1>1 DEF SetState, Scheds, States
<1> HIDE DEF r
<1>3. SchedOK(r)
    BY <1>1, <1>2, FrameOK
<1>4. Runs(r, {r.current})
    BY <1>1, <1>2 DEF CpuOK, Runs
<1>5. Modes(r) = [Modes(kk) EXCEPT ![t] = s]
    BY <1>1, <1>2 DEF Modes
<1> QED BY <1>2, <1>3, <1>4, <1>5 DEF CpuOK, r

\* A thread that slept, or is new, gets READY while another one runs.
LEMMA GetReady ==
    ASSUME NEW kk, CpuOK(kk), NEW t \in All, Modes(kk)[t] # "AWAKE"
    PROVE  LET r == ReadyAtHead(kk, t)
           IN  /\ CpuOK(r) /\ Modes(r) = [Modes(kk) EXCEPT ![t] = "AWAKE"]
               /\ r.current = kk.current /\ r.wait = kk.wait /\ r.ret = kk.ret
<1> DEFINE r == ReadyAtHead(kk, t)
<1>1. kk.state[t] \notin {"READY", "RUNNING"} /\ t # kk.current
    BY DEF Modes, CpuOK, Runs
<1>2. SchedOK(kk) /\ Runs(kk, {kk.current})
    BY DEF CpuOK
<1>3. /\ SchedOK(r) /\ Runs(r, {kk.current} \ {t})
      /\ Modes(r) = [Modes(kk) EXCEPT ![t] = "AWAKE"]
      /\ r.current = kk.current /\ r.wait = kk.wait /\ r.ret = kk.ret
    BY <1>1, <1>2, ReadyModes
<1>4. {kk.current} \ {t} = {kk.current}
    BY <1>1
<1> QED BY <1>3, <1>4 DEF CpuOK

\* The current thread goes back to its run queue, and somebody gets the CPU.
LEMMA BackAndSwitch ==
    ASSUME NEW kk, CpuOK(kk), NEW b \in {ReadyAtHead(kk, kk.current), ReadyAtTail(kk, kk.current)}
    PROVE  LET r == Resched[b]
           IN  /\ SchedOK(b) /\ Runs(b, {}) /\ b.state[kk.current] = "READY"
               /\ Modes(b) = Modes(kk) /\ b.wait = kk.wait /\ b.ret = kk.ret
               /\ CpuOK(r) /\ Modes(r) = Modes(kk) /\ r.wait = kk.wait /\ r.ret = kk.ret
<1>1. /\ SchedOK(kk) /\ Runs(kk, {kk.current}) /\ kk.current \in All
      /\ kk.state \in [All -> States]
    BY SchedFields DEF CpuOK, SchedOK
<1>2. kk.state[kk.current] = "RUNNING"
    BY <1>1 DEF Runs
<1>3. /\ SchedOK(b) /\ b.state[kk.current] = "READY"
      /\ Runs(b, {kk.current} \ {kk.current})
      /\ Modes(b) = [Modes(kk) EXCEPT ![kk.current] = "AWAKE"]
      /\ b.wait = kk.wait /\ b.ret = kk.ret
  <2> DEFINE c == kk.current
  <2>1. c \in All /\ kk.state[c] # "READY" /\ b \in {ReadyAtHead(kk, c), ReadyAtTail(kk, c)}
    BY <1>1, <1>2
  <2> HIDE DEF c
  <2>2. \A R : Runs(kk, R) =>
            /\ SchedOK(b) /\ b.state[c] = "READY" /\ Runs(b, R \ {c})
            /\ Modes(b) = [Modes(kk) EXCEPT ![c] = "AWAKE"]
            /\ b.wait = kk.wait /\ b.ret = kk.ret
    <3>1. CASE b = ReadyAtHead(kk, c)
      BY <1>1, <2>1, <3>1, ReadyModes
    <3>2. CASE b = ReadyAtTail(kk, c)
      BY <1>1, <2>1, <3>2, ReadyModes
    <3> QED BY <2>1, <3>1, <3>2
  <2> QED BY <1>1, <2>2 DEF c
<1>4. {kk.current} \ {kk.current} = {}
    OBVIOUS
<1>5. Modes(b) = Modes(kk)
    BY <1>1, <1>2, <1>3 DEF Modes
<1>6. LET r == Resched[b]
      IN  CpuOK(r) /\ Modes(r) = Modes(b) /\ r.wait = b.wait /\ r.ret = b.ret
    BY <1>1, <1>3, <1>4, SwitchOK
<1> QED BY <1>3, <1>4, <1>5, <1>6

LEMMA BackAtHead ==
    ASSUME NEW kk, CpuOK(kk)
    PROVE  LET b == ReadyAtHead(kk, kk.current)
           IN  /\ SchedOK(b) /\ Runs(b, {}) /\ b.state[kk.current] = "READY"
               /\ Modes(b) = Modes(kk) /\ b.wait = kk.wait /\ b.ret = kk.ret
BY BackAndSwitch

\* A time slice changes nothing else.
LEMMA SliceOK ==
    ASSUME NEW kk, CpuOK(kk), NEW t \in Threads, NEW n \in 0 .. Quantum
    PROVE  LET r == [kk EXCEPT !.quantum[t] = n]
           IN  /\ CpuOK(r) /\ Modes(r) = Modes(kk)
               /\ r.current = kk.current /\ r.wait = kk.wait /\ r.ret = kk.ret
<1> DEFINE r == [kk EXCEPT !.quantum[t] = n]
<1>1. kk \in Scheds /\ SchedOK(kk)
    BY DEF CpuOK, SchedOK
<1>2. /\ r \in Scheds /\ r.runq = kk.runq /\ r.bitmap = kk.bitmap /\ r.state = kk.state
      /\ r.wait = kk.wait /\ r.ret = kk.ret /\ r.current = kk.current
    BY <1>1 DEF Scheds
<1> HIDE DEF r
<1>3. SchedOK(r)
    BY <1>1, <1>2, FrameOK
<1> QED BY <1>2, <1>3 DEF CpuOK, Runs, Modes, r

\* thread_yield.
LEMMA YieldOK ==
    ASSUME NEW kk, CpuOK(kk), kk.current \in Threads
    PROVE  LET r == Yield(kk)
           IN  CpuOK(r) /\ Modes(r) = Modes(kk) /\ r.wait = kk.wait /\ r.ret = kk.ret
<1> DEFINE y == [kk EXCEPT !.quantum[kk.current] = 0]
<1>1. 0 \in 0 .. Quantum
    BY QuantumAssumption
<1>2. /\ CpuOK(y) /\ Modes(y) = Modes(kk)
      /\ y.current = kk.current /\ y.wait = kk.wait /\ y.ret = kk.ret
    BY <1>1, SliceOK
<1> HIDE DEF y
<1>3. LET r == Resched[ReadyAtTail(y, y.current)]
      IN  CpuOK(r) /\ Modes(r) = Modes(y) /\ r.wait = y.wait /\ r.ret = y.ret
    BY <1>2, BackAndSwitch
<1>4. Yield(kk) = Resched[ReadyAtTail(y, y.current)]
    BY <1>2 DEF Yield, y
<1> QED BY <1>2, <1>3, <1>4

\* The end of the timer interrupt.
LEMMA PreemptOK ==
    ASSUME NEW kk, CpuOK(kk)
    PROVE  LET r == Preempt[TimerTick(kk)]
           IN  CpuOK(r) /\ Modes(r) = Modes(kk) /\ r.wait = kk.wait /\ r.ret = kk.ret
<1> DEFINE y == TimerTick(kk)
<1>1. CpuOK(y) /\ Modes(y) = Modes(kk) /\ y.wait = kk.wait /\ y.ret = kk.ret
  <2>1. CASE kk.current \notin Threads \/ kk.quantum[kk.current] = 0
    BY <2>1 DEF TimerTick
  <2>2. CASE ~ (kk.current \notin Threads \/ kk.quantum[kk.current] = 0)
    <3>1. kk.quantum[kk.current] - 1 \in 0 .. Quantum /\ kk.current \in Threads
      BY <2>2, SchedFields, QuantumAssumption DEF CpuOK, SchedOK
    <3>2. y = [kk EXCEPT !.quantum[kk.current] = kk.quantum[kk.current] - 1]
      BY <2>2, SchedFields DEF TimerTick, CpuOK, SchedOK, Scheds
    <3> HIDE DEF y
    <3> QED BY <3>1, <3>2, SliceOK
  <2> QED BY <2>1, <2>2
<1> HIDE DEF y
<1>2. Back(y) \in {ReadyAtHead(y, y.current), ReadyAtTail(y, y.current)}
    BY DEF Back
<1>3. LET r == Resched[Back(y)]
      IN  CpuOK(r) /\ Modes(r) = Modes(y) /\ r.wait = y.wait /\ r.ret = y.ret
    BY <1>1, <1>2, BackAndSwitch
<1>4. Preempt[y] = Resched[Back(y)]
    BY <1>1 DEF CpuOK, SchedOK, Preempt
<1> QED BY <1>1, <1>3, <1>4 DEF y

\* A wait queue and the result of one wait change.
Requeue(kk, q, s, t, v) == [kk EXCEPT !.wait[q] = s, !.ret[t] = v]

LEMMA WaitFrame ==
    ASSUME NEW kk, SchedOK(kk), NEW R, Runs(kk, R), NEW q \in Queues, NEW s \in Seq(All),
           NEW t \in All, NEW v \in Results
    PROVE  LET r == Requeue(kk, q, s, t, v)
           IN  /\ SchedOK(r) /\ Runs(r, R) /\ Modes(r) = Modes(kk) /\ r.current = kk.current
               /\ r.wait = [kk.wait EXCEPT ![q] = s] /\ r.ret = [kk.ret EXCEPT ![t] = v]
<1> DEFINE r == Requeue(kk, q, s, t, v)
<1>1. kk \in Scheds
    BY DEF SchedOK
<1>2. /\ r \in Scheds /\ r.runq = kk.runq /\ r.bitmap = kk.bitmap /\ r.state = kk.state
      /\ r.current = kk.current
      /\ r.wait = [kk.wait EXCEPT ![q] = s] /\ r.ret = [kk.ret EXCEPT ![t] = v]
    BY <1>1 DEF Scheds, Requeue
<1> HIDE DEF r
<1>3. SchedOK(r)
    BY <1>2, FrameOK
<1> QED BY <1>2, <1>3 DEF Runs, Modes, r

\* What a wait queue promises to those who take threads from it.
QueueOK(kk, q) ==
    /\ IsInjective(kk.wait[q])
    /\ \A t \in Range(kk.wait[q]) : Modes(kk)[t] = "BLOCKED"

\* wait_queue_wake_one.
LEMMA WakeOneOK ==
    ASSUME NEW kk, CpuOK(kk), NEW q \in Queues, QueueOK(kk, q), kk.wait[q] # <<>>,
           NEW reschedule \in BOOLEAN
    PROVE  LET r == WakeOne(kk, q, reschedule)
               t == Head(kk.wait[q])
           IN  /\ CpuOK(r) /\ Modes(r) = [Modes(kk) EXCEPT ![t] = "AWAKE"]
               /\ r.wait = [kk.wait EXCEPT ![q] = Tail(@)]
               /\ r.ret = [kk.ret EXCEPT ![t] = "NO_ERROR"]
<1> DEFINE t == Head(kk.wait[q])
           s == Tail(kk.wait[q])
           k1 == Requeue(kk, q, s, t, "NO_ERROR")
<1>1. /\ SchedOK(kk) /\ Runs(kk, {kk.current}) /\ kk.current \in All
      /\ kk.wait[q] \in Seq(All) /\ IsInjective(kk.wait[q]) /\ kk.wait \in [Queues -> Seq(All)]
    BY SchedFields DEF CpuOK, SchedOK, QueueOK
<1>2. t \in All /\ s \in Seq(All) /\ t \in Range(kk.wait[q])
    BY <1>1, TakeHead
<1>3. Modes(kk)[t] = "BLOCKED" /\ "NO_ERROR" \in Results
    BY <1>2 DEF QueueOK, Results
<1> HIDE DEF t, s
<1> DEFINE R == {kk.current}
<1>4. /\ SchedOK(k1) /\ Runs(k1, R) /\ Modes(k1) = Modes(kk)
      /\ k1.current = kk.current
      /\ k1.wait = [kk.wait EXCEPT ![q] = s] /\ k1.ret = [kk.ret EXCEPT ![t] = "NO_ERROR"]
  <2>1. Runs(kk, R)
    BY <1>1
  <2> HIDE DEF R
  <2> QED BY <1>1, <1>2, <1>3, <2>1, WaitFrame
<1> HIDE DEF k1
<1>5. CpuOK(k1)
    BY <1>4 DEF CpuOK
<1>6. WakeOne(kk, q, reschedule) =
        IF reschedule THEN Resched[ReadyAtHead(ReadyAtHead(k1, kk.current), t)]
                      ELSE ReadyAtHead(k1, t)
    BY <1>1 DEF WakeOne, Requeue, k1, t, s
<1>7. CASE ~ reschedule
  <2>1. LET r == ReadyAtHead(k1, t)
        IN  /\ CpuOK(r) /\ Modes(r) = [Modes(k1) EXCEPT ![t] = "AWAKE"]
            /\ r.wait = k1.wait /\ r.ret = k1.ret
    BY <1>2, <1>3, <1>4, <1>5, GetReady
  <2> QED BY <1>4, <1>6, <1>7, <2>1 DEF t, s
<1>8. CASE reschedule
  <2> DEFINE b == ReadyAtHead(k1, k1.current)
             c == ReadyAtHead(b, t)
  <2>1. /\ SchedOK(b) /\ Runs(b, {}) /\ b.state[kk.current] = "READY"
        /\ Modes(b) = Modes(k1) /\ b.wait = k1.wait /\ b.ret = k1.ret
    BY <1>4, <1>5, BackAtHead
  <2> HIDE DEF b
  <2>2. b.state[t] # "READY"
    BY <1>2, <1>3, <1>4, <2>1 DEF Modes
  <2>3. /\ SchedOK(c) /\ c.state[t] = "READY" /\ Runs(c, {} \ {t})
        /\ Modes(c) = [Modes(b) EXCEPT ![t] = "AWAKE"]
        /\ c.wait = b.wait /\ c.ret = b.ret
    BY <1>2, <2>1, <2>2, ReadyModes
  <2>4. {} \ {t} = {}
    OBVIOUS
  <2> HIDE DEF c
  <2>5. LET r == Resched[c]
        IN  CpuOK(r) /\ Modes(r) = Modes(c) /\ r.wait = c.wait /\ r.ret = c.ret
    BY <1>2, <2>3, <2>4, SwitchOK
  <2>6. WakeOne(kk, q, reschedule) = Resched[c]
    BY <1>4, <1>6, <1>8 DEF b, c
  <2> QED BY <1>4, <2>1, <2>3, <2>5, <2>6 DEF t, s
<1> QED BY <1>7, <1>8

\* All threads of a wait queue become READY.
LEMMA ReadyAllOK ==
    ASSUME NEW kk, SchedOK(kk), NEW R, Runs(kk, R), NEW q \in Queues, QueueOK(kk, q)
    PROVE  LET r == ReadyAll(kk, q)
               woken == Range(kk.wait[q])
           IN  /\ SchedOK(r) /\ Runs(r, R) /\ r.current = kk.current
               /\ Modes(r) = [t \in All |-> IF t \in woken THEN "AWAKE" ELSE Modes(kk)[t]]
               /\ r.wait = [kk.wait EXCEPT ![q] = <<>>]
               /\ r.ret = [t \in All |-> IF t \in woken THEN "NO_ERROR" ELSE kk.ret[t]]
               /\ \A t \in All : kk.state[t] = "READY" => r.state[t] = "READY"
<1> DEFINE r == ReadyAll(kk, q)
           woken == Range(kk.wait[q])
           first(p) == LastFirst(kk.wait[q], p)
<1>1. /\ kk \in Scheds /\ kk.state \in [All -> States] /\ kk.runq \in [Priorities -> Seq(All)]
      /\ kk.wait \in [Queues -> Seq(All)] /\ kk.wait[q] \in Seq(All) /\ IsInjective(kk.wait[q])
      /\ kk.bitmap \in SUBSET Priorities /\ kk.ret \in [All -> Results]
    BY SchedFields DEF SchedOK, QueueOK
<1>2. woken \subseteq All
    BY <1>1 DEF Range
<1>3. \A t \in woken : kk.state[t] = "BLOCKED"
    BY <1>1, <1>2 DEF QueueOK, Modes
<1>4. ASSUME NEW p \in Priorities
      PROVE  /\ first(p) \in Seq(All) /\ IsInjective(first(p))
             /\ Range(first(p)) = {t \in woken : Priority(t) = p}
    BY <1>1, LastFirstFacts
<1> HIDE DEF first
<1>5. ASSUME NEW p \in Priorities
      PROVE  /\ first(p) \o kk.runq[p] \in Seq(All) /\ IsInjective(first(p) \o kk.runq[p])
             /\ Range(first(p) \o kk.runq[p]) = Range(first(p)) \cup Range(kk.runq[p])
  <2>1. kk.runq[p] \in Seq(All) /\ IsInjective(kk.runq[p])
    BY <1>1 DEF SchedOK, RunqOK
  <2>2. Range(first(p)) \cap Range(kk.runq[p]) = {}
    BY <1>2, <1>3, <1>4 DEF SchedOK, RunqOK
  <2> QED BY <1>4, <2>1, <2>2, PutBefore
<1> HIDE DEF woken
<1>6. /\ r \in Scheds
      /\ r.state = [t \in All |-> IF t \in woken THEN "READY" ELSE kk.state[t]]
      /\ r.runq = [p \in Priorities |-> first(p) \o kk.runq[p]]
      /\ r.bitmap = kk.bitmap \cup {Priority(t) : t \in woken}
      /\ r.wait = [kk.wait EXCEPT ![q] = <<>>] /\ r.current = kk.current
      /\ r.ret = [t \in All |-> IF t \in woken THEN "NO_ERROR" ELSE kk.ret[t]]
  <2> DEFINE runq == [p \in Priorities |-> first(p) \o kk.runq[p]]
             state == [t \in All |-> IF t \in woken THEN "READY" ELSE kk.state[t]]
             ret == [t \in All |-> IF t \in woken THEN "NO_ERROR" ELSE kk.ret[t]]
             bits == kk.bitmap \cup {Priority(t) : t \in woken}
  <2>1. r = [kk EXCEPT !.wait[q] = <<>>, !.ret = ret, !.state = state, !.runq = runq,
                       !.bitmap = bits]
    BY <1>1 DEF ReadyAll, woken, first
  <2>2. runq \in [Priorities -> Seq(All)]
    BY <1>5
  <2>3. state \in [All -> States] /\ ret \in [All -> Results]
    BY <1>1 DEF States, Results
  <2>4. bits \in SUBSET Priorities
    BY <1>1, <1>2, PriorityType
  <2>5. <<>> \in Seq(All)
    OBVIOUS
  <2> HIDE DEF r, runq, state, ret, bits
  <2>6. /\ r \in Scheds /\ r.state = state /\ r.runq = runq /\ r.bitmap = bits
        /\ r.wait = [kk.wait EXCEPT ![q] = <<>>] /\ r.current = kk.current /\ r.ret = ret
    BY <1>1, <2>1, <2>2, <2>3, <2>4, <2>5 DEF Scheds
  <2> QED BY <2>6 DEF runq, state, ret, bits
<1> HIDE DEF r
<1>7. RunqOK(r)
  <2>1. ASSUME NEW p \in Priorities
        PROVE  /\ IsInjective(r.runq[p])
               /\ \A u \in All : u \in Range(r.runq[p]) <=> r.state[u] = "READY" /\ Priority(u) = p
    <3>1. IsInjective(r.runq[p]) /\ Range(r.runq[p]) = Range(first(p)) \cup Range(kk.runq[p])
      BY <1>5, <1>6
    <3>2. \A u \in All : u \in Range(kk.runq[p]) <=> kk.state[u] = "READY" /\ Priority(u) = p
      BY DEF SchedOK, RunqOK
    <3>3. Range(first(p)) = {t \in woken : Priority(t) = p}
      BY <1>4
    <3>4. \A u \in All : r.state[u] = "READY" <=> u \in woken \/ kk.state[u] = "READY"
      BY <1>6
    <3> QED BY <3>1, <3>2, <3>3, <3>4
  <2> QED BY <2>1 DEF RunqOK
<1>8. BitmapOK(r)
  <2>1. ASSUME NEW p \in Priorities
        PROVE  p \in r.bitmap <=> r.runq[p] # <<>>
    <3>1. r.runq[p] \in Seq(All) /\ Range(r.runq[p]) = Range(first(p)) \cup Range(kk.runq[p])
      BY <1>5, <1>6
    <3>2. \A s \in Seq(All) : s # <<>> <=> Range(s) # {}
      BY NotEmpty
    <3>3. p \in kk.bitmap <=> Range(kk.runq[p]) # {}
      BY <1>1, <3>2 DEF SchedOK, BitmapOK
    <3>4. p \in {Priority(t) : t \in woken} <=> Range(first(p)) # {}
      BY <1>4
    <3>5. p \in r.bitmap <=> Range(r.runq[p]) # {}
      BY <1>6, <3>1, <3>3, <3>4
    <3> QED BY <3>1, <3>2, <3>5
  <2>2. r.bitmap \subseteq Priorities
    BY <1>6, SchedFields
  <2> QED BY <2>1, <2>2 DEF BitmapOK
<1>9. Runs(r, R)
    BY <1>3, <1>6 DEF Runs
<1>10. Modes(r) = [t \in All |-> IF t \in woken THEN "AWAKE" ELSE Modes(kk)[t]]
    BY <1>1, <1>6 DEF Modes
<1> QED BY <1>6, <1>7, <1>8, <1>9, <1>10 DEF SchedOK, r, woken

\* wait_queue_wake_all.
LEMMA WakeAllOK ==
    ASSUME NEW kk, CpuOK(kk), NEW q \in Queues, QueueOK(kk, q), NEW reschedule \in BOOLEAN
    PROVE  LET r == WakeAll(kk, q, reschedule)
               woken == Range(kk.wait[q])
           IN  /\ CpuOK(r)
               /\ Modes(r) = [t \in All |-> IF t \in woken THEN "AWAKE" ELSE Modes(kk)[t]]
               /\ r.wait = [kk.wait EXCEPT ![q] = <<>>]
               /\ r.ret = [t \in All |-> IF t \in woken THEN "NO_ERROR" ELSE kk.ret[t]]
<1>1. /\ SchedOK(kk) /\ Runs(kk, {kk.current}) /\ kk.current \in All
    BY SchedFields DEF CpuOK, SchedOK
<1>2. CASE ~ reschedule
  <2> DEFINE r == ReadyAll(kk, q)
             R == {kk.current}
  <2>1. Runs(kk, R)
    BY <1>1
  <2> HIDE DEF R, r
  <2>2. LET woken == Range(kk.wait[q])
        IN  /\ SchedOK(r) /\ Runs(r, R) /\ r.current = kk.current
            /\ Modes(r) = [t \in All |-> IF t \in woken THEN "AWAKE" ELSE Modes(kk)[t]]
            /\ r.wait = [kk.wait EXCEPT ![q] = <<>>]
            /\ r.ret = [t \in All |-> IF t \in woken THEN "NO_ERROR" ELSE kk.ret[t]]
    BY <1>1, <2>1, ReadyAllOK DEF r
  <2>3. CpuOK(r)
    BY <2>2 DEF CpuOK, R
  <2>4. WakeAll(kk, q, reschedule) = r
    BY <1>2 DEF WakeAll, r
  <2> QED BY <2>2, <2>3, <2>4
<1>3. CASE reschedule
  <2> DEFINE b == ReadyAtHead(kk, kk.current)
             c == ReadyAll(b, q)
             R == {}
  <2>1. /\ SchedOK(b) /\ Runs(b, R) /\ b.state[kk.current] = "READY"
        /\ Modes(b) = Modes(kk) /\ b.wait = kk.wait /\ b.ret = kk.ret
    BY BackAtHead
  <2> HIDE DEF b
  <2>2. QueueOK(b, q)
    BY <2>1 DEF QueueOK
  <2> HIDE DEF c, R
  <2>3. LET woken == Range(b.wait[q])
        IN  /\ SchedOK(c) /\ Runs(c, R)
            /\ Modes(c) = [t \in All |-> IF t \in woken THEN "AWAKE" ELSE Modes(b)[t]]
            /\ c.wait = [b.wait EXCEPT ![q] = <<>>]
            /\ c.ret = [t \in All |-> IF t \in woken THEN "NO_ERROR" ELSE b.ret[t]]
            /\ \A t \in All : b.state[t] = "READY" => c.state[t] = "READY"
    BY <2>1, <2>2, ReadyAllOK DEF c
  <2>4. LET r == Resched[c]
        IN  CpuOK(r) /\ Modes(r) = Modes(c) /\ r.wait = c.wait /\ r.ret = c.ret
    BY <1>1, <2>1, <2>3, SwitchOK DEF R
  <2>5. WakeAll(kk, q, reschedule) = Resched[c]
    BY <1>3 DEF WakeAll, b, c
  <2> QED BY <2>1, <2>3, <2>4, <2>5
<1> QED BY <1>2, <1>3

\* thread_exit that wakes the dpc thread.
LEMMA ExitWakes ==
    ASSUME NEW kk, CpuOK(kk), Modes(kk)[Idle] = "AWAKE", kk.current # Idle,
           NEW q \in Queues, QueueOK(kk, q)
    PROVE  LET r == Resched[WakeAll(SetState(kk, kk.current, "DEATH"), q, FALSE)]
               woken == Range(kk.wait[q])
               modes == [Modes(kk) EXCEPT ![kk.current] = "DEATH"]
           IN  /\ CpuOK(r)
               /\ Modes(r) = [t \in All |-> IF t \in woken THEN "AWAKE" ELSE modes[t]]
               /\ r.wait = [kk.wait EXCEPT ![q] = <<>>]
               /\ r.ret = [t \in All |-> IF t \in woken THEN "NO_ERROR" ELSE kk.ret[t]]
<1> DEFINE d == SetState(kk, kk.current, "DEATH")
           c == ReadyAll(d, q)
           R == {}
<1>1. kk \in Scheds /\ kk.current \in All /\ kk.wait[q] \in Seq(All)
    BY SchedFields DEF CpuOK, SchedOK
<1>2. /\ d \in Scheds /\ d.runq = kk.runq /\ d.bitmap = kk.bitmap
      /\ d.wait = kk.wait /\ d.ret = kk.ret
      /\ d.state = [kk.state EXCEPT ![kk.current] = "DEATH"]
    BY <1>1 DEF SetState, Scheds, States
<1> HIDE DEF d
<1>3. /\ SchedOK(d) /\ Runs(d, R) /\ d.state[Idle] = "READY"
      /\ Modes(d) = [Modes(kk) EXCEPT ![kk.current] = "DEATH"]
    BY <1>2, LeaveOK
<1>4. QueueOK(d, q)
  <2>1. Modes(kk)[kk.current] = "AWAKE"
    BY <1>1 DEF CpuOK, Runs, Modes
  <2>2. Range(kk.wait[q]) \subseteq All
    BY <1>1 DEF Range
  <2>3. \A t \in Range(kk.wait[q]) : Modes(kk)[t] = "BLOCKED"
    BY DEF QueueOK
  <2>4. \A t \in Range(kk.wait[q]) : t # kk.current /\ t \in All
    BY <2>1, <2>2, <2>3
  <2>5. \A t \in All : t # kk.current => Modes(d)[t] = Modes(kk)[t]
    BY <1>3 DEF Modes
  <2> QED BY <1>2, <2>3, <2>4, <2>5 DEF QueueOK
<1> HIDE DEF c, R
<1>0. SchedOK(d) /\ Runs(d, R)
    BY <1>3
<1>5. LET woken == Range(d.wait[q])
      IN  /\ SchedOK(c) /\ Runs(c, R)
          /\ Modes(c) = [t \in All |-> IF t \in woken THEN "AWAKE" ELSE Modes(d)[t]]
          /\ c.wait = [d.wait EXCEPT ![q] = <<>>]
          /\ c.ret = [t \in All |-> IF t \in woken THEN "NO_ERROR" ELSE d.ret[t]]
          /\ \A t \in All : d.state[t] = "READY" => c.state[t] = "READY"
    BY <1>0, <1>4, ReadyAllOK DEF c
<1>6. LET r == Resched[c]
      IN  CpuOK(r) /\ Modes(r) = Modes(c) /\ r.wait = c.wait /\ r.ret = c.ret
    BY <1>3, <1>5, AllFacts, SwitchOK DEF R
<1>7. WakeAll(SetState(kk, kk.current, "DEATH"), q, FALSE) = c
    BY DEF WakeAll, c, d
<1> QED BY <1>2, <1>3, <1>5, <1>6, <1>7

\* thread_unblock_from_wait_queue, by the handler of a timeout.
LEMMA UnblockOK ==
    ASSUME NEW kk, CpuOK(kk), NEW q \in Queues, QueueOK(kk, q), NEW t \in Range(kk.wait[q])
    PROVE  LET r == Unblock(kk, q, t)
           IN  /\ CpuOK(r) /\ Modes(r) = [Modes(kk) EXCEPT ![t] = "AWAKE"]
               /\ r.current = kk.current
               /\ r.wait = [kk.wait EXCEPT ![q] = Removed(@, t)]
               /\ r.ret = [kk.ret EXCEPT ![t] = "TIMED_OUT"]
<1> DEFINE s == Removed(kk.wait[q], t)
           k1 == Requeue(kk, q, s, t, "TIMED_OUT")
           R == {kk.current}
<1>1. /\ SchedOK(kk) /\ Runs(kk, R) /\ kk \in Scheds
      /\ kk.wait[q] \in Seq(All) /\ IsInjective(kk.wait[q]) /\ kk.wait \in [Queues -> Seq(All)]
    BY SchedFields DEF CpuOK, SchedOK, QueueOK
<1>2. t \in All /\ s \in Seq(All)
  <2> DEFINE w == kk.wait[q]
  <2>1. w \in Seq(All) /\ IsInjective(w) /\ t \in Range(w)
    BY <1>1
  <2>2. t \in All
    BY <2>1 DEF Range
  <2> HIDE DEF w
  <2>3. Removed(w, t) \in Seq(All)
    BY <2>1, TakeOut
  <2> QED BY <2>2, <2>3 DEF w
<1>3. Modes(kk)[t] = "BLOCKED" /\ "TIMED_OUT" \in Results
    BY DEF QueueOK, Results
<1> HIDE DEF s, R, k1
<1>4. /\ SchedOK(k1) /\ Runs(k1, R) /\ Modes(k1) = Modes(kk)
      /\ k1.current = kk.current
      /\ k1.wait = [kk.wait EXCEPT ![q] = s] /\ k1.ret = [kk.ret EXCEPT ![t] = "TIMED_OUT"]
    BY <1>1, <1>2, <1>3, WaitFrame DEF k1
<1>5. CpuOK(k1)
    BY <1>4 DEF CpuOK, R
<1>6. Unblock(kk, q, t) = ReadyAtHead(k1, t)
    BY <1>1 DEF Unblock, Requeue, k1, s
<1>7. LET r == ReadyAtHead(k1, t)
      IN  /\ CpuOK(r) /\ Modes(r) = [Modes(k1) EXCEPT ![t] = "AWAKE"]
          /\ r.current = k1.current /\ r.wait = k1.wait /\ r.ret = k1.ret
    BY <1>2, <1>3, <1>4, <1>5, GetReady
<1> QED BY <1>4, <1>6, <1>7 DEF s

----------------------------------------------------------------------------
(* The inductive invariant.  It speaks of the scheduler through CpuOK, the *)
(* modes, the wait queues and the results of waits only, which is what the *)
(* lemmas above say of every operation.                                    *)

\* The wait queue of a thread that is at that place.
QueueAt(label) ==
    CASE label \in {"mutex", "mutexTimed"} -> "mutex"
      [] label \in {"event", "eventTimed"} -> "event"
      [] label = "dpc" -> "dpc"
      [] OTHER -> "none"

\* The idle thread does not call the kernel, and dpc has its own routine.
LabelsOK ==
    /\ pc \in [All -> Labels] /\ pc[Idle] = "run"
    /\ pc[Dpc] \in {"dpc", "loop", "take", "cleanup"}
    /\ \A t \in Threads :
          pc[t] \in {"run", "mutex", "mutexTimed", "event", "eventTimed", "sleep"}

\* Who does not want the CPU is in a wait, or has not started, or is dead.
ModesOK ==
    \A t \in All :
        /\ Modes(k)[t] = "BLOCKED" => QueueAt(pc[t]) # "none"
        /\ Modes(k)[t] = "SLEEPING" => pc[t] = "sleep"
        /\ Modes(k)[t] \in {"NONE", "SUSPENDED", "DEATH"} => pc[t] = "run" /\ t \in Threads

WaitsOK ==
    \A q \in Queues :
        /\ IsInjective(k.wait[q])
        /\ \A t \in All : t \in Range(k.wait[q]) <=> Modes(k)[t] = "BLOCKED" /\ QueueAt(pc[t]) = q

\* A timer is set while its thread sleeps, or is in a wait with a timeout.
TimersOK ==
    /\ timers \subseteq Timed
    /\ \A t \in timers : \/ pc[t] = "sleep" /\ Modes(k)[t] = "SLEEPING"
                         \/ pc[t] \in {"mutexTimed", "eventTimed"}
    /\ \A t \in All : Modes(k)[t] = "SLEEPING" => t \in timers

\* The dead are on the list of the dpc thread, or it has taken them off.
DpcOK ==
    /\ dpcs \in Seq(Threads) /\ cleaning \in Threads \cup {0} /\ IsInjective(dpcs)
    /\ \A t \in All : Modes(k)[t] = "DEATH" <=> t \in Range(dpcs) \/ (t = cleaning /\ t # 0)
    /\ cleaning \notin Range(dpcs)
    /\ pc[Dpc] = "cleanup" <=> cleaning # 0

\* The threads that the count of the mutex is about: its holder, and every
\* thread that is in a wait for it, also if it was handed to it or if it gave
\* up.
Wanting == {t \in All : QueueAt(pc[t]) = "mutex" \/ (t = holder /\ t # 0)}

\* The thread has the mutex, or it has only to run to have it.
HasMutex(t) ==
    \/ t = holder /\ t # 0
    \/ Modes(k)[t] = "AWAKE" /\ QueueAt(pc[t]) = "mutex" /\ k.ret[t] = "NO_ERROR"

MutexOK ==
    /\ count \in Nat /\ holder \in Threads \cup {0} /\ missed \in BOOLEAN
    /\ holder # 0 => QueueAt(pc[holder]) # "mutex"
    /\ count = Cardinality(Wanting)
    /\ \A t, u \in All : HasMutex(t) /\ HasMutex(u) => t = u

\* Nobody can be waiting for a mutex that nobody wants.
ForgottenOK ==
    /\ missed \/ count = 0 \/ \E t \in All : HasMutex(t)
    /\ signalled \in [{"event", "dpc"} -> BOOLEAN]
    /\ signalled["event"] => k.wait["event"] = <<>>
    /\ dpcs # <<>> => signalled["dpc"]
    /\ signalled["dpc"] => k.wait["dpc"] = <<>>

FlagsOK == auto \in BOOLEAN /\ leaked \in BOOLEAN /\ ticking \in BOOLEAN

KernelInv ==
    /\ CpuOK(k) /\ LabelsOK /\ ModesOK /\ WaitsOK /\ TimersOK
    /\ DpcOK /\ MutexOK /\ ForgottenOK /\ FlagsOK

LEMMA QueueAtFacts ==
    /\ QueueAt("run") = "none" /\ QueueAt("sleep") = "none" /\ QueueAt("loop") = "none"
    /\ QueueAt("take") = "none" /\ QueueAt("cleanup") = "none" /\ QueueAt("dpc") = "dpc"
    /\ QueueAt("mutex") = "mutex" /\ QueueAt("mutexTimed") = "mutex"
    /\ QueueAt("event") = "event" /\ QueueAt("eventTimed") = "event"
    /\ \A l \in Labels : QueueAt(l) \in Queues \cup {"none"}
BY DEF QueueAt, Labels, Waits, Queues

LEMMA ModesType ==
    ASSUME NEW kk, CpuOK(kk)
    PROVE  Modes(kk) \in [All -> {"AWAKE", "NONE", "SUSPENDED", "BLOCKED", "SLEEPING", "DEATH"}]
BY SchedFields DEF CpuOK, SchedOK, Modes, States

\* What the invariant says of the thread that has the CPU, and of the queues.
LEMMA Facts ==
    ASSUME KernelInv
    PROVE  /\ Current \in All /\ Modes(k)[Current] = "AWAKE" /\ Modes(k)[Idle] = "AWAKE"
           /\ k.wait \in [Queues -> Seq(All)] /\ k.ret \in [All -> Results]
           /\ \A q \in Queues : QueueOK(k, q) /\ Current \notin Range(k.wait[q])
           /\ Modes(k) \in [All -> {"AWAKE", "NONE", "SUSPENDED", "BLOCKED", "SLEEPING", "DEATH"}]
<1>1. CpuOK(k)
    BY DEF KernelInv
<1>2. /\ Current \in All /\ k.wait \in [Queues -> Seq(All)] /\ k.ret \in [All -> Results]
    BY <1>1, SchedFields DEF CpuOK, SchedOK, Current
<1>3. Modes(k) \in [All -> {"AWAKE", "NONE", "SUSPENDED", "BLOCKED", "SLEEPING", "DEATH"}]
    BY <1>1, ModesType
<1>4. Modes(k)[Current] = "AWAKE"
    BY <1>1, <1>2 DEF CpuOK, Runs, Modes, Current
<1>5. Modes(k)[Idle] = "AWAKE"
    BY <1>3, AllFacts, QueueAtFacts DEF KernelInv, LabelsOK, ModesOK
<1>6. ASSUME NEW q \in Queues
      PROVE  QueueOK(k, q) /\ Current \notin Range(k.wait[q])
  <2>1. Range(k.wait[q]) \subseteq All
    BY <1>2 DEF Range
  <2> QED BY <1>2, <1>4, <2>1 DEF KernelInv, WaitsOK, QueueOK
<1> QED BY <1>2, <1>3, <1>4, <1>5, <1>6

\* A step that leaves alone what the invariant sees of the scheduler.
LEMMA SameView ==
    ASSUME KernelInv, CpuOK(k'), Modes(k') = Modes(k), k'.wait = k.wait, k'.ret = k.ret, pc' = pc
    PROVE  /\ CpuOK(k)' /\ LabelsOK' /\ ModesOK' /\ WaitsOK'
           /\ timers' = timers => TimersOK'
           /\ dpcVars' = dpcVars => DpcOK'
           /\ mutexVars' = mutexVars => MutexOK'
           /\ mutexVars' = mutexVars /\ dpcVars' = dpcVars /\ signalled' = signalled => ForgottenOK'
<1>1. CpuOK(k)'
    OBVIOUS
<1>2. LabelsOK'
    BY DEF KernelInv, LabelsOK
<1>3. ModesOK'
    BY DEF KernelInv, ModesOK
<1>4. WaitsOK'
    BY DEF KernelInv, WaitsOK
<1>5. ASSUME timers' = timers PROVE TimersOK'
    BY <1>5 DEF KernelInv, TimersOK
<1>6. ASSUME dpcVars' = dpcVars PROVE DpcOK'
    BY <1>6 DEF KernelInv, DpcOK, dpcVars
<1>7. ASSUME mutexVars' = mutexVars PROVE MutexOK'
    BY <1>7 DEF KernelInv, MutexOK, Wanting, HasMutex, mutexVars
<1>8. ASSUME mutexVars' = mutexVars, dpcVars' = dpcVars, signalled' = signalled PROVE ForgottenOK'
    BY <1>8 DEF KernelInv, ForgottenOK, HasMutex, mutexVars, dpcVars
<1> QED BY <1>1, <1>2, <1>3, <1>4, <1>5, <1>6, <1>7, <1>8

LEMMA SameFlags ==
    ASSUME KernelInv, leaked' \in BOOLEAN, ticking' \in BOOLEAN, UNCHANGED auto
    PROVE  FlagsOK'
BY DEF KernelInv, FlagsOK

----------------------------------------------------------------------------
(* Every step preserves it.  First the steps that the invariant does not   *)
(* see in the scheduler.                                                   *)

LEMMA YieldStep ==
    ASSUME KernelInv, NEW t \in Threads, ThreadYield(t)
    PROVE  KernelInv'
<1>1. CpuOK(k) /\ k.current \in Threads
    BY DEF KernelInv, ThreadYield, At, Current
<1>2. CpuOK(k') /\ Modes(k') = Modes(k) /\ k'.wait = k.wait /\ k'.ret = k.ret
    BY <1>1, YieldOK DEF ThreadYield
<1> QED BY <1>2, SameView, SameFlags
        DEF ThreadYield, KernelInv, FlagsOK, mutexVars, eventVars, dpcVars, irqVars

LEMMA TickStep ==
    ASSUME KernelInv, Tick
    PROVE  KernelInv'
<1>1. CpuOK(k)
    BY DEF KernelInv
<1>2. CpuOK(k') /\ Modes(k') = Modes(k) /\ k'.wait = k.wait /\ k'.ret = k.ret
    BY <1>1, PreemptOK DEF Tick
<1> QED BY <1>2, SameView, SameFlags
        DEF Tick, KernelInv, FlagsOK, mutexVars, eventVars, dpcVars, irqVars

LEMMA UnsignalStep ==
    ASSUME KernelInv, NEW t \in Threads, EventUnsignal(t)
    PROVE  KernelInv'
<1>1. ForgottenOK'
    BY DEF KernelInv, ForgottenOK, EventUnsignal, HasMutex, mutexVars, dpcVars
<1> QED BY <1>1, SameView, SameFlags
        DEF EventUnsignal, KernelInv, FlagsOK, mutexVars, eventVars, dpcVars, irqVars

\* The steps in which nothing happens to the scheduler and one thread, not a
\* waiting one, goes from one place to another.
LEMMA Moves ==
    ASSUME KernelInv, NEW t \in All, NEW l \in Labels, Goto(t, l), UNCHANGED <<k, timers>>,
           Modes(k)[t] = "AWAKE", t \notin timers,
           t \in Threads => l \in {"run", "mutex", "mutexTimed", "event", "eventTimed", "sleep"},
           t = Dpc => l \in {"dpc", "loop", "take", "cleanup"}, t # Idle
    PROVE  CpuOK(k)' /\ LabelsOK' /\ ModesOK' /\ WaitsOK' /\ TimersOK'
<1>1. pc \in [All -> Labels] /\ pc' = [pc EXCEPT ![t] = l]
    BY DEF KernelInv, LabelsOK, Goto
<1>2. LabelsOK'
    BY <1>1, AllFacts DEF KernelInv, LabelsOK
<1>3. ModesOK'
    BY <1>1 DEF KernelInv, ModesOK
<1>4. WaitsOK'
    BY <1>1 DEF KernelInv, WaitsOK
<1>5. TimersOK'
    BY <1>1 DEF KernelInv, TimersOK
<1> QED BY <1>2, <1>3, <1>4, <1>5 DEF KernelInv

\* ... and the mutex does not notice.
LEMMA MutexMoves ==
    ASSUME KernelInv, NEW t \in All, NEW l \in Labels, Goto(t, l), UNCHANGED <<k, mutexVars>>,
           QueueAt(pc[t]) # "mutex", QueueAt(l) # "mutex"
    PROVE  MutexOK' /\ \A u \in All : HasMutex(u)' <=> HasMutex(u)
<1>1. pc \in [All -> Labels] /\ pc' = [pc EXCEPT ![t] = l]
    BY DEF KernelInv, LabelsOK, Goto
<1>2. \A u \in All : QueueAt(pc'[u]) = "mutex" <=> QueueAt(pc[u]) = "mutex"
    BY <1>1
<1>3. Wanting' = Wanting
    BY <1>2 DEF Wanting, mutexVars
<1>4. \A u \in All : HasMutex(u)' <=> HasMutex(u)
    BY <1>2 DEF HasMutex, mutexVars
<1>5. holder # 0 => holder \in All
    BY AllFacts DEF KernelInv, MutexOK
<1>6. MutexOK'
    BY <1>2, <1>3, <1>4, <1>5 DEF KernelInv, MutexOK, mutexVars
<1> QED BY <1>4, <1>6

LEMMA SleepReturnsStep ==
    ASSUME KernelInv, NEW t \in Threads, SleepReturns(t)
    PROVE  KernelInv'
<1>1. /\ t \in All /\ t # Idle /\ t # Dpc /\ Modes(k)[t] = "AWAKE" /\ pc[t] = "sleep"
      /\ pc' = [pc EXCEPT ![t] = "run"] /\ pc \in [All -> Labels]
    BY AllFacts, Facts DEF SleepReturns, At, Current, Goto, KernelInv, LabelsOK
<1>2. t \notin timers
    BY <1>1 DEF KernelInv, TimersOK
<1>3. "run" \in Labels /\ Goto(t, "run") /\ UNCHANGED <<k, timers, mutexVars>>
    BY DEF SleepReturns, Labels
<1>4. CpuOK(k)' /\ LabelsOK' /\ ModesOK' /\ WaitsOK' /\ TimersOK'
    BY <1>1, <1>2, <1>3, Moves
<1>5. MutexOK' /\ \A u \in All : HasMutex(u)' <=> HasMutex(u)
    BY <1>1, <1>3, QueueAtFacts, MutexMoves
<1>6. DpcOK'
    BY <1>1, AllFacts DEF KernelInv, DpcOK, SleepReturns, dpcVars
<1>7. ForgottenOK'
    BY <1>5 DEF KernelInv, ForgottenOK, SleepReturns, mutexVars, eventVars, dpcVars
<1> QED BY <1>4, <1>5, <1>6, <1>7, SameFlags
        DEF SleepReturns, KernelInv, FlagsOK, eventVars, irqVars

LEMMA DpcAwakeStep ==
    ASSUME KernelInv, DpcAwake
    PROVE  KernelInv'
<1> DEFINE t == Dpc
<1>1. /\ t \in All /\ t # Idle /\ t \notin Threads /\ Modes(k)[t] = "AWAKE" /\ pc[t] = "dpc"
      /\ pc' = [pc EXCEPT ![t] = "take"] /\ pc \in [All -> Labels]
    BY AllFacts, Facts DEF DpcAwake, At, Current, Goto, KernelInv, LabelsOK
<1>2. t \notin timers
    BY <1>1, BootAssumption DEF KernelInv, TimersOK
<1>3. "take" \in Labels /\ Goto(t, "take") /\ UNCHANGED <<k, timers, mutexVars>>
    BY DEF DpcAwake, Labels
<1>4. CpuOK(k)' /\ LabelsOK' /\ ModesOK' /\ WaitsOK' /\ TimersOK'
    BY <1>1, <1>2, <1>3, Moves
<1>5. MutexOK' /\ \A u \in All : HasMutex(u)' <=> HasMutex(u)
    BY <1>1, <1>3, QueueAtFacts, MutexMoves
<1>6. DpcOK'
    BY <1>1, AllFacts DEF KernelInv, DpcOK, DpcAwake, dpcVars
<1>7. ForgottenOK'
    BY <1>5 DEF KernelInv, ForgottenOK, DpcAwake, mutexVars, eventVars, dpcVars
<1> QED BY <1>4, <1>5, <1>6, <1>7, SameFlags
        DEF DpcAwake, KernelInv, FlagsOK, eventVars, irqVars

\* The next job is taken off the list; or there is none, and dpc_event is
\* unsignalled.
LEMMA DpcTakeStep ==
    ASSUME KernelInv, DpcTake
    PROVE  KernelInv'
<1> DEFINE t == Dpc
           l == IF dpcs = <<>> THEN "loop" ELSE "cleanup"
<1>1. /\ t \in All /\ t # Idle /\ t \notin Threads /\ Modes(k)[t] = "AWAKE" /\ pc[t] = "take"
      /\ pc' = [pc EXCEPT ![t] = l] /\ pc \in [All -> Labels]
    BY AllFacts, Facts DEF DpcTake, At, Current, Goto, KernelInv, LabelsOK
<1>2. t \notin timers
    BY <1>1, BootAssumption DEF KernelInv, TimersOK
<1>3. l \in {"loop", "cleanup"} /\ l \in Labels /\ Goto(t, l) /\ UNCHANGED <<k, timers, mutexVars>>
    BY DEF DpcTake, Labels
<1>4. CpuOK(k)' /\ LabelsOK' /\ ModesOK' /\ WaitsOK' /\ TimersOK'
    BY <1>1, <1>2, <1>3, Moves
<1>5. MutexOK' /\ \A u \in All : HasMutex(u)' <=> HasMutex(u)
    BY <1>1, <1>3, QueueAtFacts, MutexMoves
<1>6. cleaning = 0
    BY <1>1 DEF KernelInv, DpcOK
<1>7. CASE dpcs = <<>>
  <2>1. DpcOK'
    BY <1>1, <1>7 DEF KernelInv, DpcOK, DpcTake, dpcVars
  <2>2. ForgottenOK'
    BY <1>5, <1>7 DEF KernelInv, ForgottenOK, DpcTake, mutexVars, dpcVars
  <2> QED BY <1>4, <1>5, <2>1, <2>2, SameFlags DEF DpcTake, KernelInv, FlagsOK, irqVars
<1>8. CASE dpcs # <<>>
  <2>1. /\ dpcs' \in Seq(Threads) /\ IsInjective(dpcs') /\ Range(dpcs') = Range(dpcs) \ {cleaning'}
        /\ cleaning' \in Range(dpcs) /\ cleaning' \in Threads
    <3>1. dpcs \in Seq(Threads) /\ IsInjective(dpcs)
      BY DEF KernelInv, DpcOK
    <3>2. dpcs' = Tail(dpcs) /\ cleaning' = Head(dpcs)
      BY <1>8 DEF DpcTake
    <3> QED BY <1>8, <3>1, <3>2, TakeHead
  <2>2. cleaning' # 0
    BY <2>1, AllFacts DEF Idle
  <2>3. DpcOK'
    BY <1>1, <1>6, <1>8, <2>1, <2>2 DEF KernelInv, DpcOK, DpcTake
  <2>4. ForgottenOK'
    BY <1>5, <1>8 DEF KernelInv, ForgottenOK, DpcTake, mutexVars
  <2> QED BY <1>4, <1>5, <2>3, <2>4, SameFlags DEF DpcTake, KernelInv, FlagsOK, irqVars
<1> QED BY <1>7, <1>8

\* thread_cleanup_dpc, in the scheduler.
LEMMA CleanupOK ==
    ASSUME NEW kk, CpuOK(kk), NEW t \in Threads, Modes(kk)[t] = "DEATH"
    PROVE  LET r == [SetState(kk, t, "NONE") EXCEPT !.quantum[t] = 0]
           IN  /\ CpuOK(r) /\ Modes(r) = [Modes(kk) EXCEPT ![t] = "NONE"]
               /\ r.current = kk.current /\ r.wait = kk.wait /\ r.ret = kk.ret
<1> DEFINE y == SetState(kk, t, "NONE")
<1>1. t \in All /\ kk.state[t] \notin {"READY", "RUNNING"} /\ 0 \in 0 .. Quantum
    BY AllFacts, QuantumAssumption DEF Modes
<1>2. /\ CpuOK(y) /\ Modes(y) = [Modes(kk) EXCEPT ![t] = "NONE"]
      /\ y.current = kk.current /\ y.wait = kk.wait /\ y.ret = kk.ret
    BY <1>1, SetStateOK
<1> HIDE DEF y
<1>3. LET r == [y EXCEPT !.quantum[t] = 0]
      IN  /\ CpuOK(r) /\ Modes(r) = Modes(y)
          /\ r.current = y.current /\ r.wait = y.wait /\ r.ret = y.ret
    BY <1>1, <1>2, SliceOK
<1> QED BY <1>2, <1>3 DEF y

----------------------------------------------------------------------------
(* Steps in which a thread that is not in the kernel is created, resumed,  *)
(* dies or is cleaned up.                                                  *)

LEMMA ModeChanges ==
    ASSUME KernelInv, NEW t \in Threads, pc[t] = "run", CpuOK(k'), k'.wait = k.wait, k'.ret = k.ret,
           NEW v \in {"AWAKE", "NONE", "SUSPENDED", "DEATH"},
           Modes(k') = [Modes(k) EXCEPT ![t] = v], UNCHANGED <<pc, timers, mutexVars>>
    PROVE  /\ CpuOK(k)' /\ LabelsOK' /\ ModesOK' /\ WaitsOK' /\ TimersOK'
           /\ MutexOK' /\ \A u \in All : HasMutex(u)' <=> HasMutex(u)
<1>1. /\ Modes(k) \in [All -> {"AWAKE", "NONE", "SUSPENDED", "BLOCKED", "SLEEPING", "DEATH"}]
      /\ t \in All /\ QueueAt(pc[t]) = "none" /\ Modes(k)[t] # "BLOCKED" /\ Modes(k)[t] # "SLEEPING"
    BY Facts, AllFacts, QueueAtFacts DEF KernelInv, ModesOK
<1>2. \A u \in All : Modes(k')[u] = IF u = t THEN v ELSE Modes(k)[u]
    BY <1>1
<1>3. LabelsOK'
    BY DEF KernelInv, LabelsOK
<1>4. ModesOK'
    BY <1>1, <1>2 DEF KernelInv, ModesOK
<1>5. WaitsOK'
    BY <1>1, <1>2 DEF KernelInv, WaitsOK
<1>6. t \notin timers /\ timers \subseteq All
    BY <1>1, BootAssumption, AllFacts DEF KernelInv, TimersOK
<1>7. TimersOK'
    BY <1>1, <1>2, <1>6 DEF KernelInv, TimersOK
<1>8. \A u \in All : HasMutex(u)' <=> HasMutex(u)
    BY <1>1, <1>2 DEF HasMutex, mutexVars
<1>9. MutexOK'
    BY <1>8 DEF KernelInv, MutexOK, Wanting, mutexVars
<1> QED BY <1>3, <1>4, <1>5, <1>7, <1>8, <1>9

LEMMA CreateStep ==
    ASSUME KernelInv, NEW t \in Threads, NEW u \in Threads, ThreadCreate(t, u)
    PROVE  KernelInv'
<1>1. CpuOK(k) /\ u \in All /\ k.state[u] = "NONE" /\ Modes(k)[u] = "NONE"
    BY AllFacts DEF KernelInv, ThreadCreate, Modes
<1>2. /\ CpuOK(k') /\ Modes(k') = [Modes(k) EXCEPT ![u] = "SUSPENDED"]
      /\ k'.wait = k.wait /\ k'.ret = k.ret
    BY <1>1, SetStateOK DEF ThreadCreate
<1>3. pc[u] = "run"
    BY <1>1 DEF KernelInv, ModesOK
<1>4. /\ CpuOK(k)' /\ LabelsOK' /\ ModesOK' /\ WaitsOK' /\ TimersOK'
      /\ MutexOK' /\ \A x \in All : HasMutex(x)' <=> HasMutex(x)
    BY <1>2, <1>3, ModeChanges DEF ThreadCreate
<1>5. DpcOK'
  <2>1. Modes(k) \in [All -> {"AWAKE", "NONE", "SUSPENDED", "BLOCKED", "SLEEPING", "DEATH"}]
    BY Facts
  <2>2. \A x \in All : Modes(k')[x] = "DEATH" <=> Modes(k)[x] = "DEATH"
    BY <1>1, <1>2, <2>1
  <2> QED BY <2>2 DEF KernelInv, DpcOK, ThreadCreate, dpcVars
<1>6. ForgottenOK'
    BY <1>2, <1>4 DEF KernelInv, ForgottenOK, ThreadCreate, mutexVars, eventVars, dpcVars
<1> QED BY <1>4, <1>5, <1>6, SameFlags DEF ThreadCreate, KernelInv, FlagsOK, eventVars, irqVars

LEMMA ResumeStep ==
    ASSUME KernelInv, NEW t \in Threads, NEW u \in Threads, ThreadResume(t, u)
    PROVE  KernelInv'
<1> DEFINE y == ReadyAtHead(k, u)
<1>1. CpuOK(k) /\ u \in All /\ Modes(k)[u] = "SUSPENDED" /\ k.current \in Threads
    BY AllFacts DEF KernelInv, ThreadResume, Modes, At, Current
<1>2. /\ CpuOK(y) /\ Modes(y) = [Modes(k) EXCEPT ![u] = "AWAKE"]
      /\ y.current = k.current /\ y.wait = k.wait /\ y.ret = k.ret
    BY <1>1, GetReady
<1>3. k' = Yield(y)
    BY DEF ThreadResume
<1> HIDE DEF y
<1>4. /\ CpuOK(k') /\ Modes(k') = [Modes(k) EXCEPT ![u] = "AWAKE"]
      /\ k'.wait = k.wait /\ k'.ret = k.ret
    BY <1>1, <1>2, <1>3, YieldOK
<1>5. pc[u] = "run"
    BY <1>1 DEF KernelInv, ModesOK
<1>6. /\ CpuOK(k)' /\ LabelsOK' /\ ModesOK' /\ WaitsOK' /\ TimersOK'
      /\ MutexOK' /\ \A x \in All : HasMutex(x)' <=> HasMutex(x)
    BY <1>4, <1>5, ModeChanges DEF ThreadResume
<1>7. DpcOK'
  <2>1. Modes(k) \in [All -> {"AWAKE", "NONE", "SUSPENDED", "BLOCKED", "SLEEPING", "DEATH"}]
    BY Facts
  <2>2. \A x \in All : Modes(k')[x] = "DEATH" <=> Modes(k)[x] = "DEATH"
    BY <1>1, <1>4, <2>1
  <2> QED BY <2>2 DEF KernelInv, DpcOK, ThreadResume, dpcVars
<1>8. ForgottenOK'
    BY <1>4, <1>6 DEF KernelInv, ForgottenOK, ThreadResume, mutexVars, eventVars, dpcVars
<1> QED BY <1>6, <1>7, <1>8, SameFlags DEF ThreadResume, KernelInv, FlagsOK, eventVars, irqVars

LEMMA DpcCleanupStep ==
    ASSUME KernelInv, DpcCleanup
    PROVE  KernelInv'
<1>1. /\ cleaning \in Threads /\ cleaning # 0 /\ cleaning # Dpc /\ Modes(k)[cleaning] = "DEATH"
      /\ pc[cleaning] = "run" /\ Dpc \in All /\ Dpc # Idle /\ Dpc \notin Threads
      /\ pc[Dpc] = "cleanup" /\ Modes(k)[Dpc] = "AWAKE" /\ cleaning \in All
      /\ pc \in [All -> Labels] /\ pc' = [pc EXCEPT ![Dpc] = "loop"]
  <2>1. Current = Dpc /\ pc[Dpc] = "cleanup" /\ pc' = [pc EXCEPT ![Dpc] = "loop"]
    BY DEF DpcCleanup, At, Goto
  <2>2. cleaning # 0 /\ cleaning \in Threads
    BY <2>1 DEF KernelInv, DpcOK
  <2>3. cleaning \in All /\ Modes(k)[cleaning] = "DEATH"
    BY <2>2, AllFacts DEF KernelInv, DpcOK
  <2>4. pc[cleaning] = "run" /\ pc \in [All -> Labels]
    BY <2>3 DEF KernelInv, ModesOK, LabelsOK
  <2> QED BY <2>1, <2>2, <2>3, <2>4, AllFacts, Facts
<1>2. /\ CpuOK(k') /\ Modes(k') = [Modes(k) EXCEPT ![cleaning] = "NONE"]
      /\ k'.wait = k.wait /\ k'.ret = k.ret
    BY <1>1, CleanupOK DEF KernelInv, DpcCleanup
<1>3. Modes(k) \in [All -> {"AWAKE", "NONE", "SUSPENDED", "BLOCKED", "SLEEPING", "DEATH"}]
    BY Facts
<1>4. \A u \in All : Modes(k')[u] = IF u = cleaning THEN "NONE" ELSE Modes(k)[u]
    BY <1>1, <1>2, <1>3
<1>5. \A u \in All : QueueAt(pc'[u]) = QueueAt(pc[u]) /\ (u # Dpc => pc'[u] = pc[u])
    BY <1>1, QueueAtFacts
<1>6. LabelsOK'
    BY <1>1, AllFacts DEF KernelInv, LabelsOK, Labels
<1>7. ModesOK'
    BY <1>1, <1>4, <1>5 DEF KernelInv, ModesOK
<1>8. WaitsOK'
    BY <1>1, <1>2, <1>4, <1>5 DEF KernelInv, WaitsOK
<1>9. timers \subseteq Threads /\ timers' = timers
    BY BootAssumption DEF KernelInv, TimersOK, DpcCleanup
<1>10. TimersOK'
    BY <1>1, <1>4, <1>5, <1>9, AllFacts DEF KernelInv, TimersOK
<1>11. DpcOK'
  <2>1. 0 \notin Range(dpcs)
    BY AllFacts DEF KernelInv, DpcOK, Range, Idle
  <2>2. cleaning' = 0 /\ dpcs' = dpcs /\ pc'[Dpc] = "loop"
    BY <1>1 DEF DpcCleanup
  <2> QED BY <1>1, <1>4, <2>1, <2>2 DEF KernelInv, DpcOK
<1>12. \A u \in All : HasMutex(u)' <=> HasMutex(u)
    BY <1>1, <1>2, <1>4, <1>5, QueueAtFacts DEF HasMutex, DpcCleanup, mutexVars
<1>13. holder # 0 => holder \in All
    BY AllFacts DEF KernelInv, MutexOK
<1>14. Wanting' = Wanting
    BY <1>5 DEF Wanting, DpcCleanup, mutexVars
<1>15. MutexOK'
    BY <1>5, <1>12, <1>13, <1>14 DEF KernelInv, MutexOK, DpcCleanup, mutexVars
<1>16. ForgottenOK'
    BY <1>2, <1>12 DEF KernelInv, ForgottenOK, DpcCleanup, mutexVars, eventVars
<1> QED BY <1>2, <1>6, <1>7, <1>8, <1>10, <1>11, <1>15, <1>16, SameFlags
        DEF DpcCleanup, KernelInv, FlagsOK, eventVars, irqVars

----------------------------------------------------------------------------
(* Steps in which the current thread gives up the CPU.                     *)

\* A thread or the dpc thread goes to wait, with or without a timeout.
LEMMA Blocks ==
    ASSUME KernelInv, NEW t \in All, t # Idle, t = Current, pc[t] \in {"run", "loop"},
           NEW q \in Queues, NEW l \in Labels, QueueAt(l) = q,
           k' = Block(k, q), Goto(t, l), UNCHANGED holder,
           t \in Threads => l \in {"mutex", "mutexTimed", "event", "eventTimed"},
           t = Dpc => l = "dpc",
           timers' = timers \/ (timers' = timers \cup {t} /\ t \in Timed
                                   /\ l \in {"mutexTimed", "eventTimed"})
    PROVE  /\ CpuOK(k)' /\ LabelsOK' /\ ModesOK' /\ WaitsOK' /\ TimersOK'
           /\ \A u \in All : HasMutex(u)' <=> HasMutex(u)
           /\ \A u \in All : u # t => pc'[u] = pc[u]
           /\ pc'[t] = l
           /\ \A u \in All : Modes(k')[u] = "DEATH" <=> Modes(k)[u] = "DEATH"
           /\ \A x \in Queues : x # q => k'.wait[x] = k.wait[x]
<1>1. /\ Modes(k) \in [All -> {"AWAKE", "NONE", "SUSPENDED", "BLOCKED", "SLEEPING", "DEATH"}]
      /\ Modes(k)[t] = "AWAKE" /\ Modes(k)[Idle] = "AWAKE" /\ CpuOK(k) /\ t = k.current
      /\ k.wait \in [Queues -> Seq(All)] /\ k.ret \in [All -> Results]
      /\ t \notin Range(k.wait[q]) /\ IsInjective(k.wait[q]) /\ k.wait[q] \in Seq(All)
    BY Facts DEF KernelInv, Current, WaitsOK
<1>2. /\ CpuOK(k') /\ Modes(k') = [Modes(k) EXCEPT ![t] = "BLOCKED"]
      /\ k'.wait = [k.wait EXCEPT ![q] = Append(@, t)]
      /\ k'.ret = [k.ret EXCEPT ![t] = "NO_ERROR"]
  <2>1. CpuOK(k) /\ Modes(k)[Idle] = "AWAKE" /\ k.current # Idle
    BY <1>1
  <2>2. LET r == Block(k, q)
        IN  /\ CpuOK(r) /\ Modes(r) = [Modes(k) EXCEPT ![k.current] = "BLOCKED"]
            /\ r.wait = [k.wait EXCEPT ![q] = Append(@, k.current)]
            /\ r.ret = [k.ret EXCEPT ![k.current] = "NO_ERROR"]
    BY <2>1, BlockOK
  <2> QED BY <1>1, <2>2
<1>3. \A u \in All : Modes(k')[u] = IF u = t THEN "BLOCKED" ELSE Modes(k)[u]
    BY <1>1, <1>2
<1>4. pc \in [All -> Labels] /\ \A u \in All : pc'[u] = IF u = t THEN l ELSE pc[u]
    BY DEF KernelInv, LabelsOK, Goto
<1>5. LabelsOK'
    BY <1>4, AllFacts DEF KernelInv, LabelsOK, Goto
<1>6. ModesOK'
  <2>1. q # "none"
    BY DEF Queues
  <2> QED BY <1>3, <1>4, <2>1 DEF KernelInv, ModesOK
<1>7. QueueAt(pc[t]) = "none"
    BY QueueAtFacts
<1>8. WaitsOK'
  <2>1. ASSUME NEW x \in Queues
        PROVE  /\ IsInjective(k'.wait[x])
               /\ \A u \in All : u \in Range(k'.wait[x])
                                    <=> Modes(k')[u] = "BLOCKED" /\ QueueAt(pc'[u]) = x
    <3>1. CASE x = q
      <4> DEFINE s == k.wait[q]
      <4>1. s \in Seq(All) /\ t \notin Range(s) /\ IsInjective(s) /\ k'.wait[q] = Append(s, t)
        BY <1>1, <1>2
      <4>2. \A u \in All : u \in Range(s) <=> Modes(k)[u] = "BLOCKED" /\ QueueAt(pc[u]) = q
        BY DEF KernelInv, WaitsOK
      <4> HIDE DEF s
      <4>3. IsInjective(k'.wait[q]) /\ Range(k'.wait[q]) = Range(s) \cup {t}
        BY <4>1, PutAtTail
      <4> QED BY <1>3, <1>4, <3>1, <4>2, <4>3
    <3>2. CASE x # q
      <4>1. k'.wait[x] = k.wait[x]
        BY <1>1, <1>2, <3>2
      <4>2. /\ IsInjective(k.wait[x]) /\ x # "none"
            /\ \A u \in All : u \in Range(k.wait[x])
                                 <=> Modes(k)[u] = "BLOCKED" /\ QueueAt(pc[u]) = x
        BY DEF KernelInv, WaitsOK, Queues
      <4> QED BY <1>1, <1>3, <1>4, <3>2, <4>1, <4>2
    <3> QED BY <3>1, <3>2
  <2> QED BY <2>1 DEF WaitsOK
<1>9. t \notin timers /\ timers \subseteq Threads
    BY BootAssumption DEF KernelInv, TimersOK
<1>10. TimersOK'
    BY <1>1, <1>3, <1>4, <1>9, AllFacts DEF KernelInv, TimersOK
<1>11. \A u \in All : HasMutex(u)' <=> HasMutex(u)
    BY <1>1, <1>2, <1>3, <1>4, <1>7 DEF HasMutex
<1>12. \A x \in Queues : x # q => k'.wait[x] = k.wait[x]
    BY <1>1, <1>2
<1>13. \A u \in All : Modes(k')[u] = "DEATH" <=> Modes(k)[u] = "DEATH"
    BY <1>1, <1>3
<1>14. CpuOK(k)' /\ pc'[t] = l /\ \A u \in All : u # t => pc'[u] = pc[u]
    BY <1>2, <1>4
<1> QED BY <1>5, <1>6, <1>8, <1>10, <1>11, <1>12, <1>13, <1>14

LEMMA DpcWaitStep ==
    ASSUME KernelInv, DpcWait
    PROVE  KernelInv'
<1>1. /\ Dpc \in All /\ Dpc # Idle /\ Dpc \notin Threads /\ Dpc = Current
      /\ Modes(k)[Dpc] = "AWAKE" /\ pc[Dpc] = "loop" /\ pc \in [All -> Labels]
    BY AllFacts, Facts DEF DpcWait, At, Current, KernelInv, LabelsOK
<1>2. Dpc \notin timers
    BY <1>1, BootAssumption DEF KernelInv, TimersOK
<1>3. CASE signalled["dpc"]
  <2>1. "take" \in Labels /\ Goto(Dpc, "take") /\ UNCHANGED <<k, timers, mutexVars>>
    BY <1>3 DEF DpcWait, Labels
  <2>2. CpuOK(k)' /\ LabelsOK' /\ ModesOK' /\ WaitsOK' /\ TimersOK'
    BY <1>1, <1>2, <2>1, Moves
  <2>3. MutexOK' /\ \A u \in All : HasMutex(u)' <=> HasMutex(u)
    BY <1>1, <2>1, QueueAtFacts, MutexMoves
  <2>4. DpcOK'
    BY <1>1, <2>1, AllFacts DEF KernelInv, DpcOK, DpcWait, dpcVars, Goto
  <2>5. ForgottenOK'
    BY <2>1, <2>3 DEF KernelInv, ForgottenOK, DpcWait, mutexVars, eventVars, dpcVars
  <2> QED BY <2>2, <2>3, <2>4, <2>5, SameFlags
          DEF DpcWait, KernelInv, FlagsOK, eventVars, irqVars
<1>4. CASE ~ signalled["dpc"]
  <2>1. "dpc" \in Labels /\ Goto(Dpc, "dpc") /\ k' = Block(k, "dpc") /\ "dpc" \in Queues
    BY <1>4 DEF DpcWait, Labels, Waits, Queues
  <2>2. /\ CpuOK(k)' /\ LabelsOK' /\ ModesOK' /\ WaitsOK' /\ TimersOK'
        /\ \A u \in All : HasMutex(u)' <=> HasMutex(u)
        /\ \A u \in All : u # Dpc => pc'[u] = pc[u]
        /\ pc'[Dpc] = "dpc"
        /\ \A u \in All : Modes(k')[u] = "DEATH" <=> Modes(k)[u] = "DEATH"
        /\ \A x \in Queues : x # "dpc" => k'.wait[x] = k.wait[x]
    BY <1>1, <2>1, QueueAtFacts, Blocks DEF DpcWait, mutexVars
  <2>3. DpcOK'
    BY <1>1, <2>2 DEF KernelInv, DpcOK, DpcWait, dpcVars
  <2>4. \A u \in All : QueueAt(pc'[u]) = "mutex" <=> QueueAt(pc[u]) = "mutex"
    BY <1>1, <2>2, QueueAtFacts
  <2>5. Wanting' = Wanting
    BY <2>4 DEF Wanting, DpcWait, mutexVars
  <2>6. holder # 0 => holder \in All
    BY AllFacts DEF KernelInv, MutexOK
  <2>7. MutexOK'
    BY <2>2, <2>4, <2>5, <2>6 DEF KernelInv, MutexOK, DpcWait, mutexVars
  <2>8. k'.wait["event"] = k.wait["event"]
    BY <2>2 DEF Queues
  <2>9. ForgottenOK'
    BY <1>4, <2>2, <2>8 DEF KernelInv, ForgottenOK, DpcWait, mutexVars, eventVars, dpcVars
  <2> QED BY <2>2, <2>3, <2>7, <2>9, SameFlags
          DEF DpcWait, KernelInv, FlagsOK, eventVars, irqVars
<1> QED BY <1>3, <1>4

LEMMA WantingFinite == IsFiniteSet(Wanting)
<1>1. Wanting \subseteq All
    BY DEF Wanting
<1> QED BY <1>1, AllFacts, FS_Subset

\* One more thread wants the mutex, or one less.
LEMMA OneMore ==
    ASSUME KernelInv, NEW t \in All, t \notin Wanting, Wanting' = Wanting \cup {t}
    PROVE  count + 1 = Cardinality(Wanting') /\ count + 1 \in Nat
<1>1. count = Cardinality(Wanting) /\ count \in Nat
    BY DEF KernelInv, MutexOK
<1> QED BY <1>1, WantingFinite, FS_AddElement

LEMMA OneLess ==
    ASSUME KernelInv, NEW t \in Wanting, Wanting' = Wanting \ {t}
    PROVE  count - 1 = Cardinality(Wanting') /\ count - 1 \in Nat
<1>1. count = Cardinality(Wanting) /\ count \in Nat
    BY DEF KernelInv, MutexOK
<1>2. Cardinality(Wanting') = count - 1
    BY <1>1, WantingFinite, FS_RemoveElement
<1>3. count # 0
    BY <1>1, WantingFinite, FS_EmptySet
<1> QED BY <1>1, <1>2, <1>3

LEMMA NobodyWants ==
    ASSUME KernelInv, count = 0
    PROVE  Wanting = {} /\ \A t \in All : ~ HasMutex(t)
<1>1. Wanting = {}
    BY WantingFinite, FS_EmptySet DEF KernelInv, MutexOK
<1> QED BY <1>1 DEF Wanting, HasMutex

LEMMA SleepStep ==
    ASSUME KernelInv, NEW t \in Threads, ThreadSleep(t)
    PROVE  KernelInv'
<1>1. /\ Modes(k) \in [All -> {"AWAKE", "NONE", "SUSPENDED", "BLOCKED", "SLEEPING", "DEATH"}]
      /\ Modes(k)[t] = "AWAKE" /\ Modes(k)[Idle] = "AWAKE" /\ CpuOK(k) /\ t = k.current
      /\ t \in All /\ t # Idle /\ t # Dpc /\ pc[t] = "run" /\ t \in Timed /\ timers' = timers \cup {t}
      /\ pc \in [All -> Labels] /\ pc' = [pc EXCEPT ![t] = "sleep"]
    BY Facts, AllFacts DEF KernelInv, LabelsOK, ThreadSleep, At, Current, SetTimer, Goto
<1>2. /\ CpuOK(k') /\ Modes(k') = [Modes(k) EXCEPT ![t] = "SLEEPING"]
      /\ k'.wait = k.wait /\ k'.ret = k.ret
  <2>1. k.current # Idle /\ CpuOK(k) /\ Modes(k)[Idle] = "AWAKE"
    BY <1>1
  <2>2. LET r == Resched[SetState(k, k.current, "SLEEPING")]
        IN  /\ CpuOK(r) /\ Modes(r) = [Modes(k) EXCEPT ![k.current] = "SLEEPING"]
            /\ r.wait = k.wait /\ r.ret = k.ret
    BY <2>1, LeaveCpu
  <2> QED BY <1>1, <2>2 DEF ThreadSleep
<1>3. \A u \in All : /\ Modes(k')[u] = IF u = t THEN "SLEEPING" ELSE Modes(k)[u]
                     /\ pc'[u] = IF u = t THEN "sleep" ELSE pc[u]
    BY <1>1, <1>2
<1>4. \A u \in All : QueueAt(pc'[u]) = QueueAt(pc[u])
    BY <1>1, <1>3, QueueAtFacts
<1>5. LabelsOK'
    BY <1>1, AllFacts DEF KernelInv, LabelsOK, Labels, Waits
<1>6. ModesOK'
    BY <1>3, <1>4 DEF KernelInv, ModesOK
<1>7. WaitsOK'
    BY <1>1, <1>2, <1>3, <1>4 DEF KernelInv, WaitsOK
<1>8. t \notin timers /\ timers \subseteq All
    BY <1>1, BootAssumption, AllFacts DEF KernelInv, TimersOK
<1>9. TimersOK'
    BY <1>1, <1>3, <1>8 DEF KernelInv, TimersOK
<1>10. DpcOK'
  <2>1. \A u \in All : Modes(k')[u] = "DEATH" <=> Modes(k)[u] = "DEATH"
    BY <1>1, <1>3
  <2>2. pc'[Dpc] = pc[Dpc]
    BY <1>1
  <2> QED BY <2>1, <2>2 DEF KernelInv, DpcOK, ThreadSleep, dpcVars
<1>11. \A u \in All : HasMutex(u)' <=> HasMutex(u)
    BY <1>1, <1>2, <1>3, <1>4, QueueAtFacts DEF HasMutex, ThreadSleep, mutexVars
<1>12. holder # 0 => holder \in All
    BY AllFacts DEF KernelInv, MutexOK
<1>13. Wanting' = Wanting
    BY <1>4 DEF Wanting, ThreadSleep, mutexVars
<1>14. MutexOK'
    BY <1>4, <1>11, <1>12, <1>13 DEF KernelInv, MutexOK, ThreadSleep, mutexVars
<1>15. ForgottenOK'
    BY <1>2, <1>11 DEF KernelInv, ForgottenOK, ThreadSleep, mutexVars, eventVars, dpcVars
<1> QED BY <1>2, <1>5, <1>6, <1>7, <1>9, <1>10, <1>14, <1>15, SameFlags
        DEF ThreadSleep, KernelInv, FlagsOK, eventVars, irqVars

\* The mutex is free: the thread gets it at once.
LEMMA GetsMutex ==
    ASSUME KernelInv, NEW t \in Threads, At(t, "run"), count = 0, count' = 1, holder' = t,
           UNCHANGED <<k, pc, timers, missed, eventVars, dpcVars, irqVars>>
    PROVE  KernelInv'
<1>1. t \in All /\ t # 0 /\ QueueAt(pc[t]) = "none"
    BY AllFacts, QueueAtFacts DEF Idle, At
<1>2. Wanting = {} /\ \A u \in All : ~ HasMutex(u)
    BY NobodyWants
<1>3. Wanting' = Wanting \cup {t}
    BY <1>1, <1>2 DEF Wanting
<1>4. 1 = Cardinality(Wanting')
    BY <1>1, <1>2, <1>3, OneMore
<1>5. \A u \in All : HasMutex(u)' <=> u = t
    BY <1>1, <1>2 DEF HasMutex
<1>6. MutexOK'
    BY <1>1, <1>4, <1>5 DEF KernelInv, MutexOK
<1>7. ForgottenOK'
    BY <1>1, <1>5 DEF KernelInv, ForgottenOK, eventVars, dpcVars
<1>8. CpuOK(k') /\ Modes(k') = Modes(k) /\ k'.wait = k.wait /\ k'.ret = k.ret
    BY DEF KernelInv
<1> QED BY <1>6, <1>7, <1>8, SameView, SameFlags DEF KernelInv, FlagsOK, eventVars, irqVars

LEMMA TryStep ==
    ASSUME KernelInv, NEW t \in Threads, MutexTry(t)
    PROVE  KernelInv'
BY GetsMutex DEF MutexTry

LEMMA AcquireStep ==
    ASSUME KernelInv, NEW t \in Threads, NEW timed \in BOOLEAN, MutexAcquire(t, timed)
    PROVE  KernelInv'
<1>1. CASE count = 0
  <2>1. count' = 1
    BY <1>1 DEF MutexAcquire
  <2> QED BY <1>1, <2>1, GetsMutex DEF MutexAcquire
<1>2. CASE count # 0
  <2> DEFINE l == IF timed THEN "mutexTimed" ELSE "mutex"
  <2>1. /\ t \in All /\ t # Idle /\ t # Dpc /\ t = Current /\ pc[t] = "run" /\ holder # t
        /\ "mutex" \in Queues /\ k' = Block(k, "mutex") /\ Goto(t, l) /\ holder' = holder
        /\ timers' = timers \/ (timers' = timers \cup {t} /\ t \in Timed /\ timed)
        /\ count' = count + 1 /\ missed' = missed
    BY <1>2, AllFacts DEF MutexAcquire, At, Queues, SetTimer
  <2>2. /\ l \in {"mutex", "mutexTimed"} /\ l \in Labels /\ QueueAt(l) = "mutex"
        /\ timed => l = "mutexTimed"
    BY QueueAtFacts DEF Labels, Waits
  <2> HIDE DEF l
  <2>3. /\ CpuOK(k)' /\ LabelsOK' /\ ModesOK' /\ WaitsOK' /\ TimersOK'
        /\ \A u \in All : HasMutex(u)' <=> HasMutex(u)
        /\ \A u \in All : u # t => pc'[u] = pc[u]
        /\ pc'[t] = l
        /\ \A u \in All : Modes(k')[u] = "DEATH" <=> Modes(k)[u] = "DEATH"
        /\ \A x \in Queues : x # "mutex" => k'.wait[x] = k.wait[x]
    BY <2>1, <2>2, Blocks
  <2>4. DpcOK'
    BY <2>1, <2>3, AllFacts DEF KernelInv, DpcOK, MutexAcquire, dpcVars
  <2>5. t \notin Wanting /\ Wanting' = Wanting \cup {t}
    BY <2>1, <2>2, <2>3, QueueAtFacts DEF Wanting
  <2>6. count' = Cardinality(Wanting') /\ count' \in Nat
    BY <2>1, <2>5, OneMore
  <2>7. holder # 0 => holder \in All
    BY AllFacts DEF KernelInv, MutexOK
  <2>8. MutexOK'
    BY <2>1, <2>3, <2>6, <2>7 DEF KernelInv, MutexOK
  <2>9. k'.wait["event"] = k.wait["event"] /\ k'.wait["dpc"] = k.wait["dpc"]
    BY <2>3 DEF Queues
  <2>10. ForgottenOK'
    BY <1>2, <2>1, <2>3, <2>9 DEF KernelInv, ForgottenOK, MutexAcquire, eventVars, dpcVars
  <2> QED BY <2>3, <2>4, <2>8, <2>10, SameFlags
          DEF MutexAcquire, KernelInv, FlagsOK, eventVars, irqVars
<1> QED BY <1>1, <1>2

LEMMA EventWaitStep ==
    ASSUME KernelInv, NEW t \in Threads, NEW timeout \in {"infinite", "some", "zero"},
           EventWait(t, timeout)
    PROVE  KernelInv'
<1>1. CASE signalled["event"]
  <2>1. CpuOK(k') /\ Modes(k') = Modes(k) /\ k'.wait = k.wait /\ k'.ret = k.ret
    BY <1>1 DEF KernelInv, EventWait
  <2>2. ForgottenOK'
    BY <1>1 DEF KernelInv, ForgottenOK, FlagsOK, EventWait, HasMutex, mutexVars, dpcVars
  <2> QED BY <1>1, <2>1, <2>2, SameView, SameFlags
          DEF EventWait, KernelInv, FlagsOK, mutexVars, dpcVars, irqVars
<1>2. CASE ~ signalled["event"]
  <2> DEFINE timed == timeout = "some"
             l == IF timed THEN "eventTimed" ELSE "event"
  <2>1. /\ t \in All /\ t # Idle /\ t # Dpc /\ t = Current /\ pc[t] = "run"
        /\ "event" \in Queues /\ k' = Block(k, "event") /\ Goto(t, l) /\ holder' = holder
        /\ timers' = timers \/ (timers' = timers \cup {t} /\ t \in Timed /\ timed)
        /\ signalled' = signalled
    BY <1>2, AllFacts DEF EventWait, At, Queues, SetTimer, mutexVars
  <2>2. /\ l \in {"event", "eventTimed"} /\ l \in Labels /\ QueueAt(l) = "event"
        /\ timed => l = "eventTimed"
    BY QueueAtFacts DEF Labels, Waits
  <2> HIDE DEF l, timed
  <2>3. /\ CpuOK(k)' /\ LabelsOK' /\ ModesOK' /\ WaitsOK' /\ TimersOK'
        /\ \A u \in All : HasMutex(u)' <=> HasMutex(u)
        /\ \A u \in All : u # t => pc'[u] = pc[u]
        /\ pc'[t] = l
        /\ \A u \in All : Modes(k')[u] = "DEATH" <=> Modes(k)[u] = "DEATH"
        /\ \A x \in Queues : x # "event" => k'.wait[x] = k.wait[x]
    BY <2>1, <2>2, Blocks
  <2>4. DpcOK'
    BY <2>1, <2>3, AllFacts DEF KernelInv, DpcOK, EventWait, dpcVars
  <2>5. \A u \in All : QueueAt(pc'[u]) = "mutex" <=> QueueAt(pc[u]) = "mutex"
    BY <2>1, <2>2, <2>3, QueueAtFacts
  <2>6. Wanting' = Wanting
    BY <2>1, <2>5 DEF Wanting
  <2>7. holder # 0 => holder \in All
    BY AllFacts DEF KernelInv, MutexOK
  <2>8. MutexOK'
    BY <2>3, <2>5, <2>6, <2>7 DEF KernelInv, MutexOK, EventWait, mutexVars
  <2>9. k'.wait["dpc"] = k.wait["dpc"]
    BY <2>3 DEF Queues
  <2>10. ForgottenOK'
    BY <1>2, <2>1, <2>3, <2>9 DEF KernelInv, ForgottenOK, EventWait, mutexVars, dpcVars
  <2> QED BY <2>3, <2>4, <2>8, <2>10, SameFlags
          DEF EventWait, KernelInv, FlagsOK, irqVars
<1> QED BY <1>1, <1>2

----------------------------------------------------------------------------
(* Steps in which threads come out of a wait queue, or out of a wait.      *)

\* The threads of W leave a wait queue and want the CPU.
LEMMA Wakes ==
    ASSUME KernelInv, CpuOK(k'), pc' = pc, NEW q \in Queues, NEW W \in SUBSET Range(k.wait[q]),
           NEW s, IsInjective(s), Range(s) = Range(k.wait[q]) \ W,
           k'.wait = [k.wait EXCEPT ![q] = s],
           Modes(k') = [u \in All |-> IF u \in W THEN "AWAKE" ELSE Modes(k)[u]],
           timers' \subseteq timers, \A u \in timers \ timers' : Modes(k)[u] # "SLEEPING"
    PROVE  /\ CpuOK(k)' /\ LabelsOK' /\ ModesOK' /\ WaitsOK' /\ TimersOK'
           /\ \A u \in W : u \in All /\ Modes(k)[u] = "BLOCKED" /\ QueueAt(pc[u]) = q
           /\ \A u \in All : Modes(k')[u] = "DEATH" <=> Modes(k)[u] = "DEATH"
           /\ k'.wait[q] = s /\ \A x \in Queues : x # q => k'.wait[x] = k.wait[x]
<1>1. /\ Modes(k) \in [All -> {"AWAKE", "NONE", "SUSPENDED", "BLOCKED", "SLEEPING", "DEATH"}]
      /\ k.wait \in [Queues -> Seq(All)]
    BY Facts
<1>2. Range(k.wait[q]) \subseteq All
    BY <1>1 DEF Range
<1>3. \A u \in W : u \in All /\ Modes(k)[u] = "BLOCKED" /\ QueueAt(pc[u]) = q
    BY <1>2 DEF KernelInv, WaitsOK
<1>4. \A u \in All : Modes(k')[u] = IF u \in W THEN "AWAKE" ELSE Modes(k)[u]
    OBVIOUS
<1>5. LabelsOK'
    BY DEF KernelInv, LabelsOK
<1>6. ModesOK'
    BY <1>4 DEF KernelInv, ModesOK
<1>7. k'.wait[q] = s /\ \A x \in Queues : x # q => k'.wait[x] = k.wait[x]
    BY <1>1
<1>8. WaitsOK'
  <2>1. ASSUME NEW x \in Queues
        PROVE  /\ IsInjective(k'.wait[x])
               /\ \A u \in All : u \in Range(k'.wait[x])
                                    <=> Modes(k')[u] = "BLOCKED" /\ QueueAt(pc[u]) = x
    <3>1. /\ IsInjective(k.wait[x])
          /\ \A u \in All : u \in Range(k.wait[x])
                               <=> Modes(k)[u] = "BLOCKED" /\ QueueAt(pc[u]) = x
      BY DEF KernelInv, WaitsOK
    <3>2. CASE x = q
      BY <1>3, <1>4, <1>7, <3>1, <3>2
    <3>3. CASE x # q
      BY <1>3, <1>4, <1>7, <3>1, <3>3
    <3> QED BY <3>2, <3>3
  <2> QED BY <2>1 DEF WaitsOK
<1>9. timers \subseteq All
    BY BootAssumption, AllFacts DEF KernelInv, TimersOK
<1>10. TimersOK'
    BY <1>3, <1>4, <1>9 DEF KernelInv, TimersOK
<1>11. \A u \in All : Modes(k')[u] = "DEATH" <=> Modes(k)[u] = "DEATH"
    BY <1>1, <1>3, <1>4
<1> QED BY <1>3, <1>5, <1>6, <1>7, <1>8, <1>10, <1>11

LEMMA WakesOne ==
    ASSUME KernelInv, NEW q \in Queues, k.wait[q] # <<>>, NEW reschedule \in BOOLEAN,
           k' = WakeOne(k, q, reschedule), UNCHANGED <<pc, timers>>
    PROVE  LET w == Head(k.wait[q])
           IN  /\ CpuOK(k)' /\ LabelsOK' /\ ModesOK' /\ WaitsOK' /\ TimersOK'
               /\ w \in All /\ Modes(k)[w] = "BLOCKED" /\ QueueAt(pc[w]) = q
               /\ \A u \in All : Modes(k')[u] = IF u = w THEN "AWAKE" ELSE Modes(k)[u]
               /\ \A u \in All : k'.ret[u] = IF u = w THEN "NO_ERROR" ELSE k.ret[u]
               /\ \A u \in All : Modes(k')[u] = "DEATH" <=> Modes(k)[u] = "DEATH"
               /\ \A x \in Queues : x # q => k'.wait[x] = k.wait[x]
<1> DEFINE w == Head(k.wait[q])
           s == Tail(k.wait[q])
           W == {w}
<1>1. /\ CpuOK(k) /\ QueueOK(k, q) /\ k.ret \in [All -> Results] /\ k.wait \in [Queues -> Seq(All)]
      /\ Modes(k) \in [All -> {"AWAKE", "NONE", "SUSPENDED", "BLOCKED", "SLEEPING", "DEATH"}]
    BY Facts DEF KernelInv
<1>2. /\ CpuOK(k') /\ Modes(k') = [Modes(k) EXCEPT ![w] = "AWAKE"]
      /\ k'.wait = [k.wait EXCEPT ![q] = s]
      /\ k'.ret = [k.ret EXCEPT ![w] = "NO_ERROR"]
  <2>1. CpuOK(k) /\ QueueOK(k, q) /\ k.wait[q] # <<>>
    BY <1>1
  <2>2. LET r == WakeOne(k, q, reschedule)
            t == Head(k.wait[q])
        IN  /\ CpuOK(r) /\ Modes(r) = [Modes(k) EXCEPT ![t] = "AWAKE"]
            /\ r.wait = [k.wait EXCEPT ![q] = Tail(@)]
            /\ r.ret = [k.ret EXCEPT ![t] = "NO_ERROR"]
    BY <2>1, WakeOneOK
  <2> QED BY <2>2
<1>3. IsInjective(s) /\ Range(s) = Range(k.wait[q]) \ W /\ w \in Range(k.wait[q])
  <2> DEFINE x == k.wait[q]
  <2>1. x \in Seq(All) /\ x # <<>> /\ IsInjective(x)
    BY <1>1 DEF QueueOK
  <2> HIDE DEF x
  <2>2. IsInjective(Tail(x)) /\ Range(Tail(x)) = Range(x) \ {Head(x)} /\ Head(x) \in Range(x)
    BY <2>1, TakeHead
  <2> QED BY <2>2 DEF x
<1> HIDE DEF w, s
<1>4. Modes(k') = [u \in All |-> IF u \in W THEN "AWAKE" ELSE Modes(k)[u]]
    BY <1>1, <1>2
<1>5. W \in SUBSET Range(k.wait[q])
    BY <1>3
<1> HIDE DEF W
<1>6. /\ CpuOK(k)' /\ LabelsOK' /\ ModesOK' /\ WaitsOK' /\ TimersOK'
      /\ \A u \in W : u \in All /\ Modes(k)[u] = "BLOCKED" /\ QueueAt(pc[u]) = q
      /\ \A u \in All : Modes(k')[u] = "DEATH" <=> Modes(k)[u] = "DEATH"
      /\ k'.wait[q] = s /\ \A x \in Queues : x # q => k'.wait[x] = k.wait[x]
  <2>1. CpuOK(k') /\ k'.wait = [k.wait EXCEPT ![q] = s]
    BY <1>2
  <2>2. IsInjective(s) /\ Range(s) = Range(k.wait[q]) \ W
    BY <1>3
  <2> QED BY <1>4, <1>5, <2>1, <2>2, Wakes
<1>7. w \in All /\ Modes(k)[w] = "BLOCKED" /\ QueueAt(pc[w]) = q
    BY <1>6 DEF W
<1>8. \A u \in All : /\ Modes(k')[u] = IF u = w THEN "AWAKE" ELSE Modes(k)[u]
                     /\ k'.ret[u] = IF u = w THEN "NO_ERROR" ELSE k.ret[u]
    BY <1>1, <1>2, <1>7
<1> QED BY <1>6, <1>7, <1>8 DEF w

LEMMA WakesAll ==
    ASSUME KernelInv, NEW q \in Queues, NEW reschedule \in BOOLEAN,
           k' = WakeAll(k, q, reschedule), UNCHANGED <<pc, timers>>
    PROVE  LET W == Range(k.wait[q])
           IN  /\ CpuOK(k)' /\ LabelsOK' /\ ModesOK' /\ WaitsOK' /\ TimersOK'
               /\ \A u \in W : u \in All /\ Modes(k)[u] = "BLOCKED" /\ QueueAt(pc[u]) = q
               /\ \A u \in All : Modes(k')[u] = IF u \in W THEN "AWAKE" ELSE Modes(k)[u]
               /\ \A u \in All : k'.ret[u] = IF u \in W THEN "NO_ERROR" ELSE k.ret[u]
               /\ \A u \in All : Modes(k')[u] = "DEATH" <=> Modes(k)[u] = "DEATH"
               /\ k'.wait[q] = <<>> /\ \A x \in Queues : x # q => k'.wait[x] = k.wait[x]
<1> DEFINE W == Range(k.wait[q])
           s == <<>>
<1>1. CpuOK(k) /\ QueueOK(k, q)
    BY Facts DEF KernelInv
<1>2. /\ CpuOK(k') /\ Modes(k') = [t \in All |-> IF t \in W THEN "AWAKE" ELSE Modes(k)[t]]
      /\ k'.wait = [k.wait EXCEPT ![q] = s]
      /\ k'.ret = [t \in All |-> IF t \in W THEN "NO_ERROR" ELSE k.ret[t]]
    BY <1>1, WakeAllOK
<1>3. IsInjective(s) /\ Range(s) = Range(k.wait[q]) \ W /\ W \in SUBSET Range(k.wait[q])
    BY DEF IsInjective, Range
<1> HIDE DEF s
<1>4. /\ CpuOK(k)' /\ LabelsOK' /\ ModesOK' /\ WaitsOK' /\ TimersOK'
      /\ \A u \in W : u \in All /\ Modes(k)[u] = "BLOCKED" /\ QueueAt(pc[u]) = q
      /\ \A u \in All : Modes(k')[u] = "DEATH" <=> Modes(k)[u] = "DEATH"
      /\ k'.wait[q] = s /\ \A x \in Queues : x # q => k'.wait[x] = k.wait[x]
  <2> HIDE DEF W
  <2> QED BY <1>2, <1>3, Wakes
<1> HIDE DEF W
<1>5. \A u \in All : /\ Modes(k')[u] = IF u \in W THEN "AWAKE" ELSE Modes(k)[u]
                     /\ k'.ret[u] = IF u \in W THEN "NO_ERROR" ELSE k.ret[u]
    BY <1>2
<1> QED BY <1>4, <1>5 DEF W, s

\* mutex_release hands the mutex to the thread that has waited longest, or
\* finds nobody there.
LEMMA ReleaseStep ==
    ASSUME KernelInv, NEW t \in Threads, MutexRelease(t)
    PROVE  KernelInv'
<1>1. /\ t \in All /\ t # 0 /\ holder = t /\ holder' = 0 /\ count' = count - 1
      /\ QueueAt(pc[t]) = "none" /\ "mutex" \in Queues
      /\ UNCHANGED <<pc, timers, eventVars, dpcVars, irqVars>>
    BY AllFacts, QueueAtFacts DEF MutexRelease, At, Idle, Queues
<1>2. t \in Wanting /\ Wanting' = Wanting \ {t}
    BY <1>1 DEF Wanting
<1>3. count' = Cardinality(Wanting') /\ count' \in Nat /\ count \in Nat
    BY <1>1, <1>2, OneLess DEF KernelInv, MutexOK
<1>4. \A u \in All : HasMutex(u) <=> u = t
    BY <1>1 DEF KernelInv, MutexOK, HasMutex
<1>5. CASE count > 1 /\ k.wait["mutex"] # <<>>
  <2> DEFINE w == Head(k.wait["mutex"])
  <2>1. k' = WakeOne(k, "mutex", TRUE) /\ missed' = missed
    BY <1>5 DEF MutexRelease
  <2>2. /\ CpuOK(k)' /\ LabelsOK' /\ ModesOK' /\ WaitsOK' /\ TimersOK'
        /\ w \in All /\ Modes(k)[w] = "BLOCKED" /\ QueueAt(pc[w]) = "mutex"
        /\ \A u \in All : Modes(k')[u] = IF u = w THEN "AWAKE" ELSE Modes(k)[u]
        /\ \A u \in All : k'.ret[u] = IF u = w THEN "NO_ERROR" ELSE k.ret[u]
        /\ \A u \in All : Modes(k')[u] = "DEATH" <=> Modes(k)[u] = "DEATH"
        /\ \A x \in Queues : x # "mutex" => k'.wait[x] = k.wait[x]
    BY <1>1, <1>5, <2>1, WakesOne
  <2> HIDE DEF w
  <2>3. \A u \in All : HasMutex(u)' <=> u = w
    BY <1>1, <1>4, <2>2 DEF HasMutex
  <2>4. MutexOK'
    BY <1>1, <1>3, <2>1, <2>3 DEF KernelInv, MutexOK
  <2>5. DpcOK'
    BY <1>1, <2>2 DEF KernelInv, DpcOK, dpcVars
  <2>6. k'.wait["event"] = k.wait["event"] /\ k'.wait["dpc"] = k.wait["dpc"]
    BY <2>2 DEF Queues
  <2>7. ForgottenOK'
    BY <1>1, <2>2, <2>3, <2>6 DEF KernelInv, ForgottenOK, eventVars, dpcVars
  <2> QED BY <1>1, <2>2, <2>4, <2>5, <2>7, SameFlags
          DEF KernelInv, FlagsOK, eventVars, irqVars
<1>6. CASE ~ (count > 1 /\ k.wait["mutex"] # <<>>)
  <2>1. k' = k /\ missed' = (missed \/ count > 1)
    BY <1>6 DEF MutexRelease
  <2>2. \A u \in All : ~ HasMutex(u)'
    BY <1>1, <1>4, <2>1 DEF HasMutex
  <2>3. MutexOK'
    BY <1>1, <1>3, <2>1, <2>2 DEF KernelInv, MutexOK
  <2>4. missed' \/ count' = 0
    <3>1. CASE count > 1
      BY <2>1, <3>1
    <3>2. CASE ~ (count > 1)
      BY <1>1, <1>3, <3>2
    <3> QED BY <3>1, <3>2
  <2>5. ForgottenOK'
    BY <1>1, <2>1, <2>4 DEF KernelInv, ForgottenOK, eventVars, dpcVars
  <2>6. CpuOK(k') /\ Modes(k') = Modes(k) /\ k'.wait = k.wait /\ k'.ret = k.ret
    BY <2>1 DEF KernelInv
  <2> QED BY <1>1, <2>3, <2>5, <2>6, SameView, SameFlags
          DEF KernelInv, FlagsOK, eventVars, irqVars
<1> QED BY <1>5, <1>6

\* A thread comes out of a wait with a result, which is not needed again.
LEMMA Returns ==
    ASSUME KernelInv, NEW t \in Threads, Current = t, Goto(t, "run"), k' = Forget(t),
           timers' = timers \ {t}, UNCHANGED dpcVars
    PROVE  /\ CpuOK(k)' /\ LabelsOK' /\ ModesOK' /\ WaitsOK' /\ TimersOK' /\ DpcOK'
           /\ Modes(k') = Modes(k) /\ k'.wait = k.wait
           /\ \A u \in All : u # t => pc'[u] = pc[u] /\ k'.ret[u] = k.ret[u]
           /\ pc'[t] = "run" /\ t \in All /\ t # 0 /\ Modes(k)[t] = "AWAKE"
<1>1. /\ CpuOK(k) /\ SchedOK(k) /\ k \in Scheds /\ k.ret \in [All -> Results]
      /\ t \in All /\ t # Idle /\ t # Dpc /\ Modes(k)[t] = "AWAKE" /\ pc \in [All -> Labels]
      /\ pc' = [pc EXCEPT ![t] = "run"]
    BY Facts, AllFacts DEF KernelInv, CpuOK, SchedOK, LabelsOK, Goto
<1>2. /\ k' \in Scheds /\ k'.runq = k.runq /\ k'.bitmap = k.bitmap /\ k'.state = k.state
      /\ k'.wait = k.wait /\ k'.current = k.current
      /\ k'.ret = [k.ret EXCEPT ![t] = "NO_ERROR"]
    BY <1>1 DEF Forget, Scheds, Results
<1>3. SchedOK(k')
    BY <1>1, <1>2, FrameOK
<1>4. CpuOK(k') /\ Modes(k') = Modes(k)
    BY <1>1, <1>2, <1>3 DEF CpuOK, Runs, Modes
<1>5. \A u \in All : u # t => pc'[u] = pc[u] /\ k'.ret[u] = k.ret[u]
    BY <1>1, <1>2
<1>6. LabelsOK'
    BY <1>1, AllFacts DEF KernelInv, LabelsOK, Labels
<1>7. ModesOK'
    BY <1>1, <1>4 DEF KernelInv, ModesOK
<1>8. WaitsOK'
    BY <1>1, <1>2, <1>4 DEF KernelInv, WaitsOK
<1>9. timers \subseteq All
    BY BootAssumption, AllFacts DEF KernelInv, TimersOK
<1>10. TimersOK'
    BY <1>1, <1>4, <1>9 DEF KernelInv, TimersOK
<1>11. DpcOK'
    BY <1>1, <1>4, AllFacts DEF KernelInv, DpcOK, dpcVars
<1> QED BY <1>1, <1>2, <1>4, <1>5, <1>6, <1>7, <1>8, <1>10, <1>11 DEF Idle

LEMMA MutexReturnsStep ==
    ASSUME KernelInv, NEW t \in Threads, MutexReturns(t)
    PROVE  KernelInv'
<1>1. /\ Current = t /\ QueueAt(pc[t]) = "mutex" /\ Goto(t, "run") /\ k' = Forget(t)
      /\ timers' = timers \ {t} /\ UNCHANGED <<missed, eventVars, dpcVars, irqVars>>
    BY QueueAtFacts DEF MutexReturns, At
<1>2. /\ CpuOK(k)' /\ LabelsOK' /\ ModesOK' /\ WaitsOK' /\ TimersOK' /\ DpcOK'
      /\ Modes(k') = Modes(k) /\ k'.wait = k.wait
      /\ \A u \in All : u # t => pc'[u] = pc[u] /\ k'.ret[u] = k.ret[u]
      /\ pc'[t] = "run" /\ t \in All /\ t # 0 /\ Modes(k)[t] = "AWAKE"
    BY <1>1, Returns
<1>3. holder # t /\ t \in Wanting /\ QueueAt(pc'[t]) = "none"
    BY <1>1, <1>2, QueueAtFacts DEF KernelInv, MutexOK, Wanting
<1>4. holder # 0 => holder \in All
    BY AllFacts DEF KernelInv, MutexOK
<1>5. MutexOK' /\ (missed' \/ count' = 0 \/ \E u \in All : HasMutex(u)')
  <2>1. CASE k.ret[t] = "TIMED_OUT"
    <3>1. count' = count - 1 /\ holder' = holder
      BY <2>1 DEF MutexReturns
    <3>2. Wanting' = Wanting \ {t}
      BY <1>2, <1>3, <3>1 DEF Wanting
    <3>3. count' = Cardinality(Wanting') /\ count' \in Nat
      BY <1>3, <3>1, <3>2, OneLess
    <3>4. \A u \in All : HasMutex(u)' <=> HasMutex(u)
      BY <1>2, <1>3, <2>1, <3>1 DEF HasMutex
    <3>5. MutexOK'
      BY <1>1, <1>2, <1>3, <1>4, <3>1, <3>3, <3>4 DEF KernelInv, MutexOK
    <3>6. count # 0
      BY <1>3, NobodyWants
    <3> QED BY <1>1, <3>4, <3>5, <3>6 DEF KernelInv, ForgottenOK
  <2>2. CASE k.ret[t] # "TIMED_OUT"
    <3>1. count' = count /\ holder' = t /\ k.ret[t] = "NO_ERROR"
      BY <1>2, <2>2, Facts DEF MutexReturns, Results
    <3>2. HasMutex(t)
      BY <1>1, <1>2, <3>1 DEF HasMutex
    <3>3. holder = 0
      <4>1. ASSUME holder # 0 PROVE FALSE
        <5>1. HasMutex(holder) /\ holder \in All
          BY <1>4, <4>1 DEF HasMutex
        <5>2. holder = t
          BY <1>2, <3>2, <5>1 DEF KernelInv, MutexOK
        <5> QED BY <1>3, <5>2
      <4> QED BY <4>1
    <3>4. \A u \in All : HasMutex(u)' <=> u = t
      BY <1>2, <1>3, <3>1, <3>2 DEF KernelInv, MutexOK, HasMutex
    <3>5. Wanting' = Wanting
      BY <1>1, <1>2, <1>3, <3>1, <3>3 DEF Wanting
    <3>6. MutexOK'
      BY <1>1, <1>2, <1>3, <3>1, <3>4, <3>5 DEF KernelInv, MutexOK
    <3> QED BY <1>2, <3>4, <3>6
  <2> QED BY <2>1, <2>2
<1>6. ForgottenOK'
    BY <1>1, <1>2, <1>5 DEF KernelInv, ForgottenOK, eventVars, dpcVars
<1> QED BY <1>1, <1>2, <1>5, <1>6, SameFlags DEF KernelInv, FlagsOK, eventVars, irqVars

LEMMA EventReturnsStep ==
    ASSUME KernelInv, NEW t \in Threads, EventReturns(t)
    PROVE  KernelInv'
<1>1. /\ Current = t /\ QueueAt(pc[t]) = "event" /\ Goto(t, "run") /\ k' = Forget(t)
      /\ timers' = timers \ {t} /\ UNCHANGED <<mutexVars, eventVars, dpcVars, irqVars>>
    BY QueueAtFacts DEF EventReturns, At
<1>2. /\ CpuOK(k)' /\ LabelsOK' /\ ModesOK' /\ WaitsOK' /\ TimersOK' /\ DpcOK'
      /\ Modes(k') = Modes(k) /\ k'.wait = k.wait
      /\ \A u \in All : u # t => pc'[u] = pc[u] /\ k'.ret[u] = k.ret[u]
      /\ pc'[t] = "run" /\ t \in All /\ t # 0 /\ Modes(k)[t] = "AWAKE"
    BY <1>1, Returns
<1>3. QueueAt(pc'[t]) = "none"
    BY <1>2, QueueAtFacts
<1>4. holder # 0 => holder \in All
    BY AllFacts DEF KernelInv, MutexOK
<1>5. Wanting' = Wanting
    BY <1>1, <1>2, <1>3 DEF Wanting, mutexVars
<1>6. \A u \in All : HasMutex(u)' <=> HasMutex(u)
    BY <1>1, <1>2, <1>3 DEF HasMutex, mutexVars
<1>7. MutexOK'
    BY <1>1, <1>2, <1>3, <1>4, <1>5, <1>6 DEF KernelInv, MutexOK, mutexVars
<1>8. ForgottenOK'
    BY <1>1, <1>2, <1>6 DEF KernelInv, ForgottenOK, mutexVars, eventVars, dpcVars
<1> QED BY <1>1, <1>2, <1>7, <1>8, SameFlags DEF KernelInv, FlagsOK, eventVars, irqVars

\* Threads that come out of the wait for the event do not concern the mutex.
LEMMA NotMutexWakes ==
    ASSUME KernelInv, NEW W \in SUBSET All, \A u \in W : QueueAt(pc[u]) # "mutex",
           \A u \in All : u \notin W => Modes(k')[u] = Modes(k)[u] /\ k'.ret[u] = k.ret[u],
           UNCHANGED <<pc, mutexVars>>
    PROVE  MutexOK' /\ \A u \in All : HasMutex(u)' <=> HasMutex(u)
<1>1. \A u \in All : HasMutex(u)' <=> HasMutex(u)
    BY DEF HasMutex, mutexVars
<1>2. Wanting' = Wanting
    BY DEF Wanting, mutexVars
<1>3. MutexOK'
    BY <1>1, <1>2 DEF KernelInv, MutexOK, mutexVars
<1> QED BY <1>1, <1>3

LEMMA SignalStep ==
    ASSUME KernelInv, NEW t \in Threads, NEW reschedule \in BOOLEAN, EventSignal(t, reschedule)
    PROVE  KernelInv'
<1>1. /\ UNCHANGED <<pc, timers, mutexVars, auto, dpcVars, irqVars>> /\ "event" \in Queues
      /\ signalled' = [signalled EXCEPT !["event"] = ~auto \/ k.wait["event"] = <<>>]
      /\ signalled \in [{"event", "dpc"} -> BOOLEAN] /\ auto \in BOOLEAN
    BY DEF EventSignal, Queues, KernelInv, ForgottenOK, FlagsOK
<1>2. CASE k.wait["event"] = <<>>
  <2>1. k' = k
    BY <1>2 DEF EventSignal
  <2>2. ForgottenOK'
    BY <1>1, <1>2, <2>1 DEF KernelInv, ForgottenOK, HasMutex, mutexVars, dpcVars
  <2>3. CpuOK(k') /\ Modes(k') = Modes(k) /\ k'.wait = k.wait /\ k'.ret = k.ret
    BY <2>1 DEF KernelInv
  <2> QED BY <1>1, <2>2, <2>3, SameView, SameFlags
          DEF KernelInv, FlagsOK, mutexVars, dpcVars, irqVars
<1>3. CASE k.wait["event"] # <<>> /\ auto
  <2> DEFINE w == Head(k.wait["event"])
             W == {w}
  <2>1. k' = WakeOne(k, "event", reschedule)
    BY <1>3 DEF EventSignal
  <2>2. /\ CpuOK(k)' /\ LabelsOK' /\ ModesOK' /\ WaitsOK' /\ TimersOK'
        /\ w \in All /\ Modes(k)[w] = "BLOCKED" /\ QueueAt(pc[w]) = "event"
        /\ \A u \in All : Modes(k')[u] = IF u = w THEN "AWAKE" ELSE Modes(k)[u]
        /\ \A u \in All : k'.ret[u] = IF u = w THEN "NO_ERROR" ELSE k.ret[u]
        /\ \A u \in All : Modes(k')[u] = "DEATH" <=> Modes(k)[u] = "DEATH"
        /\ \A x \in Queues : x # "event" => k'.wait[x] = k.wait[x]
    BY <1>1, <1>3, <2>1, WakesOne
  <2> HIDE DEF w
  <2>3. /\ W \in SUBSET All /\ \A u \in W : QueueAt(pc[u]) # "mutex"
        /\ \A u \in All : u \notin W => Modes(k')[u] = Modes(k)[u] /\ k'.ret[u] = k.ret[u]
    BY <2>2
  <2> HIDE DEF W
  <2>4. MutexOK' /\ \A u \in All : HasMutex(u)' <=> HasMutex(u)
    BY <1>1, <2>3, NotMutexWakes
  <2>5. DpcOK'
    BY <1>1, <2>2 DEF KernelInv, DpcOK, dpcVars
  <2>6. k'.wait["dpc"] = k.wait["dpc"]
    BY <2>2 DEF Queues
  <2>7. ForgottenOK'
    BY <1>1, <1>3, <2>4, <2>6 DEF KernelInv, ForgottenOK, mutexVars, dpcVars
  <2> QED BY <1>1, <2>2, <2>4, <2>5, <2>7, SameFlags DEF KernelInv, FlagsOK, irqVars
<1>4. CASE k.wait["event"] # <<>> /\ ~ auto
  <2> DEFINE W == Range(k.wait["event"])
  <2>1. k' = WakeAll(k, "event", reschedule)
    BY <1>4 DEF EventSignal
  <2>2. /\ CpuOK(k)' /\ LabelsOK' /\ ModesOK' /\ WaitsOK' /\ TimersOK'
        /\ \A u \in W : u \in All /\ Modes(k)[u] = "BLOCKED" /\ QueueAt(pc[u]) = "event"
        /\ \A u \in All : Modes(k')[u] = IF u \in W THEN "AWAKE" ELSE Modes(k)[u]
        /\ \A u \in All : k'.ret[u] = IF u \in W THEN "NO_ERROR" ELSE k.ret[u]
        /\ \A u \in All : Modes(k')[u] = "DEATH" <=> Modes(k)[u] = "DEATH"
        /\ k'.wait["event"] = <<>>
        /\ \A x \in Queues : x # "event" => k'.wait[x] = k.wait[x]
    BY <1>1, <2>1, WakesAll
  <2> HIDE DEF W
  <2>3. /\ W \in SUBSET All /\ \A u \in W : QueueAt(pc[u]) # "mutex"
        /\ \A u \in All : u \notin W => Modes(k')[u] = Modes(k)[u] /\ k'.ret[u] = k.ret[u]
    BY <2>2
  <2>4. MutexOK' /\ \A u \in All : HasMutex(u)' <=> HasMutex(u)
    BY <1>1, <2>3, NotMutexWakes
  <2>5. DpcOK'
    BY <1>1, <2>2 DEF KernelInv, DpcOK, dpcVars
  <2>6. k'.wait["dpc"] = k.wait["dpc"]
    BY <2>2 DEF Queues
  <2>7. ForgottenOK'
    BY <1>1, <2>2, <2>4, <2>6 DEF KernelInv, ForgottenOK, mutexVars, dpcVars
  <2> QED BY <1>1, <2>2, <2>4, <2>5, <2>7, SameFlags DEF KernelInv, FlagsOK, irqVars
<1> QED BY <1>1, <1>2, <1>3, <1>4

\* thread_exit: with dpc_event signalled there is nobody to wake.
LEMMA ExitStep ==
    ASSUME KernelInv, NEW t \in Threads, ThreadExit(t)
    PROVE  KernelInv'
<1> DEFINE W == Range(k.wait["dpc"])
<1>1. /\ Modes(k) \in [All -> {"AWAKE", "NONE", "SUSPENDED", "BLOCKED", "SLEEPING", "DEATH"}]
      /\ Modes(k)[t] = "AWAKE" /\ Modes(k)[Idle] = "AWAKE" /\ CpuOK(k) /\ t = k.current
      /\ k.wait \in [Queues -> Seq(All)] /\ k.ret \in [All -> Results]
      /\ t \in All /\ t # Idle /\ t # 0 /\ t # Dpc /\ pc[t] = "run" /\ "dpc" \in Queues
      /\ QueueOK(k, "dpc") /\ dpcs' = Append(dpcs, t) /\ cleaning' = cleaning
      /\ UNCHANGED <<pc, timers, mutexVars, auto, irqVars>>
    BY Facts, AllFacts DEF KernelInv, ThreadExit, At, Current, Queues, Idle
<1>2. /\ CpuOK(k') /\ k'.wait = [k.wait EXCEPT !["dpc"] = <<>>]
      /\ \A u \in All : /\ Modes(k')[u] = IF u \in W THEN "AWAKE"
                                          ELSE IF u = t THEN "DEATH" ELSE Modes(k)[u]
                        /\ u \notin W => k'.ret[u] = k.ret[u]
  <2>1. k.current # Idle /\ CpuOK(k) /\ Modes(k)[Idle] = "AWAKE"
    BY <1>1
  <2>2. CASE signalled["dpc"]
    <3>1. LET r == Resched[SetState(k, k.current, "DEATH")]
          IN  /\ CpuOK(r) /\ Modes(r) = [Modes(k) EXCEPT ![k.current] = "DEATH"]
              /\ r.wait = k.wait /\ r.ret = k.ret
      BY <2>1, LeaveCpu
    <3>2. k' = Resched[SetState(k, k.current, "DEATH")]
      BY <1>1, <2>2 DEF ThreadExit
    <3>3. k.wait["dpc"] = <<>>
      BY <2>2 DEF KernelInv, ForgottenOK
    <3>4. W = {} /\ k.wait = [k.wait EXCEPT !["dpc"] = <<>>]
      <4>1. Range(<<>>) = {}
        BY DEF Range
      <4>2. k.wait = [k.wait EXCEPT !["dpc"] = k.wait["dpc"]]
        BY <1>1
      <4> QED BY <3>3, <4>1, <4>2
    <3> HIDE DEF W
    <3> QED BY <1>1, <3>1, <3>2, <3>4
  <2>3. CASE ~ signalled["dpc"]
    <3> DEFINE r == Resched[WakeAll(SetState(k, k.current, "DEATH"), "dpc", FALSE)]
               modes == [Modes(k) EXCEPT ![k.current] = "DEATH"]
    <3>1. /\ CpuOK(r)
          /\ Modes(r) = [u \in All |-> IF u \in W THEN "AWAKE" ELSE modes[u]]
          /\ r.wait = [k.wait EXCEPT !["dpc"] = <<>>]
          /\ r.ret = [u \in All |-> IF u \in W THEN "NO_ERROR" ELSE k.ret[u]]
      <4>1. QueueOK(k, "dpc") /\ "dpc" \in Queues
        BY <1>1
      <4> QED BY <2>1, <4>1, ExitWakes
    <3>2. k' = r
      BY <1>1, <2>3 DEF ThreadExit
    <3> HIDE DEF r, W
    <3>3. \A u \in All : modes[u] = IF u = t THEN "DEATH" ELSE Modes(k)[u]
      BY <1>1
    <3> HIDE DEF modes
    <3> QED BY <3>1, <3>2, <3>3
  <2> QED BY <2>2, <2>3
<1>3. W \subseteq All
    BY <1>1 DEF Range
<1>4. \A u \in W : Modes(k)[u] = "BLOCKED" /\ QueueAt(pc[u]) = "dpc"
    BY <1>1, <1>3 DEF KernelInv, WaitsOK
<1>5. k'.wait["dpc"] = <<>> /\ \A x \in Queues : x # "dpc" => k'.wait[x] = k.wait[x]
    BY <1>1, <1>2
<1>6. Range(k'.wait["dpc"]) = {} /\ IsInjective(k'.wait["dpc"]) /\ QueueAt(pc[t]) = "none"
    BY <1>1, <1>5, QueueAtFacts DEF Range, IsInjective
<1> HIDE DEF W
<1>7. LabelsOK'
    BY <1>1 DEF KernelInv, LabelsOK
<1>8. ModesOK'
    BY <1>1, <1>2 DEF KernelInv, ModesOK
<1>9. WaitsOK'
  <2>1. ASSUME NEW x \in Queues
        PROVE  /\ IsInjective(k'.wait[x])
               /\ \A u \in All : u \in Range(k'.wait[x])
                                    <=> Modes(k')[u] = "BLOCKED" /\ QueueAt(pc[u]) = x
    <3>1. /\ IsInjective(k.wait[x])
          /\ \A u \in All : u \in Range(k.wait[x])
                               <=> Modes(k)[u] = "BLOCKED" /\ QueueAt(pc[u]) = x
      BY DEF KernelInv, WaitsOK
    <3>2. CASE x = "dpc"
      BY <1>2, <1>4, <1>6, <3>1, <3>2 DEF W
    <3>3. CASE x # "dpc"
      BY <1>1, <1>2, <1>4, <1>5, <1>6, <3>1, <3>3
    <3> QED BY <3>2, <3>3
  <2> QED BY <1>1, <2>1 DEF WaitsOK
<1>10. timers \subseteq All
    BY BootAssumption, AllFacts DEF KernelInv, TimersOK
<1>11. TimersOK'
    BY <1>1, <1>2, <1>4, <1>10 DEF KernelInv, TimersOK
<1>12. DpcOK'
  <2>1. t \notin Range(dpcs) /\ t # cleaning /\ dpcs \in Seq(Threads) /\ IsInjective(dpcs)
    BY <1>1 DEF KernelInv, DpcOK
  <2>2. dpcs' \in Seq(Threads) /\ IsInjective(dpcs') /\ Range(dpcs') = Range(dpcs) \cup {t}
    BY <1>1, <2>1, PutAtTail
  <2>3. t \notin W
    BY <1>1, <1>4
  <2> QED BY <1>1, <1>2, <1>4, <2>1, <2>2, <2>3 DEF KernelInv, DpcOK
<1>13. \A u \in All : HasMutex(u)' <=> HasMutex(u)
    BY <1>1, <1>2, <1>4, <1>6 DEF HasMutex, mutexVars
<1>14. Wanting' = Wanting
    BY <1>1 DEF Wanting, mutexVars
<1>15. MutexOK'
    BY <1>1, <1>13, <1>14 DEF KernelInv, MutexOK, mutexVars
<1>16. k'.wait["event"] = k.wait["event"]
    BY <1>5 DEF Queues
<1>17. ForgottenOK'
  <2>1. signalled' = [signalled EXCEPT !["dpc"] = TRUE] /\ signalled \in [{"event", "dpc"} -> BOOLEAN]
    BY DEF KernelInv, ForgottenOK, ThreadExit
  <2>2. /\ signalled' \in [{"event", "dpc"} -> BOOLEAN]
        /\ signalled'["dpc"] = TRUE /\ signalled'["event"] = signalled["event"]
    BY <2>1
  <2>3. missed' \/ count' = 0 \/ \E u \in All : HasMutex(u)'
    BY <1>1, <1>13 DEF KernelInv, ForgottenOK, mutexVars
  <2>4. signalled["event"] => k.wait["event"] = <<>>
    BY DEF KernelInv, ForgottenOK
  <2> QED BY <1>5, <1>16, <2>2, <2>3, <2>4 DEF ForgottenOK
<1> QED BY <1>1, <1>2, <1>7, <1>8, <1>9, <1>11, <1>12, <1>15, <1>17, SameFlags
        DEF KernelInv, FlagsOK, irqVars

----------------------------------------------------------------------------
(* The timer interrupt.                                                    *)

LEMMA TimerFiresStep ==
    ASSUME KernelInv, NEW t \in timers, TimerFires(t)
    PROVE  KernelInv'
<1>1. /\ t \in Threads /\ t \in All /\ t # Dpc /\ timers \subseteq All /\ timers' = timers \ {t}
      /\ Modes(k) \in [All -> {"AWAKE", "NONE", "SUSPENDED", "BLOCKED", "SLEEPING", "DEATH"}]
      /\ UNCHANGED <<pc, mutexVars, eventVars, dpcVars>> /\ CpuOK(k)
      /\ k.wait \in [Queues -> Seq(All)] /\ k.ret \in [All -> Results]
    BY BootAssumption, AllFacts, Facts DEF KernelInv, TimersOK, TimerFires
<1>2. FlagsOK'
    BY <1>1 DEF KernelInv, FlagsOK, TimerFires, eventVars
<1>3. CASE pc[t] = "sleep"
  <2>1. Modes(k)[t] = "SLEEPING" /\ QueueAt(pc[t]) = "none"
    BY <1>3, QueueAtFacts DEF KernelInv, TimersOK
  <2>2. /\ CpuOK(k') /\ Modes(k') = [Modes(k) EXCEPT ![t] = "AWAKE"]
        /\ k'.wait = k.wait /\ k'.ret = k.ret
    <3>1. k' = ReadyAtHead(k, t)
      BY <1>3 DEF TimerFires, Late
    <3> QED BY <1>1, <2>1, <3>1, GetReady
  <2>3. \A u \in All : Modes(k')[u] = IF u = t THEN "AWAKE" ELSE Modes(k)[u]
    BY <1>1, <2>2
  <2>4. LabelsOK'
    BY <1>1 DEF KernelInv, LabelsOK
  <2>5. ModesOK'
    BY <1>1, <2>3 DEF KernelInv, ModesOK
  <2>6. WaitsOK'
    BY <1>1, <2>1, <2>2, <2>3 DEF KernelInv, WaitsOK
  <2>7. TimersOK'
    BY <1>1, <2>3 DEF KernelInv, TimersOK
  <2>8. DpcOK'
    <3>1. \A u \in All : Modes(k')[u] = "DEATH" <=> Modes(k)[u] = "DEATH"
      BY <2>1, <2>3
    <3> QED BY <1>1, <3>1 DEF KernelInv, DpcOK, dpcVars
  <2>9. \A u \in All : HasMutex(u)' <=> HasMutex(u)
    BY <1>1, <2>1, <2>2, <2>3 DEF HasMutex, mutexVars
  <2>10. MutexOK'
    BY <1>1, <2>9 DEF KernelInv, MutexOK, Wanting, mutexVars
  <2>11. ForgottenOK'
    BY <1>1, <2>2, <2>9 DEF KernelInv, ForgottenOK, mutexVars, eventVars, dpcVars
  <2> QED BY <1>2, <2>2, <2>4, <2>5, <2>6, <2>7, <2>8, <2>10, <2>11 DEF KernelInv
<1>4. CASE Late(t)
  <2>1. k' = k /\ pc[t] # "sleep"
    BY <1>4 DEF TimerFires, Late
  <2>2. CpuOK(k') /\ Modes(k') = Modes(k) /\ k'.wait = k.wait /\ k'.ret = k.ret
    BY <1>1, <2>1
  <2>3. Modes(k)[t] # "SLEEPING"
    BY <1>1, <2>1 DEF KernelInv, ModesOK
  <2>4. TimersOK'
    BY <1>1, <2>1, <2>3 DEF KernelInv, TimersOK
  <2> QED BY <1>1, <1>2, <2>2, <2>4, SameView DEF KernelInv, eventVars
<1>5. CASE pc[t] # "sleep" /\ ~ Late(t)
  <2> DEFINE q == QueueAt(pc[t])
             W == {t}
             s == Removed(k.wait[q], t)
  <2>1. k' = Unblock(k, q, t) /\ q \in Queues /\ Modes(k)[t] = "BLOCKED"
    <3>1. k.state[t] = "BLOCKED" /\ Modes(k)[t] = "BLOCKED"
      BY <1>1, <1>5 DEF Late, Modes
    <3>2. QueueOf(t) = q
      BY DEF QueueOf, QueueAt
    <3>3. q \in Queues
      BY <1>1, <3>1, QueueAtFacts DEF KernelInv, ModesOK, LabelsOK
    <3> QED BY <1>5, <3>1, <3>2, <3>3 DEF TimerFires
  <2>2. t \in Range(k.wait[q]) /\ QueueOK(k, q) /\ IsInjective(k.wait[q])
    BY <1>1, <2>1, Facts DEF KernelInv, WaitsOK
  <2> HIDE DEF q
  <2>3. /\ CpuOK(k') /\ Modes(k') = [Modes(k) EXCEPT ![t] = "AWAKE"]
        /\ k'.wait = [k.wait EXCEPT ![q] = s]
        /\ k'.ret = [k.ret EXCEPT ![t] = "TIMED_OUT"]
    <3>1. LET r == Unblock(k, q, t)
          IN  /\ CpuOK(r) /\ Modes(r) = [Modes(k) EXCEPT ![t] = "AWAKE"]
              /\ r.current = k.current
              /\ r.wait = [k.wait EXCEPT ![q] = Removed(@, t)]
              /\ r.ret = [k.ret EXCEPT ![t] = "TIMED_OUT"]
      BY <1>1, <2>1, <2>2, UnblockOK
    <3> QED BY <1>1, <2>1, <3>1
  <2>4. IsInjective(s) /\ Range(s) = Range(k.wait[q]) \ W
    <3> DEFINE x == k.wait[q]
    <3>1. x \in Seq(All) /\ IsInjective(x) /\ t \in Range(x)
      BY <1>1, <2>1, <2>2
    <3> HIDE DEF x
    <3>2. IsInjective(Removed(x, t)) /\ Range(Removed(x, t)) = Range(x) \ {t}
      BY <3>1, TakeOut
    <3> QED BY <3>2 DEF x
  <2> HIDE DEF s
  <2>5. /\ Modes(k') = [u \in All |-> IF u \in W THEN "AWAKE" ELSE Modes(k)[u]]
        /\ \A u \in All : k'.ret[u] = IF u = t THEN "TIMED_OUT" ELSE k.ret[u]
        /\ \A u \in All : Modes(k')[u] = IF u = t THEN "AWAKE" ELSE Modes(k)[u]
    BY <1>1, <2>3
  <2>6. W \in SUBSET Range(k.wait[q]) /\ \A u \in timers \ timers' : Modes(k)[u] # "SLEEPING"
    BY <1>1, <2>1, <2>2
  <2> HIDE DEF W
  <2>7. /\ CpuOK(k)' /\ LabelsOK' /\ ModesOK' /\ WaitsOK' /\ TimersOK'
        /\ \A u \in All : Modes(k')[u] = "DEATH" <=> Modes(k)[u] = "DEATH"
        /\ \A x \in Queues : x # q => k'.wait[x] = k.wait[x]
    <3>1. CpuOK(k') /\ k'.wait = [k.wait EXCEPT ![q] = s] /\ timers' \subseteq timers /\ pc' = pc
      BY <1>1, <2>3
    <3>2. Modes(k') = [u \in All |-> IF u \in W THEN "AWAKE" ELSE Modes(k)[u]]
      BY <2>5
    <3>3. q \in Queues
      BY <2>1
    <3> QED BY <2>4, <2>6, <3>1, <3>2, <3>3, Wakes
  <2>8. \A u \in All : HasMutex(u)' <=> HasMutex(u)
    <3>1. "TIMED_OUT" # "NO_ERROR"
      OBVIOUS
    <3> QED BY <1>1, <2>1, <2>5, <3>1 DEF HasMutex, mutexVars
  <2>9. MutexOK'
    BY <1>1, <2>8 DEF KernelInv, MutexOK, Wanting, mutexVars
  <2>10. DpcOK'
    BY <1>1, <2>7 DEF KernelInv, DpcOK, dpcVars
  <2>11. ASSUME NEW x \in Queues, k.wait[x] = <<>>
         PROVE  k'.wait[x] = <<>>
    <3>1. Range(<<>>) = {}
      BY DEF Range
    <3>2. x # q
      BY <2>2, <2>11, <3>1
    <3> QED BY <2>7, <2>11, <3>2
  <2>12. "event" \in Queues /\ "dpc" \in Queues
    BY DEF Queues
  <2>13. ForgottenOK'
    BY <1>1, <2>8, <2>11, <2>12 DEF KernelInv, ForgottenOK, mutexVars, eventVars, dpcVars
  <2> QED BY <1>2, <2>7, <2>9, <2>10, <2>13 DEF KernelInv
<1> QED BY <1>3, <1>4, <1>5 DEF Late

----------------------------------------------------------------------------
(* The theorems.                                                           *)

LEMMA InitKernelInv ==
    ASSUME Init
    PROVE  KernelInv
<1> DEFINE b == Bootstrap2
<1>1. /\ b \in Threads /\ b \in All /\ b # Idle /\ b # Dpc /\ Idle \in All /\ Dpc \in All
      /\ Idle # Dpc /\ 0 = Idle /\ Priority(b) \in Priorities
    BY BootAssumption, AllFacts, PriorityType DEF Idle
<1>2. /\ k.current = Idle /\ k.bitmap = {Priority(b)}
      /\ k.state = [t \in All |-> CASE t = Idle -> "RUNNING" [] t = Dpc -> "BLOCKED"
                                    [] t = b -> "READY" [] OTHER -> "NONE"]
      /\ k.runq = [p \in Priorities |-> IF p = Priority(b) THEN <<b>> ELSE <<>>]
      /\ k.quantum = [t \in Threads |-> 0]
      /\ k.wait = [q \in Queues |-> IF q = "dpc" THEN <<Dpc>> ELSE <<>>]
      /\ k.ret = [t \in All |-> "NO_ERROR"]
    BY DEF Init, BootSched
<1> HIDE DEF b
<1>3. /\ k.state[Idle] = "RUNNING" /\ k.state[Dpc] = "BLOCKED" /\ k.state[b] = "READY"
      /\ \A t \in All \ {Idle, Dpc, b} : k.state[t] = "NONE"
    BY <1>1, <1>2
<1>4. /\ Range(<<>>) = {} /\ IsInjective(<<>>)
      /\ \A x : Range(<<x>>) = {x} /\ IsInjective(<<x>>) /\ <<x>> # <<>>
    BY DEF Range, IsInjective
<1>5. k \in Scheds
  <2>1. k.state \in [All -> States]
    BY <1>1, <1>2 DEF States
  <2>2. k.runq \in [Priorities -> Seq(All)] /\ k.wait \in [Queues -> Seq(All)]
    BY <1>1, <1>2
  <2>3. k.quantum \in [Threads -> 0 .. Quantum] /\ k.ret \in [All -> Results]
    BY <1>2, QuantumAssumption DEF Results
  <2>4. k = [current |-> k.current, state |-> k.state, runq |-> k.runq, bitmap |-> k.bitmap,
             quantum |-> k.quantum, wait |-> k.wait, ret |-> k.ret]
    BY DEF Init, BootSched
  <2>5. k.current \in All /\ k.bitmap \in SUBSET Priorities
    BY <1>1, <1>2
  <2> QED BY <2>1, <2>2, <2>3, <2>4, <2>5 DEF Scheds
<1>6. RunqOK(k)
  <2>1. ASSUME NEW p \in Priorities
        PROVE  /\ IsInjective(k.runq[p])
               /\ \A t \in All : t \in Range(k.runq[p]) <=> k.state[t] = "READY" /\ Priority(t) = p
    <3>1. \A t \in All : k.state[t] = "READY" <=> t = b
      BY <1>1, <1>3
    <3>2. CASE p = Priority(b)
      BY <1>1, <1>2, <1>4, <3>1, <3>2
    <3>3. CASE p # Priority(b)
      BY <1>1, <1>2, <1>4, <3>1, <3>3
    <3> QED BY <3>2, <3>3
  <2> QED BY <2>1 DEF RunqOK
<1>7. BitmapOK(k)
    BY <1>1, <1>2, <1>4 DEF BitmapOK
<1>8. CpuOK(k)
    BY <1>1, <1>2, <1>3, <1>5, <1>6, <1>7 DEF CpuOK, SchedOK, Runs
<1>9. /\ Modes(k)[Idle] = "AWAKE" /\ Modes(k)[Dpc] = "BLOCKED" /\ Modes(k)[b] = "AWAKE"
      /\ \A t \in All \ {Idle, Dpc, b} : Modes(k)[t] = "NONE"
    BY <1>1, <1>3 DEF Modes
<1>10. /\ pc \in [All -> Labels] /\ pc[Dpc] = "dpc" /\ \A t \in All \ {Dpc} : pc[t] = "run"
       /\ QueueAt("run") = "none" /\ QueueAt("dpc") = "dpc"
    BY <1>1, QueueAtFacts DEF Init, Labels, Waits
<1>11. LabelsOK
    BY <1>1, <1>10, AllFacts DEF LabelsOK
<1>12. ModesOK
    BY <1>1, <1>9, <1>10 DEF ModesOK, All
<1>13. WaitsOK
  <2>1. ASSUME NEW q \in Queues
        PROVE  /\ IsInjective(k.wait[q])
               /\ \A t \in All : t \in Range(k.wait[q])
                                    <=> Modes(k)[t] = "BLOCKED" /\ QueueAt(pc[t]) = q
    <3>1. \A t \in All : Modes(k)[t] = "BLOCKED" <=> t = Dpc
      BY <1>1, <1>9
    <3>2. CASE q = "dpc"
      BY <1>1, <1>2, <1>4, <1>10, <3>1, <3>2
    <3>3. CASE q # "dpc"
      BY <1>1, <1>2, <1>4, <1>10, <3>1, <3>3
    <3> QED BY <3>2, <3>3
  <2> QED BY <2>1 DEF WaitsOK
<1>14. TimersOK
    BY <1>1, <1>9 DEF TimersOK, Init
<1>15. DpcOK
    BY <1>1, <1>4, <1>9, <1>10 DEF DpcOK, Init
<1>16. Wanting = {}
    BY <1>1, <1>10 DEF Wanting, Init
<1>17. MutexOK
    BY <1>1, <1>10, <1>16, FS_EmptySet DEF MutexOK, HasMutex, Init
<1>18. ForgottenOK /\ FlagsOK
    BY DEF ForgottenOK, FlagsOK, Init
<1> QED BY <1>8, <1>11, <1>12, <1>13, <1>14, <1>15, <1>17, <1>18 DEF KernelInv

LEMMA NextKernelInv ==
    ASSUME KernelInv, [Next]_vars
    PROVE  KernelInv'
<1>1. ASSUME UNCHANGED vars PROVE KernelInv'
  <2>1. UNCHANGED <<k, pc, timers, count, holder, missed, signalled, auto, dpcs, cleaning,
                    leaked, ticking>>
    BY <1>1 DEF vars, mutexVars, eventVars, dpcVars, irqVars
  <2>2. CpuOK(k') /\ Modes(k') = Modes(k) /\ k'.wait = k.wait /\ k'.ret = k.ret
    BY <2>1 DEF KernelInv
  <2> QED BY <2>1, <2>2, SameView, SameFlags DEF KernelInv, FlagsOK, mutexVars, dpcVars
<1>2. ASSUME KernelStep PROVE KernelInv'
    BY <1>2, DpcWaitStep, DpcAwakeStep, DpcTakeStep, DpcCleanupStep, SleepReturnsStep,
       MutexReturnsStep, EventReturnsStep, TickStep DEF KernelStep
<1>3. ASSUME NEW t \in Threads, Program(t) PROVE KernelInv'
    BY <1>3, CreateStep, ResumeStep, YieldStep, SleepStep, ExitStep, AcquireStep, TryStep,
       ReleaseStep, EventWaitStep, SignalStep, UnsignalStep DEF Program
<1>4. ASSUME NEW t \in All, TickIn(t) PROVE KernelInv'
    BY <1>4, TickStep DEF TickIn
<1> QED BY <1>1, <1>2, <1>3, <1>4, TimerFiresStep DEF Next, NotFollowed

LEMMA AlwaysKernelInv == Spec => []KernelInv
<1>1. Init => KernelInv
    BY InitKernelInv
<1>2. KernelInv /\ [Next]_vars => KernelInv'
    BY NextKernelInv
<1> QED BY <1>1, <1>2, PTL DEF Spec

\* A queue in which nobody stands twice has as many places as threads.
LEMMA LengthOfQueue ==
    ASSUME NEW S, NEW s \in Seq(S), IsInjective(s)
    PROVE  IsFiniteSet(Range(s)) /\ Cardinality(Range(s)) = Len(s)
<1> DEFINE n == Len(s)
<1>1. n \in Nat /\ DOMAIN s = 1 .. n /\ s \in [1 .. n -> S]
    OBVIOUS
<1>2. IsFiniteSet(1 .. n) /\ Cardinality(1 .. n) = n
    BY <1>1, FS_Interval
<1> HIDE DEF n
<1>3. s \in [1 .. n -> Range(s)]
    BY <1>1 DEF Range
<1>4. s \in Surjection(1 .. n, Range(s))
    BY <1>1, <1>3 DEF Surjection, Range
<1>5. s \in Injection(1 .. n, Range(s))
    BY <1>1, <1>3 DEF Injection, IsInjective
<1>6. ExistsBijection(1 .. n, Range(s))
    BY <1>4, <1>5 DEF Bijection, ExistsBijection
<1> QED BY <1>2, <1>6, FS_Bijection DEF n

\* What the model's own sets are in terms of modes.
LEMMA InModes ==
    ASSUME KernelInv
    PROVE  \A t \in All :
              /\ t \in In("READY") \cup In("RUNNING") <=> Modes(k)[t] = "AWAKE"
              /\ \A s \in {"BLOCKED", "SLEEPING", "DEATH"} : t \in In(s) <=> Modes(k)[t] = s
              /\ QueueOf(t) = QueueAt(pc[t])
              /\ t \in Holders \cup Handed <=> HasMutex(t)
              /\ t \in Wanting <=> \/ t \in Holders \cup Handed \cup GaveUp
                                   \/ t \in Range(k.wait["mutex"])
<1> SUFFICES ASSUME NEW t \in All
             PROVE  /\ t \in In("READY") \cup In("RUNNING") <=> Modes(k)[t] = "AWAKE"
                    /\ \A s \in {"BLOCKED", "SLEEPING", "DEATH"} : t \in In(s) <=> Modes(k)[t] = s
                    /\ QueueOf(t) = QueueAt(pc[t])
                    /\ t \in Holders \cup Handed <=> HasMutex(t)
                    /\ t \in Wanting <=> \/ t \in Holders \cup Handed \cup GaveUp
                                         \/ t \in Range(k.wait["mutex"])
    OBVIOUS
<1>1. k.state \in [All -> States] /\ k.state[t] \in States
    BY SchedFields DEF KernelInv, CpuOK, SchedOK
<1>2. t \in In("READY") \cup In("RUNNING") <=> Modes(k)[t] = "AWAKE"
    BY <1>1 DEF In, Modes, States
<1>3. \A s \in {"BLOCKED", "SLEEPING", "DEATH"} : t \in In(s) <=> Modes(k)[t] = s
    BY <1>1 DEF In, Modes
<1>4. QueueOf(t) = QueueAt(pc[t])
    BY DEF QueueOf, QueueAt
<1>5. t \in InMutexWait <=> Modes(k)[t] = "AWAKE" /\ QueueAt(pc[t]) = "mutex"
    BY <1>2, <1>4 DEF InMutexWait
<1>6. t \in Holders \cup Handed <=> HasMutex(t)
    BY <1>5 DEF Holders, Handed, HasMutex
<1>7. QueueAt(pc[t]) = "mutex" => Modes(k)[t] \in {"AWAKE", "BLOCKED"}
  <2>1. /\ Modes(k)[t] \in {"AWAKE", "NONE", "SUSPENDED", "BLOCKED", "SLEEPING", "DEATH"}
        /\ Modes(k)[t] = "SLEEPING" => pc[t] = "sleep"
        /\ Modes(k)[t] \in {"NONE", "SUSPENDED", "DEATH"} => pc[t] = "run"
    BY Facts DEF KernelInv, ModesOK
  <2> QED BY <2>1, QueueAtFacts
<1>8. t \in Range(k.wait["mutex"]) <=> Modes(k)[t] = "BLOCKED" /\ QueueAt(pc[t]) = "mutex"
    BY DEF KernelInv, WaitsOK, Queues
<1>9. t \in Wanting <=> \/ t \in Holders \cup Handed \cup GaveUp
                        \/ t \in Range(k.wait["mutex"])
    BY <1>5, <1>7, <1>8 DEF Wanting, Holders, Handed, GaveUp
<1> QED BY <1>2, <1>3, <1>4, <1>6, <1>9

LEMMA InvQueuesExact ==
    ASSUME KernelInv
    PROVE  QueuesExact
<1>1. TypeOK
    BY DEF KernelInv, CpuOK, SchedOK, LabelsOK, TimersOK, DpcOK, MutexOK, ForgottenOK, FlagsOK, TypeOK
<1>2. /\ k.runq \in [Priorities -> Seq(All)] /\ k.wait \in [Queues -> Seq(All)]
      /\ Current \in All
    BY SchedFields DEF KernelInv, CpuOK, SchedOK, Current
<1>3. In("RUNNING") = {Current}
    BY <1>2 DEF KernelInv, CpuOK, Runs, In, Current
<1>4. ASSUME NEW p \in Priorities
      PROVE  /\ IsInjective(k.runq[p])
             /\ Range(k.runq[p]) = {t \in In("READY") : Priority(t) = p}
  <2>1. Range(k.runq[p]) \subseteq All
    BY <1>2 DEF Range
  <2>2. /\ IsInjective(k.runq[p])
        /\ \A t \in All : t \in Range(k.runq[p]) <=> k.state[t] = "READY" /\ Priority(t) = p
    BY DEF KernelInv, CpuOK, SchedOK, RunqOK
  <2> QED BY <2>1, <2>2 DEF In
<1>5. k.bitmap = {p \in Priorities : k.runq[p] # <<>>}
    BY DEF KernelInv, CpuOK, SchedOK, BitmapOK
<1>6. ASSUME NEW q \in Queues
      PROVE  /\ IsInjective(k.wait[q])
             /\ Range(k.wait[q]) = {t \in In("BLOCKED") : QueueOf(t) = q}
  <2>1. Range(k.wait[q]) \subseteq All /\ In("BLOCKED") \subseteq All
    BY <1>2 DEF Range, In
  <2>2. /\ IsInjective(k.wait[q])
        /\ \A t \in All : t \in Range(k.wait[q]) <=> Modes(k)[t] = "BLOCKED" /\ QueueAt(pc[t]) = q
    BY DEF KernelInv, WaitsOK
  <2>3. \A t \in All : (t \in In("BLOCKED") <=> Modes(k)[t] = "BLOCKED") /\ QueueOf(t) = QueueAt(pc[t])
    BY InModes
  <2> QED BY <2>1, <2>2, <2>3
<1>7. In("SLEEPING") \subseteq timers
  <2>1. \A t \in All : t \in In("SLEEPING") <=> Modes(k)[t] = "SLEEPING"
    BY InModes
  <2> QED BY <2>1 DEF In, KernelInv, TimersOK
<1>8. \A t \in timers : pc[t] \in {"sleep", "mutexTimed", "eventTimed"}
    BY DEF KernelInv, TimersOK
<1>9. In("DEATH") = Range(dpcs) \cup ({cleaning} \ {0})
  <2>1. \A t \in All : t \in In("DEATH") <=> Modes(k)[t] = "DEATH"
    BY InModes
  <2>2. Range(dpcs) \subseteq All /\ {cleaning} \ {0} \subseteq All
    BY AllFacts DEF KernelInv, DpcOK, Range
  <2>3. \A t \in All : Modes(k)[t] = "DEATH" <=> t \in Range(dpcs) \/ (t = cleaning /\ t # 0)
    BY DEF KernelInv, DpcOK
  <2>4. In("DEATH") \subseteq All
    BY DEF In
  <2> QED BY <2>1, <2>2, <2>3, <2>4
<1>10. IsInjective(dpcs) /\ cleaning \notin Range(dpcs)
    BY DEF KernelInv, DpcOK
<1> QED BY <1>1, <1>3, <1>4, <1>5, <1>6, <1>7, <1>8, <1>9, <1>10 DEF QueuesExact

LEMMA InvMutexAccounted ==
    ASSUME KernelInv
    PROVE  MutexAccounted
<1> DEFINE H == Holders \cup Handed
           A == Holders \cup Handed \cup GaveUp
           B == Range(k.wait["mutex"])
<1>1. A \subseteq All /\ H \subseteq A
    BY AllFacts DEF KernelInv, MutexOK, Holders, Handed, GaveUp, InMutexWait, In
<1>2. B \subseteq All /\ IsFiniteSet(B) /\ Cardinality(B) = Len(k.wait["mutex"])
  <2>1. k.wait["mutex"] \in Seq(All) /\ IsInjective(k.wait["mutex"])
    BY Facts DEF KernelInv, WaitsOK, Queues
  <2>2. B \subseteq All
    BY <2>1 DEF Range
  <2> QED BY <2>1, <2>2, LengthOfQueue
<1>3. Wanting = A \cup B
  <2>1. \A t \in All : t \in Wanting <=> t \in A \/ t \in B
    BY InModes
  <2>2. Wanting \subseteq All
    BY DEF Wanting
  <2> QED BY <1>1, <1>2, <2>1, <2>2
<1>4. A \cap B = {}
  <2>1. \A t \in B : Modes(k)[t] = "BLOCKED" /\ QueueAt(pc[t]) = "mutex"
    BY <1>2 DEF KernelInv, WaitsOK, Queues
  <2>2. \A t \in InMutexWait : Modes(k)[t] = "AWAKE"
    BY InModes DEF InMutexWait, In
  <2>3. \A t \in Holders : QueueAt(pc[t]) # "mutex"
    BY DEF KernelInv, MutexOK, Holders
  <2> QED BY <2>1, <2>2, <2>3 DEF Handed, GaveUp
<1>5. IsFiniteSet(A) /\ IsFiniteSet(H)
    BY <1>1, AllFacts, FS_Subset
<1> HIDE DEF A, B, H
<1>6. count = Cardinality(A) + Cardinality(B)
  <2>1. Cardinality(A \cup B) = Cardinality(A) + Cardinality(B) - Cardinality(A \cap B)
    BY <1>2, <1>5, FS_Union
  <2>2. Cardinality(A) \in Nat /\ Cardinality(B) \in Nat /\ Cardinality(A \cap B) = 0
    BY <1>2, <1>4, <1>5, FS_CardinalityType, FS_EmptySet
  <2>3. count = Cardinality(A \cup B)
    BY <1>3 DEF KernelInv, MutexOK
  <2> QED BY <2>1, <2>2, <2>3
<1>7. Cardinality(H) <= 1
  <2>1. \A t, u \in H : t = u
    <3>1. \A t \in H : t \in All /\ HasMutex(t)
      BY <1>1, InModes DEF H
    <3> QED BY <3>1 DEF KernelInv, MutexOK
  <2>2. CASE H = {}
    BY <2>2, FS_EmptySet
  <2>3. CASE H # {}
    <3>1. PICK x \in H : H = {x}
      BY <2>1, <2>3
    <3> QED BY <3>1, FS_Singleton
  <2> QED BY <2>2, <2>3
<1> QED BY <1>2, <1>6, <1>7 DEF MutexAccounted, A, B, H

LEMMA InvNobodyForgotten ==
    ASSUME KernelInv
    PROVE  NobodyForgotten
<1>1. missed \/ NoWaiterOnFreeMutex
  <2>1. ASSUME ~ missed, k.wait["mutex"] # <<>>
        PROVE  Holders \cup Handed # {}
    <3> DEFINE s == k.wait["mutex"]
    <3>1. s \in Seq(All) /\ s # <<>>
      BY <2>1, Facts DEF Queues
    <3> HIDE DEF s
    <3>2. Range(s) # {} /\ Range(s) \subseteq All
      BY <3>1, NotEmpty DEF Range
    <3>3. Wanting # {}
      BY <3>2, InModes DEF s
    <3>4. count # 0
      BY <3>3, NobodyWants
    <3>5. PICK t \in All : HasMutex(t)
      BY <2>1, <3>4 DEF KernelInv, ForgottenOK
    <3> QED BY <3>5, InModes
  <2> QED BY <2>1 DEF NoWaiterOnFreeMutex, KernelInv, MutexOK
<1> QED BY <1>1 DEF NobodyForgotten, KernelInv, ForgottenOK

\* The states, the run queues, the bitmap, the wait queues, the timers and
\* the list of the dpc thread agree after every critical section and every
\* interrupt, whatever the threads do and whenever the timer fires.
THEOREM QueuesAlwaysExact == Spec => []QueuesExact
<1>1. KernelInv => QueuesExact
    BY InvQueuesExact
<1> QED BY <1>1, AlwaysKernelInv, PTL

\* The mutex has at most one holder, counting one that was handed it and has
\* not run yet, and its count is exact, also while threads that gave up have
\* not run again.
THEOREM MutexAlwaysAccounted == Spec => []MutexAccounted
<1>1. KernelInv => MutexAccounted
    BY InvMutexAccounted
<1> QED BY <1>1, AlwaysKernelInv, PTL

\* Nobody waits for what has happened already: a signalled event has no
\* waiter, a job does not wait for a dpc thread that sleeps, and a mutex with
\* waiters is free only after a release that was misled by a thread that had
\* given up.
THEOREM NobodyEverForgotten == Spec => []NobodyForgotten
<1>1. KernelInv => NobodyForgotten
    BY InvNobodyForgotten
<1> QED BY <1>1, AlwaysKernelInv, PTL

LEMMA MisledStep ==
    ASSUME KernelInv, [Next]_vars, missed', ~missed
    PROVE  GaveUp # {}
<1>1. PICK t \in Threads : MutexRelease(t)
  <2>1. missed' # missed
    BY Zenon
  <2>2. ASSUME KernelStep PROVE FALSE
    <3>1. CASE DpcWait \/ DpcAwake \/ DpcTake \/ DpcCleanup
      BY <2>1, <3>1 DEF DpcWait, DpcAwake, DpcTake, DpcCleanup, mutexVars
    <3>2. ASSUME NEW t \in Threads, SleepReturns(t) \/ MutexReturns(t) \/ EventReturns(t)
          PROVE  FALSE
      BY <2>1, <3>2 DEF SleepReturns, MutexReturns, EventReturns, mutexVars
    <3>3. CASE Tick
      BY <2>1, <3>3 DEF Tick, mutexVars
    <3> QED BY <2>2, <3>1, <3>2, <3>3 DEF KernelStep
  <2>3. ASSUME NEW t \in Threads, Program(t), ~ MutexRelease(t) PROVE FALSE
    BY <2>1, <2>3 DEF Program, ThreadCreate, ThreadResume, ThreadYield, ThreadSleep,
       ThreadExit, MutexAcquire, MutexTry, EventWait, EventSignal, EventUnsignal, mutexVars
  <2>4. ASSUME NEW t \in timers, TimerFires(t) PROVE FALSE
    BY <2>1, <2>4 DEF TimerFires, mutexVars
  <2>5. ASSUME NEW t \in All, TickIn(t) PROVE FALSE
    BY <2>1, <2>5 DEF TickIn, Tick, mutexVars
  <2>6. ASSUME UNCHANGED vars PROVE FALSE
    <3>1. UNCHANGED missed
      BY <2>6 DEF vars, mutexVars
    <3> QED BY <2>1, <3>1
  <2> QED BY <2>2, <2>3, <2>4, <2>5, <2>6 DEF Next, NotFollowed
<1>2. count > 1 /\ k.wait["mutex"] = <<>> /\ holder = t /\ t # 0
  BY <1>1, AllFacts, LkThreadsAssumption DEF MutexRelease, Idle
<1> DEFINE H == Holders \cup Handed
<1>3. Cardinality(H) <= 1 /\ count = Cardinality(H \cup GaveUp) + Len(k.wait["mutex"])
  BY InvMutexAccounted DEF MutexAccounted
<1>4. IsFiniteSet(H)
  <2>1. H \subseteq All
    BY AllFacts DEF KernelInv, MutexOK, Holders, Handed, InMutexWait, In
  <2> QED BY <2>1, AllFacts, FS_Subset
<1> HIDE DEF H
<1>5. Cardinality(H) \in Nat
  BY <1>4, FS_CardinalityType
<1>6. ASSUME GaveUp = {} PROVE FALSE
  <2>1. H \cup GaveUp = H /\ Len(k.wait["mutex"]) = 0
    BY <1>2, <1>6
  <2>2. count = Cardinality(H) + 0
    BY <1>3, <2>1
  <2> QED BY <1>2, <1>3, <1>5, <2>2
<1> QED BY <1>6

\* A release that finds the queue empty although the count says that others
\* want the mutex has been misled by a thread that gave up and has not run
\* again: nothing else makes the count too high.
THEOREM MisledOnlyByTimeout == Spec => MisledByTimeout
<1>1. KernelInv /\ [Next]_vars => [missed' /\ ~missed => GaveUp # {}]_vars
    BY MisledStep
<1> QED BY <1>1, AlwaysKernelInv, PTL DEF Spec, MisledByTimeout

\* No wait has ended with a timeout, as far as its thread has not run again.
NoTimeouts == \A t \in All : k.ret[t] = "NO_ERROR"

\* Where nobody waits with a timeout, no wait ends with one.
LEMMA NoTimeoutsStep ==
    ASSUME Timed = {}, KernelInv, NoTimeouts, [Next]_vars
    PROVE  NoTimeouts'
<1>1. /\ CpuOK(k) /\ timers = {} /\ Modes(k)[Idle] = "AWAKE" /\ k.ret \in [All -> Results]
      /\ Current \in All /\ \A q \in Queues : QueueOK(k, q)
    BY Facts DEF KernelInv, TimersOK
<1>2. CASE k'.ret = k.ret
    BY <1>2 DEF NoTimeouts
<1>3. ASSUME NEW t \in All, Current = t, t # Idle, NEW q \in Queues, k' = Block(k, q)
      PROVE  NoTimeouts'
  <2>1. k'.ret = [k.ret EXCEPT ![k.current] = "NO_ERROR"]
    BY <1>1, <1>3, BlockOK DEF Current
  <2> QED BY <1>1, <2>1 DEF NoTimeouts
<1>4. ASSUME NEW t \in Threads, k' = Forget(t)
      PROVE  NoTimeouts'
  <2>1. k'.ret = [k.ret EXCEPT ![t] = "NO_ERROR"]
    BY <1>1, <1>4, SchedFields DEF Forget, CpuOK, SchedOK, Scheds
  <2> QED BY <1>1, <2>1 DEF NoTimeouts
<1>5. ASSUME NEW q \in Queues, k.wait[q] # <<>>, NEW reschedule \in BOOLEAN,
             k' = WakeOne(k, q, reschedule)
      PROVE  NoTimeouts'
  <2>1. k'.ret = [k.ret EXCEPT ![Head(k.wait[q])] = "NO_ERROR"]
    BY <1>1, <1>5, WakeOneOK
  <2> QED BY <1>1, <2>1 DEF NoTimeouts
<1>6. ASSUME NEW q \in Queues, NEW reschedule \in BOOLEAN, k' = WakeAll(k, q, reschedule)
      PROVE  NoTimeouts'
  <2> DEFINE W == Range(k.wait[q])
  <2>1. CpuOK(k) /\ QueueOK(k, q)
    BY <1>1
  <2>2. LET r == WakeAll(k, q, reschedule)
        IN  /\ CpuOK(r) /\ Modes(r) = [t \in All |-> IF t \in W THEN "AWAKE" ELSE Modes(k)[t]]
            /\ r.wait = [k.wait EXCEPT ![q] = <<>>]
            /\ r.ret = [t \in All |-> IF t \in W THEN "NO_ERROR" ELSE k.ret[t]]
    BY <2>1, WakeAllOK
  <2> HIDE DEF W
  <2> QED BY <1>6, <2>2 DEF NoTimeouts
<1>7. CASE Tick
    BY <1>1, <1>2, <1>7, PreemptOK DEF Tick
<1>8. CASE KernelStep
  <2>1. CASE DpcWait
    BY <1>2, <1>3, <2>1, AllFacts DEF DpcWait, At, Queues
  <2>2. CASE DpcAwake \/ DpcTake
    BY <1>2, <2>2 DEF DpcAwake, DpcTake
  <2>3. CASE DpcCleanup
    BY <1>1, <1>2, <2>3, SchedFields DEF DpcCleanup, SetState, CpuOK, SchedOK, Scheds
  <2>4. ASSUME NEW t \in Threads, SleepReturns(t)
        PROVE  NoTimeouts'
    BY <1>2, <2>4 DEF SleepReturns
  <2>5. ASSUME NEW t \in Threads, MutexReturns(t) \/ EventReturns(t)
        PROVE  NoTimeouts'
    BY <1>4, <2>5 DEF MutexReturns, EventReturns
  <2> QED BY <1>7, <1>8, <2>1, <2>2, <2>3, <2>4, <2>5 DEF KernelStep
<1>9. ASSUME NEW t \in Threads, Program(t)
      PROVE  NoTimeouts'
  <2>1. t \in All /\ t # Idle /\ k.current = t /\ Current = t
    BY <1>9, AllFacts DEF Program, ThreadCreate, ThreadResume, ThreadYield, ThreadSleep,
       ThreadExit, MutexAcquire, MutexTry, MutexRelease, EventWait, EventSignal,
       EventUnsignal, At, Current
  <2>2. ASSUME NEW u \in Threads, ThreadCreate(t, u)
        PROVE  NoTimeouts'
    BY <1>1, <1>2, <2>2, SchedFields DEF ThreadCreate, SetState, CpuOK, SchedOK, Scheds
  <2>3. ASSUME NEW u \in Threads, ThreadResume(t, u)
        PROVE  NoTimeouts'
    <3> DEFINE y == ReadyAtHead(k, u)
    <3>1. u \in All /\ Modes(k)[u] = "SUSPENDED"
      BY <2>3, AllFacts DEF ThreadResume, Modes
    <3>2. CpuOK(y) /\ y.current = k.current /\ y.ret = k.ret
      BY <1>1, <3>1, GetReady
    <3>3. k' = Yield(y)
      BY <2>3 DEF ThreadResume
    <3> HIDE DEF y
    <3>4. k'.ret = y.ret
      BY <2>1, <3>2, <3>3, YieldOK
    <3> QED BY <1>2, <3>2, <3>4
  <2>4. CASE ThreadYield(t)
    BY <1>1, <1>2, <2>1, <2>4, YieldOK DEF ThreadYield
  <2>5. ~ ThreadSleep(t)
    BY DEF ThreadSleep
  <2>6. CASE ThreadExit(t)
    <3>1. CASE signalled["dpc"]
      <4>1. k' = Resched[SetState(k, k.current, "DEATH")]
        BY <2>1, <2>6, <3>1 DEF ThreadExit
      <4> QED BY <1>1, <1>2, <2>1, <4>1, LeaveCpu
    <3>2. CASE ~ signalled["dpc"]
      <4>1. k' = Resched[WakeAll(SetState(k, k.current, "DEATH"), "dpc", FALSE)] /\ "dpc" \in Queues
        BY <2>1, <2>6, <3>2 DEF ThreadExit, Queues
      <4>2. k'.ret = [u \in All |-> IF u \in Range(k.wait["dpc"]) THEN "NO_ERROR" ELSE k.ret[u]]
        BY <1>1, <2>1, <4>1, ExitWakes
      <4> QED BY <4>2 DEF NoTimeouts
    <3> QED BY <3>1, <3>2
  <2>7. ASSUME NEW timed \in BOOLEAN, MutexAcquire(t, timed)
        PROVE  NoTimeouts'
    BY <1>2, <1>3, <2>1, <2>7 DEF MutexAcquire, Queues
  <2>8. CASE MutexTry(t) \/ EventUnsignal(t)
    BY <1>2, <2>8 DEF MutexTry, EventUnsignal
  <2>9. CASE MutexRelease(t)
    BY <1>2, <1>5, <2>9 DEF MutexRelease, Queues
  <2>10. ASSUME NEW timeout \in {"infinite", "some", "zero"}, EventWait(t, timeout)
         PROVE  NoTimeouts'
    BY <1>2, <1>3, <2>1, <2>10 DEF EventWait, Queues
  <2>11. ASSUME NEW reschedule \in BOOLEAN, EventSignal(t, reschedule)
         PROVE  NoTimeouts'
    BY <1>2, <1>5, <1>6, <2>11 DEF EventSignal, Queues
  <2> QED BY <1>9, <2>2, <2>3, <2>4, <2>5, <2>6, <2>7, <2>8, <2>9, <2>10, <2>11 DEF Program
<1>10. CASE UNCHANGED vars
    BY <1>2, <1>10 DEF vars
<1> QED BY <1>1, <1>7, <1>8, <1>9, <1>10 DEF Next, TickIn, NotFollowed

\* Where nobody waits with a timeout, mutex_release never leaves the mutex
\* free with a thread in its queue: the flaw that NoWaiterOnFreeMutex shows
\* is one of timeouts only.
THEOREM UntimedMutexHandedOn ==
    ASSUME Timed = {}
    PROVE  Spec => []NoWaiterOnFreeMutex
<1>1. Init => NoTimeouts /\ ~missed
    BY DEF Init, NoTimeouts, BootSched
<1>2. ASSUME KernelInv, NoTimeouts, ~missed, [Next]_vars
      PROVE  NoTimeouts' /\ ~missed'
  <2>1. GaveUp = {}
    BY <1>2 DEF NoTimeouts, GaveUp, Handed, InMutexWait, In
  <2> QED BY <1>2, <2>1, NoTimeoutsStep, MisledStep
<1>3. KernelInv /\ ~missed => NoWaiterOnFreeMutex
    BY InvNobodyForgotten DEF NobodyForgotten
<1> QED BY <1>1, <1>2, <1>3, AlwaysKernelInv, PTL DEF Spec
=============================================================================
