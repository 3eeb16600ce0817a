------------------------- MODULE BufferQueueProofs -------------------------
(***************************************************************************)
(* The three invariants of a BufferQueue, for every number of slots, for   *)
(* every minimum of undequeued buffers, and for all arguments of           *)
(* setBufferCount and setBufferCountServer.                                *)
(***************************************************************************)
EXTENDS BufferQueue, FiniteSetTheorems, WellFoundedInduction, TLAPS

----------------------------------------------------------------------------
(* Numbers.                                                                *)

LEMMA SlotNumbers == Slots \subseteq Nat /\ INVALID_BUFFER_SLOT \notin Slots
  BY CountAssumption DEF Slots, INVALID_BUFFER_SLOT

LEMMA CountsNat ==
  /\ ClientCounts \subseteq Nat /\ ServerCounts \subseteq Nat
  /\ MinUndequeuedBuffers \in Nat /\ MinUndequeuedBuffers > 0
  BY CountAssumption

\* As many slots as there are.
LEMMA SlotsCounted ==
  ASSUME NEW S \in SUBSET Slots
  PROVE  Cardinality(S) \in Nat
  <1>1. IsFiniteSet(Slots)
    BY CountAssumption, FS_Interval, NUM_BUFFER_SLOTS - 1 \in Int DEF Slots
  <1>2. IsFiniteSet(S)
    BY <1>1, FS_Subset
  <1> QED BY <1>2, FS_CardinalityType

LEMMA UnnumberedType ==
  ASSUME NEW number, NEW S
  PROVE  Unnumbered(number, S) \in [Slots -> Nat]
  <1> SUFFICES ASSUME NEW i \in Slots
               PROVE  Cardinality({j \in Slots \ S : number[j] \in 1..number[i]}) \in Nat
    BY DEF Unnumbered
  <1>1. {j \in Slots \ S : number[j] \in 1..number[i]} \in SUBSET Slots
    OBVIOUS
  <1> QED BY <1>1, SlotsCounted

\* A set of slots, or of their numbers, has a least member.
LEMMA LeastExists ==
  ASSUME NEW T \in SUBSET Nat, T # {}
  PROVE  \E x \in T : \A y \in T : x <= y
  <1>1. PICK x \in T : \A y \in T : ~ (<<y, x>> \in OpToRel(<, Nat))
    BY NatLessThanWellFounded, WFMin
  <1>2. \A y \in T : ~ (y < x)
    BY <1>1 DEF OpToRel
  <1> QED BY <1>2

\* What dequeueBuffer finds is a free slot, if there is one.
LEMMA OldestIsFree ==
  ASSUME NEW b, b.number \in [Slots -> Nat], Free(b) # {}
  PROVE  Oldest(b) \in Free(b)
  <1> DEFINE T == {b.number[i] : i \in Free(b)}
  <1>0. Free(b) \subseteq Slots
    BY DEF Free
  <1>1. T \in SUBSET Nat /\ T # {}
    BY <1>0
  <1>2. PICK n \in T : \A m \in T : n <= m
    BY <1>1, LeastExists
  <1> DEFINE F == {i \in Free(b) : b.number[i] = n}
  <1>3. F \in SUBSET Nat /\ F # {}
    BY <1>0, SlotNumbers
  <1>4. PICK i \in F : \A j \in F : i <= j
    BY <1>3, LeastExists
  <1>5. ASSUME NEW j \in Free(b)
        PROVE  b.number[i] < b.number[j] \/ (b.number[i] = b.number[j] /\ i <= j)
    <2>1. b.number[i] = n /\ n <= b.number[j] /\ n \in Nat /\ b.number[j] \in Nat
      BY <1>0, <1>1, <1>2, <1>4
    <2>2. CASE b.number[j] = n
      BY <2>1, <2>2, <1>4
    <2>3. CASE b.number[j] # n
      BY <2>1, <2>3
    <2> QED BY <2>2, <2>3
  <1> QED BY <1>4, <1>5 DEF Oldest

LEMMA NotEmpty ==
  ASSUME NEW s \in Seq(Slots), s # <<>>
  PROVE  Len(s) \in Nat /\ Len(s) > 0
  OBVIOUS

LEMMA LargerOfTwo ==
  ASSUME NEW m \in Nat, NEW n \in Nat
  PROVE  Max({m, n}) \in {m, n}
  <1>1. \E x \in {m, n} : \A y \in {m, n} : x >= y
    OBVIOUS
  <1> QED BY <1>1 DEF Max

----------------------------------------------------------------------------
(* What the queue's functions leave of it.                                 *)

LEMMA FreedFacts ==
  ASSUME NEW b \in Queues, NEW S \in SUBSET Slots
  PROVE  LET c == FreeBuffers(b, S) IN
         /\ c \in Queues
         /\ \A i \in Slots :
              /\ c.state[i] = IF i \in S THEN "FREE" ELSE b.state[i]
              /\ c.buffer[i] = (i \notin S /\ b.buffer[i])
              /\ c.seen[i] = (i \notin S /\ b.seen[i])
         /\ c.stale = b.stale \cup {i \in S : b.state[i] = "ACQUIRED"}
         /\ c.fifo = b.fifo /\ c.count = b.count /\ c.client = b.client
         /\ c.server = b.server /\ c.sync = b.sync /\ c.connected = b.connected
         /\ c.abandoned = b.abandoned /\ c.used = b.used
  <1>1. Unnumbered(b.number, S) \in [Slots -> Nat]
    BY UnnumberedType
  <1> HIDE DEF Unnumbered
  <1> QED BY <1>1 DEF FreeBuffers, Queues, SlotStates

\* freeAllBuffersLocked
LEMMA FreedAllFacts ==
  ASSUME NEW b \in Queues
  PROVE  LET c == FreeAllBuffers(b) IN
         /\ c \in Queues
         /\ \A i \in Slots : c.state[i] = "FREE" /\ ~c.buffer[i] /\ ~c.seen[i]
         /\ c.stale = b.stale \cup {i \in Slots : b.state[i] = "ACQUIRED"}
         /\ c.fifo = <<>> /\ c.count = b.count /\ c.client = b.client
         /\ c.server = b.server /\ c.sync = b.sync /\ c.connected = b.connected
         /\ c.abandoned = b.abandoned /\ ~c.used
  <1> DEFINE d == FreeBuffers(b, Slots)
  <1>0. Slots \in SUBSET Slots
    OBVIOUS
  <1>1. /\ d \in Queues
        /\ \A i \in Slots :
              /\ d.state[i] = IF i \in Slots THEN "FREE" ELSE b.state[i]
              /\ d.buffer[i] = (i \notin Slots /\ b.buffer[i])
              /\ d.seen[i] = (i \notin Slots /\ b.seen[i])
        /\ d.stale = b.stale \cup {i \in Slots : b.state[i] = "ACQUIRED"}
        /\ d.count = b.count /\ d.client = b.client
        /\ d.server = b.server /\ d.sync = b.sync /\ d.connected = b.connected
        /\ d.abandoned = b.abandoned
    BY <1>0, FreedFacts
  <1>2. FreeAllBuffers(b) = [d EXCEPT !.fifo = <<>>, !.used = FALSE]
    BY DEF FreeAllBuffers
  <1> HIDE DEF d
  <1>3. <<>> \in Seq(Slots)
    OBVIOUS
  <1> QED BY <1>1, <1>2, <1>3 DEF Queues

\* freeAllBuffersExceptHeadLocked
LEMMA FreedExceptHeadFacts ==
  ASSUME NEW b \in Queues
  PROVE  LET c == FreeAllBuffersExceptHead(b) IN
         /\ c \in Queues
         /\ \A i \in Slots :
              /\ c.state[i] = IF i \in HeadOf(b) THEN b.state[i] ELSE "FREE"
              /\ c.buffer[i] = (i \in HeadOf(b) /\ b.buffer[i])
              /\ c.seen[i] = (i \in HeadOf(b) /\ b.seen[i])
         /\ c.stale = b.stale \cup {i \in Slots \ HeadOf(b) : b.state[i] = "ACQUIRED"}
         /\ c.fifo = b.fifo /\ c.count = b.count /\ c.client = b.client
         /\ c.server = b.server /\ c.sync = b.sync /\ c.connected = b.connected
         /\ c.abandoned = b.abandoned /\ ~c.used
  <1> DEFINE S == Slots \ HeadOf(b)
             d == FreeBuffers(b, S)
  <1>0. S \in SUBSET Slots
    OBVIOUS
  <1> HIDE DEF S
  <1>1. /\ d \in Queues
        /\ \A i \in Slots :
              /\ d.state[i] = IF i \in S THEN "FREE" ELSE b.state[i]
              /\ d.buffer[i] = (i \notin S /\ b.buffer[i])
              /\ d.seen[i] = (i \notin S /\ b.seen[i])
        /\ d.stale = b.stale \cup {i \in S : b.state[i] = "ACQUIRED"}
        /\ d.fifo = b.fifo /\ d.count = b.count /\ d.client = b.client
        /\ d.server = b.server /\ d.sync = b.sync /\ d.connected = b.connected
        /\ d.abandoned = b.abandoned
    BY <1>0, FreedFacts
  <1>2. FreeAllBuffersExceptHead(b) = [d EXCEPT !.used = FALSE]
    BY DEF FreeAllBuffersExceptHead, S
  <1> HIDE DEF d
  <1> DEFINE c == FreeAllBuffersExceptHead(b)
  <1>3. /\ c \in Queues /\ c.state = d.state /\ c.buffer = d.buffer
        /\ c.seen = d.seen /\ c.stale = d.stale /\ c.fifo = d.fifo
        /\ c.count = d.count /\ c.client = d.client /\ c.server = d.server
        /\ c.sync = d.sync /\ c.connected = d.connected
        /\ c.abandoned = d.abandoned /\ ~c.used
    BY <1>1, <1>2 DEF Queues
  <1> HIDE DEF c
  <1>4. \A i \in Slots : i \in S <=> i \notin HeadOf(b)
    BY DEF S
  <1>5. c.stale = b.stale \cup {i \in Slots \ HeadOf(b) : b.state[i] = "ACQUIRED"}
    BY <1>1, <1>3 DEF S
  <1>6. \A i \in Slots :
              /\ c.state[i] = IF i \in HeadOf(b) THEN b.state[i] ELSE "FREE"
              /\ c.buffer[i] = (i \in HeadOf(b) /\ b.buffer[i])
              /\ c.seen[i] = (i \in HeadOf(b) /\ b.seen[i])
    BY <1>1, <1>3, <1>4
  <1> QED BY <1>1, <1>3, <1>5, <1>6 DEF c

\* setBufferCountServerLocked never lowers the number of buffers.
LEMMA CountServerFacts ==
  ASSUME NEW b \in Queues, NEW n \in Nat
  PROVE  LET c == SetCountServer(b, n) IN
         /\ c \in Queues
         /\ c.state = b.state /\ c.buffer = b.buffer /\ c.seen = b.seen
         /\ c.stale = b.stale /\ c.fifo = b.fifo /\ c.client = b.client
         /\ c.count >= b.count /\ c.sync = b.sync /\ c.connected = b.connected
         /\ c.abandoned = b.abandoned
  <1>1. CASE n = b.count
    BY <1>1 DEF SetCountServer, Queues
  <1>2. CASE n # b.count /\ b.client = 0 /\ n >= b.count
    <2>1. SetCountServer(b, n) = [b EXCEPT !.count = n, !.server = n]
      BY <1>2 DEF SetCountServer
    <2> QED BY <2>1, <1>2 DEF Queues
  <1>3. CASE n # b.count /\ ~(b.client = 0 /\ n >= b.count)
    <2>1. SetCountServer(b, n) = [b EXCEPT !.server = n]
      BY <1>3 DEF SetCountServer
    <2>2. b.count \in Nat
      BY DEF Queues
    <2>3. b.count >= b.count
      BY <2>2
    <2> QED BY <2>1, <2>3 DEF Queues
  <1> QED BY <1>1, <1>2, <1>3

LEMMA ResizedFacts ==
  ASSUME q \in Queues
  PROVE  /\ Resized \in Queues
         /\ Resized.client = q.client /\ Resized.sync = q.sync
         /\ Resized.abandoned = q.abandoned
         /\ ~NeedsToChange => Resized = q
         /\ NeedsToChange =>
              /\ \A i \in Slots : /\ Resized.state[i] = "FREE"
                                  /\ ~Resized.buffer[i] /\ ~Resized.seen[i]
              /\ Resized.stale = q.stale \cup {i \in Slots : q.state[i] = "ACQUIRED"}
              /\ Resized.fifo = <<>>
  <1>1. CASE ~NeedsToChange
    BY <1>1 DEF Resized
  <1>2. CASE NeedsToChange
    <2> DEFINE d == FreeAllBuffers(q)
               n == Max({q.server, MinBufferSlots})
    <2>1. /\ d \in Queues
          /\ \A i \in Slots : d.state[i] = "FREE" /\ ~d.buffer[i] /\ ~d.seen[i]
          /\ d.stale = q.stale \cup {i \in Slots : q.state[i] = "ACQUIRED"}
          /\ d.fifo = <<>> /\ d.client = q.client /\ d.sync = q.sync
          /\ d.abandoned = q.abandoned
      BY FreedAllFacts
    <2>2. q.server \in Nat /\ MinBufferSlots \in Nat
      BY CountsNat DEF Queues, MinBufferSlots
    <2>3. n \in Nat
      BY <2>2, LargerOfTwo
    <2>4. Resized = [d EXCEPT !.count = n]
      BY <1>2 DEF Resized
    <2> HIDE DEF d, n
    <2>5. /\ Resized \in Queues
          /\ Resized.state = d.state /\ Resized.buffer = d.buffer
          /\ Resized.seen = d.seen /\ Resized.stale = d.stale
          /\ Resized.fifo = d.fifo /\ Resized.client = d.client
          /\ Resized.sync = d.sync /\ Resized.abandoned = d.abandoned
      BY <2>1, <2>3, <2>4 DEF Queues
    <2> QED BY <1>2, <2>1, <2>5
  <1> QED BY <1>1, <1>2

----------------------------------------------------------------------------
(* The inductive invariant.                                                *)

\* mQueue and the states of the slots agree; only the slots below mBufferCount
\* are in use.
SlotsOK(b) ==
    /\ \A k, m \in DOMAIN b.fifo : b.fifo[k] = b.fifo[m] => k = m
    /\ \A k \in DOMAIN b.fifo : b.state[b.fifo[k]] = "QUEUED"
    /\ \A i \in Slots : b.state[i] = "QUEUED" => \E k \in DOMAIN b.fifo : b.fifo[k] = i
    /\ ~b.sync => Len(b.fifo) <= 1
    /\ \A i \in Slots : b.state[i] # "FREE" => i < b.count
    /\ \A i \in Slots : b.state[i] \in {"QUEUED", "ACQUIRED"} => b.buffer[i]
    /\ \A i \in Slots : b.state[i] = "ACQUIRED" => b.seen[i]

\* What the client holds, or has been given, is a dequeued buffer, unless the
\* queue was abandoned.  It holds none while it drains the queue, nor while it
\* waits in dequeueBuffer for a change of the number of buffers.
ClientOK ==
    /\ ~q.abandoned => \A i \in held : q.state[i] = "DEQUEUED" /\ q.buffer[i]
    /\ pc["client"] = "request" /\ ~q.abandoned =>
        got \in Slots /\ q.state[got] = "DEQUEUED" /\ q.buffer[got]
    /\ pc["client"] = "disconnect" => held = {}
    /\ pc["client"] = "dequeue" => held = {} \/ q.client > 0

\* The consumer has a slot in its hands between its two calls only, and knows
\* of every slot that is ACQUIRED.
ConsumerOK ==
    /\ con \in {"latch", "empty"} <=> latch # INVALID_BUFFER_SLOT
    /\ \A i \in Slots : q.state[i] = "ACQUIRED" => i \in {current, latch}

\* A slot of the consumer's is its own and seen, or was freed under its hands and
\* not acquired since: it is on mNeedsCleanupOnRelease, and mAcquireCalled is
\* not set.
Mine(i) ==
    IF q.state[i] = "ACQUIRED" THEN q.seen[i] ELSE i \in q.stale /\ ~q.seen[i]

ViewOK ==
    ~twice =>
        /\ lost = {} /\ con # "dead"
        /\ current = latch => latch = INVALID_BUFFER_SLOT
        /\ current # INVALID_BUFFER_SLOT => Mine(current)
        /\ latch # INVALID_BUFFER_SLOT => Mine(latch)

FramesOK ==
    /\ FramesAnnounced
    /\ frames + (IF pc["client"] = "notify" THEN 1 ELSE 0) <= MaxFrames

IInv == TypeOK /\ SlotsOK(q) /\ ClientOK /\ ConsumerOK /\ ViewOK /\ FramesOK

LEMMA InitIInv == Init => IInv
  <1> SUFFICES ASSUME Init PROVE IInv
    OBVIOUS
  <1>0. <<>> \in Seq(Slots) /\ MinUndequeuedBuffers + 1 \in Nat
    BY CountsNat
  <1>1. /\ q \in Queues /\ q.fifo = <<>>
        /\ \A i \in Slots : q.state[i] = "FREE"
    BY <1>0 DEF Init, Queues, SlotStates
  <1>2. TypeOK
    <2>1. frames \in 0..MaxFrames
      BY CountAssumption DEF Init
    <2> QED BY <1>1, <2>1 DEF Init, TypeOK
  <1>3. SlotsOK(q)
    BY <1>1 DEF SlotsOK
  <1>4. ClientOK /\ ConsumerOK
    BY <1>1 DEF Init, ClientOK, ConsumerOK
  <1>5. ViewOK
    BY DEF Init, ViewOK
  <1>6. FramesOK
    BY <1>1, CountAssumption DEF Init, FramesOK, FramesAnnounced
  <1> QED BY <1>2, <1>3, <1>4, <1>5, <1>6 DEF IInv

----------------------------------------------------------------------------
(* Steps that leave the slots alone.                                       *)

\* The step changes at most the counts upwards, the flags, and the mode when
\* it is allowed to.
Quiet ==
    /\ q' \in Queues
    /\ q'.state = q.state /\ q'.buffer = q.buffer /\ q'.seen = q.seen
    /\ q'.stale = q.stale /\ q'.fifo = q.fifo /\ q'.abandoned = q.abandoned
    /\ q'.count >= q.count
    /\ q'.sync = q.sync \/ q'.sync \/ q.fifo = <<>>

LEMMA SameSlots ==
  ASSUME SlotsOK(q), q'.state = q.state, q'.buffer = q.buffer, q'.seen = q.seen,
         q'.fifo = q.fifo, q'.count = q.count, q'.sync = q.sync
  PROVE  SlotsOK(q)'
  BY DEF SlotsOK

LEMMA QuietSlots ==
  ASSUME IInv, Quiet
  PROVE  SlotsOK(q)'
  <1>1. q \in Queues /\ q.count \in Nat /\ q'.count \in Nat
    BY DEF IInv, TypeOK, Quiet, Queues
  <1>2. ~q'.sync => Len(q'.fifo) <= 1
    BY DEF IInv, SlotsOK, Quiet
  <1>3. \A i \in Slots : q'.state[i] # "FREE" => i < q'.count
    BY <1>1, SlotNumbers DEF IInv, SlotsOK, Quiet
  <1> QED BY <1>2, <1>3 DEF IInv, SlotsOK, Quiet

LEMMA QuietConsumer ==
  ASSUME IInv, Quiet, UNCHANGED <<con, latch, current, lost, twice>>
  PROVE  ConsumerOK' /\ ViewOK'
  <1>1. ConsumerOK'
    BY DEF IInv, ConsumerOK, Quiet
  <1>2. ViewOK'
    BY DEF IInv, ViewOK, Mine, Quiet
  <1> QED BY <1>1, <1>2

LEMMA QuietFrames ==
  ASSUME IInv, q'.fifo = q.fifo, frames' = frames,
         pc'["client"] = "notify" <=> pc["client"] = "notify"
  PROVE  FramesOK'
  BY DEF IInv, FramesOK, FramesAnnounced

\* The client is where it was, and has what it had.
LEMMA QuietClient ==
  ASSUME IInv, Quiet, q'.client = q.client, UNCHANGED <<got, held>>,
         pc'["client"] = pc["client"]
  PROVE  ClientOK'
  BY DEF IInv, ClientOK, Quiet

\* The client's thread moves alone.
LEMMA ClientMoves ==
  ASSUME TypeOK,
         NEW label \in {"idle", "dequeue", "request", "notify", "released", "disconnect"},
         Goto("client", label)
  PROVE  /\ pc' \in [{"client", "swap"} -> {"idle", "dequeue", "request", "notify",
                                            "released", "disconnect", "async"}]
         /\ pc'["client"] = label
  BY DEF TypeOK, Goto

LEMMA SwapMoves ==
  ASSUME TypeOK, NEW label \in {"idle", "async"}, Goto("swap", label)
  PROVE  /\ pc' \in [{"client", "swap"} -> {"idle", "dequeue", "request", "notify",
                                            "released", "disconnect", "async"}]
         /\ pc'["client"] = pc["client"]
  BY DEF TypeOK, Goto

LEMMA ConnectKeeps ==
  ASSUME IInv, Connect
  PROVE  IInv'
  <1>0. q \in Queues /\ q.count \in Nat
    BY DEF IInv, TypeOK, Queues
  <1>1. Quiet /\ q'.client = q.client
    <2>1. /\ q' \in Queues /\ q'.sync = q.sync /\ q'.client = q.client
          /\ q'.state = q.state /\ q'.buffer = q.buffer /\ q'.seen = q.seen
          /\ q'.stale = q.stale /\ q'.fifo = q.fifo /\ q'.abandoned = q.abandoned
          /\ q'.count = q.count
      BY <1>0 DEF Connect, Queues
    <2> QED BY <1>0, <2>1 DEF Quiet
  <1>2. TypeOK'
    BY <1>1 DEF IInv, TypeOK, Connect, clientVars, consumerVars, Quiet
  <1>3. ClientOK'
    BY <1>1, QuietClient DEF Connect, clientVars
  <1>4. FramesOK'
    BY <1>1, QuietFrames DEF Connect, clientVars, consumerVars, Quiet
  <1> QED BY <1>1, <1>2, <1>3, <1>4, QuietSlots, QuietConsumer
          DEF IInv, Connect, consumerVars

LEMMA ServerCountKeeps ==
  ASSUME IInv, NEW n \in ServerCounts, SetBufferCountServer(n)
  PROVE  IInv'
  <1>1. q \in Queues /\ n \in Nat
    BY CountsNat DEF IInv, TypeOK
  <1>2. Quiet /\ q'.client = q.client
    BY <1>1, CountServerFacts DEF SetBufferCountServer, Quiet
  <1>3. TypeOK'
    BY <1>2 DEF IInv, TypeOK, SetBufferCountServer, consumerVars, Quiet, Broadcast
  <1>4. ClientOK'
    BY <1>2, QuietClient DEF SetBufferCountServer
  <1>5. FramesOK'
    BY <1>2, QuietFrames DEF SetBufferCountServer, consumerVars, Quiet
  <1> QED BY <1>2, <1>3, <1>4, <1>5, QuietSlots, QuietConsumer
          DEF IInv, SetBufferCountServer, consumerVars

\* What is said of every step of the swap thread, which touches nothing but
\* the mode, and that only in a drained queue if it is made asynchronous.
LEMMA SwapKeeps ==
  ASSUME IInv, Quiet, q'.client = q.client, asleep' \subseteq asleep \cup {"swap"},
         pc' \in [{"client", "swap"} -> {"idle", "dequeue", "request", "notify",
                                         "released", "disconnect", "async"}],
         pc'["client"] = pc["client"], UNCHANGED <<got, held, consumerVars>>
  PROVE  IInv'
  <1>2. TypeOK'
    BY DEF IInv, TypeOK, consumerVars, Quiet
  <1>3. ClientOK'
    BY QuietClient
  <1>4. FramesOK'
    BY QuietFrames DEF consumerVars, Quiet
  <1> QED BY <1>2, <1>3, <1>4, QuietSlots, QuietConsumer
          DEF IInv, consumerVars

LEMMA ModeSetQuiet ==
  ASSUME IInv, NEW e \in BOOLEAN, ModeSet(e), e \/ ~Undrained
  PROVE  /\ Quiet /\ q'.client = q.client /\ asleep' \subseteq asleep \cup {"swap"}
         /\ pc' \in [{"client", "swap"} -> {"idle", "dequeue", "request", "notify",
                                            "released", "disconnect", "async"}]
         /\ pc'["client"] = pc["client"]
  <1>1. q \in Queues /\ q' = [q EXCEPT !.sync = e] /\ q.count \in Nat
    BY DEF IInv, TypeOK, ModeSet, Queues
  <1>2. /\ q' \in Queues /\ q'.sync = e /\ q'.client = q.client
        /\ q'.state = q.state /\ q'.buffer = q.buffer /\ q'.seen = q.seen
        /\ q'.stale = q.stale /\ q'.fifo = q.fifo /\ q'.abandoned = q.abandoned
        /\ q'.count = q.count
    BY <1>1 DEF Queues
  <1>3. q'.sync = q.sync \/ q'.sync \/ q.fifo = <<>>
    <2>1. q.sync \in BOOLEAN
      BY <1>1 DEF Queues
    <2> QED BY <1>2, <2>1 DEF Undrained
  <1>4. Quiet
    BY <1>1, <1>2, <1>3 DEF Quiet
  <1>5. /\ pc' \in [{"client", "swap"} -> {"idle", "dequeue", "request", "notify",
                                           "released", "disconnect", "async"}]
        /\ pc'["client"] = pc["client"]
    BY SwapMoves DEF IInv, ModeSet
  <1> QED BY <1>2, <1>4, <1>5 DEF ModeSet

LEMMA StillQuiet ==
  ASSUME IInv, q' = q
  PROVE  Quiet /\ q'.client = q.client
  <1>1. q \in Queues /\ q.count \in Nat
    BY DEF IInv, TypeOK, Queues
  <1> QED BY <1>1 DEF Quiet

LEMMA SetSynchronousModeKeeps ==
  ASSUME IInv, NEW e \in BOOLEAN, SetSynchronousMode(e)
  PROVE  IInv'
  <1>1. CASE ~e /\ Undrained
    <2>1. Wait("swap") /\ Goto("swap", "async") /\ q' = q /\ UNCHANGED <<got, held, consumerVars>>
      BY <1>1 DEF SetSynchronousMode
    <2> QED BY <2>1, StillQuiet, SwapMoves, SwapKeeps DEF Wait, IInv
  <1>2. CASE ~(~e /\ Undrained)
    <2>1. ModeSet(e) /\ UNCHANGED <<got, held, consumerVars>>
      BY <1>2 DEF SetSynchronousMode
    <2> QED BY <2>1, <1>2, ModeSetQuiet, SwapKeeps
  <1> QED BY <1>1, <1>2

LEMMA SynchronousModeAwakeKeeps ==
  ASSUME IInv, SetSynchronousModeAwake
  PROVE  IInv'
  <1>0. UNCHANGED <<got, held, consumerVars>>
    BY DEF SetSynchronousModeAwake
  <1>1. CASE Goto("swap", "idle") /\ UNCHANGED <<q, asleep>>
    BY <1>0, <1>1, StillQuiet, SwapMoves, SwapKeeps DEF IInv
  <1>2. CASE Undrained /\ Wait("swap") /\ UNCHANGED <<q, pc>>
    <2>1. pc' \in [{"client", "swap"} -> {"idle", "dequeue", "request", "notify",
                                          "released", "disconnect", "async"}]
      BY <1>2 DEF IInv, TypeOK
    <2> QED BY <1>0, <1>2, <2>1, StillQuiet, SwapKeeps DEF Wait
  <1>3. CASE ~Undrained /\ ModeSet(FALSE)
    BY <1>0, <1>3, ModeSetQuiet, SwapKeeps
  <1> QED BY <1>1, <1>2, <1>3 DEF SetSynchronousModeAwake

\* The client's thread moves, and nothing else does: what is left to show is
\* what ClientOK and FramesOK say of the new place.
LEMMA ClientStays ==
  ASSUME IInv, Quiet, asleep' \subseteq {"client", "swap"},
         NEW label \in {"idle", "dequeue", "released", "disconnect"},
         Goto("client", label), pc["client"] # "notify",
         q'.client = q.client \/ label = "idle",
         held' = held \/ held' = {}, got' = got,
         label = "dequeue" => held' = {} \/ q.client > 0,
         label = "disconnect" => held' = {},
         UNCHANGED consumerVars
  PROVE  IInv'
  <1>1. /\ pc' \in [{"client", "swap"} -> {"idle", "dequeue", "request", "notify",
                                           "released", "disconnect", "async"}]
        /\ pc'["client"] = label
    BY ClientMoves DEF IInv
  <1>2. TypeOK'
    BY <1>1 DEF IInv, TypeOK, consumerVars, Quiet
  <1>3. ClientOK'
    BY <1>1 DEF IInv, ClientOK, Quiet
  <1>4. FramesOK'
    BY <1>1, QuietFrames DEF consumerVars, Quiet
  <1> QED BY <1>2, <1>3, <1>4, QuietSlots, QuietConsumer DEF IInv, consumerVars

LEMMA RequestBufferKeeps ==
  ASSUME IInv, RequestBuffer
  PROVE  IInv'
  <1>0. Quiet /\ UNCHANGED consumerVars /\ UNCHANGED asleep
    BY StillQuiet DEF RequestBuffer
  <1>1. /\ pc' \in [{"client", "swap"} -> {"idle", "dequeue", "request", "notify",
                                           "released", "disconnect", "async"}]
        /\ pc'["client"] = "idle"
    BY ClientMoves DEF IInv, RequestBuffer
  <1>2. pc["client"] = "request"
    BY DEF RequestBuffer, On
  <1>3. ~q.abandoned => got \in Slots /\ q.state[got] = "DEQUEUED" /\ q.buffer[got]
    BY <1>2 DEF IInv, ClientOK
  <1>4. held' \subseteq Slots /\ got' = INVALID_BUFFER_SLOT
    BY <1>3 DEF IInv, TypeOK, RequestBuffer
  <1>5. TypeOK'
    BY <1>0, <1>1, <1>4 DEF IInv, TypeOK, consumerVars, Quiet
  <1>6. ClientOK'
    BY <1>1, <1>3 DEF IInv, ClientOK, RequestBuffer
  <1>7. FramesOK'
    BY <1>0, <1>1, <1>2, QuietFrames DEF consumerVars, Quiet
  <1> QED BY <1>0, <1>5, <1>6, <1>7, QuietSlots, QuietConsumer DEF IInv, consumerVars

LEMMA OnFrameAvailableKeeps ==
  ASSUME IInv, OnFrameAvailable
  PROVE  IInv'
  <1>0. Quiet /\ UNCHANGED <<q, asleep, got, held, con, latch, current, lost, twice>>
    BY StillQuiet DEF OnFrameAvailable, OnFrameQueued
  <1>1. /\ pc' \in [{"client", "swap"} -> {"idle", "dequeue", "request", "notify",
                                           "released", "disconnect", "async"}]
        /\ pc'["client"] = "idle"
    BY ClientMoves DEF IInv, OnFrameAvailable, OnFrameQueued
  <1>2. pc["client"] = "notify" /\ frames' = frames + 1
    BY DEF OnFrameAvailable, OnFrameQueued, On
  <1>3. frames \in Nat /\ MaxFrames \in Nat /\ Len(q.fifo) \in Nat
    BY CountAssumption DEF IInv, TypeOK, Queues
  <1>4. frames + 1 <= MaxFrames /\ Len(q.fifo) <= frames + 1
    BY <1>2 DEF IInv, FramesOK, FramesAnnounced
  <1>5. frames' \in 0..MaxFrames
    BY <1>2, <1>3, <1>4
  <1>6. TypeOK'
    BY <1>0, <1>1, <1>5 DEF IInv, TypeOK, Quiet
  <1>7. ClientOK'
    BY <1>0, <1>1 DEF IInv, ClientOK
  <1>8. FramesOK'
    BY <1>0, <1>1, <1>2, <1>3, <1>4 DEF FramesOK, FramesAnnounced
  <1> QED BY <1>0, <1>6, <1>7, <1>8, QuietSlots, QuietConsumer DEF IInv

----------------------------------------------------------------------------
(* Steps that free the slots, all of them or all but the head of mQueue.   *)

Freed(K) ==
    /\ q' \in Queues
    /\ \A i \in Slots :
        IF i \in K THEN q'.state[i] = q.state[i] /\ q'.buffer[i] = q.buffer[i]
                   ELSE q'.state[i] = "FREE"
    /\ \A i \in Slots : q'.seen[i] => q.seen[i] /\ i \in K
    /\ \A i \in Slots : i \in q.stale \/ q.state[i] = "ACQUIRED" => i \in q'.stale
    /\ \/ K = {} /\ q'.fifo = <<>>
       \/ /\ K = HeadOf(q) /\ Len(q.fifo) <= 1
          /\ q'.fifo = q.fifo /\ q'.count = q.count

LEMMA FreedSlots ==
  ASSUME IInv, NEW K, Freed(K)
  PROVE  SlotsOK(q)' /\ \A i \in Slots : q'.state[i] # "ACQUIRED"
  <1>1. CASE K = {} /\ q'.fifo = <<>>
    <2>1. \A i \in Slots : q'.state[i] = "FREE"
      BY <1>1 DEF Freed
    <2>2. DOMAIN q'.fifo = {} /\ Len(q'.fifo) = 0
      BY <1>1
    <2> QED BY <2>1, <2>2 DEF SlotsOK
  <1>2. CASE K = HeadOf(q) /\ Len(q.fifo) <= 1 /\ q'.fifo = q.fifo /\ q'.count = q.count
    <2>1. q.fifo \in Seq(Slots)
      BY DEF IInv, TypeOK, Queues
    <2>2. \A k \in DOMAIN q.fifo : k = 1
      BY <1>2, <2>1
    <2>3. \A i \in K : \E k \in DOMAIN q.fifo : q.fifo[k] = i
      BY <1>2 DEF HeadOf
    <2>4. \A k \in DOMAIN q.fifo : q.fifo[k] \in K /\ q.fifo[k] \in Slots
      BY <1>2, <2>1, <2>2 DEF HeadOf
    <2>5. \A i \in K : i \in Slots /\ q.state[i] = "QUEUED"
      BY <2>3, <2>4 DEF IInv, SlotsOK
    <2>6. \A i \in Slots : q'.state[i] = IF i \in K THEN "QUEUED" ELSE "FREE"
      BY <2>5 DEF Freed
    <2>7. \A i \in K : q'.buffer[i] /\ i < q'.count
      BY <1>2, <2>5 DEF Freed, IInv, SlotsOK
    <2>8. \A k, m \in DOMAIN q'.fifo : q'.fifo[k] = q'.fifo[m] => k = m
      BY <1>2, <2>2
    <2>9. \A k \in DOMAIN q'.fifo : q'.state[q'.fifo[k]] = "QUEUED"
      BY <1>2, <2>4, <2>6
    <2>10. \A i \in Slots : q'.state[i] = "QUEUED" => \E k \in DOMAIN q'.fifo : q'.fifo[k] = i
      BY <1>2, <2>3, <2>6
    <2> QED BY <1>2, <2>6, <2>7, <2>8, <2>9, <2>10 DEF SlotsOK
  <1> QED BY <1>1, <1>2 DEF Freed

LEMMA FreedConsumer ==
  ASSUME IInv, NEW K, Freed(K), UNCHANGED <<con, latch, current, twice>>,
         lost' \subseteq lost
  PROVE  ConsumerOK' /\ ViewOK'
  <1>1. \A i \in Slots : q'.state[i] # "ACQUIRED"
    BY FreedSlots
  <1>2. ConsumerOK'
    BY <1>1 DEF IInv, ConsumerOK
  <1>3. K = {} \/ \A i \in K : i \in Slots /\ q.state[i] = "QUEUED"
    BY DEF Freed, HeadOf, IInv, SlotsOK, TypeOK, Queues
  <1>4. ASSUME NEW i \in Slots, Mine(i)
        PROVE  Mine(i)'
    <2>1. i \in q'.stale
      BY <1>4 DEF Mine, Freed
    <2>2. ~q'.seen[i]
      BY <1>3, <1>4 DEF Mine, Freed
    <2> QED BY <1>1, <2>1, <2>2 DEF Mine
  <1>5. /\ current # INVALID_BUFFER_SLOT => current \in Slots
        /\ latch # INVALID_BUFFER_SLOT => latch \in Slots
    BY DEF IInv, TypeOK
  <1>6. ViewOK'
    <2> SUFFICES ASSUME ~twice'
                 PROVE  /\ lost' = {} /\ con' # "dead"
                        /\ current' = latch' => latch' = INVALID_BUFFER_SLOT
                        /\ current' # INVALID_BUFFER_SLOT => Mine(current)'
                        /\ latch' # INVALID_BUFFER_SLOT => Mine(latch)'
      BY DEF ViewOK
    <2>1. /\ lost = {} /\ con # "dead"
          /\ current = latch => latch = INVALID_BUFFER_SLOT
          /\ current # INVALID_BUFFER_SLOT => Mine(current)
          /\ latch # INVALID_BUFFER_SLOT => Mine(latch)
      BY DEF IInv, ViewOK
    <2>2. current # INVALID_BUFFER_SLOT => Mine(current)'
      BY <1>4, <1>5, <2>1 DEF Mine
    <2>3. latch # INVALID_BUFFER_SLOT => Mine(latch)'
      BY <1>4, <1>5, <2>1 DEF Mine
    <2> QED BY <2>1, <2>2, <2>3
  <1> QED BY <1>2, <1>6

LEMMA FreedFrames ==
  ASSUME IInv, NEW K, Freed(K), frames' = frames,
         pc["client"] # "notify", pc'["client"] # "notify"
  PROVE  FramesOK'
  <1>1. Len(q.fifo) \in Nat /\ frames \in Nat
    BY CountAssumption DEF IInv, TypeOK, Queues
  <1>2. Len(q'.fifo) <= Len(q.fifo)
    BY <1>1 DEF Freed
  <1>3. Len(q'.fifo) \in Nat
    BY DEF Freed, Queues
  <1> QED BY <1>1, <1>2, <1>3 DEF IInv, FramesOK, FramesAnnounced

\* After the client's call nothing is left that it holds, or it holds what it
\* held in a queue where nothing was freed.
LEMMA FreedClient ==
  ASSUME IInv, NEW K, Freed(K), held' = {}, got' = got, asleep' \subseteq {"client", "swap"},
         NEW label \in {"idle", "dequeue", "released"}, Goto("client", label),
         pc["client"] # "notify", lost' \subseteq lost,
         UNCHANGED <<con, latch, current, frames, twice>>
  PROVE  IInv'
  <1>1. /\ pc' \in [{"client", "swap"} -> {"idle", "dequeue", "request", "notify",
                                           "released", "disconnect", "async"}]
        /\ pc'["client"] = label
    BY ClientMoves DEF IInv
  <1>2. TypeOK'
    BY <1>1 DEF IInv, TypeOK, Freed
  <1>3. ClientOK'
    BY <1>1 DEF ClientOK
  <1>4. FramesOK'
    BY <1>1, FreedFrames
  <1> QED BY <1>2, <1>3, <1>4, FreedSlots, FreedConsumer DEF IInv

LEMMA AllFreed ==
  ASSUME IInv, NEW n \in Nat, NEW m \in Nat,
         \/ q' = [FreeAllBuffers(q) EXCEPT !.connected = FALSE]
         \/ q' = [FreeAllBuffers(q) EXCEPT !.count = n, !.client = m]
  PROVE  Freed({})
  <1> DEFINE d == FreeAllBuffers(q)
  <1>1. /\ d \in Queues
        /\ \A i \in Slots : d.state[i] = "FREE" /\ ~d.buffer[i] /\ ~d.seen[i]
        /\ d.stale = q.stale \cup {i \in Slots : q.state[i] = "ACQUIRED"}
        /\ d.fifo = <<>>
    BY FreedAllFacts DEF IInv, TypeOK
  <1>2. \/ q' = [d EXCEPT !.connected = FALSE]
        \/ q' = [d EXCEPT !.count = n, !.client = m]
    OBVIOUS
  <1> HIDE DEF d
  <1>3. /\ q' \in Queues /\ q'.state = d.state /\ q'.seen = d.seen
        /\ q'.stale = d.stale /\ q'.fifo = d.fifo
    <2>1. CASE q' = [d EXCEPT !.connected = FALSE]
      BY <1>1, <2>1 DEF Queues
    <2>2. CASE q' = [d EXCEPT !.count = n, !.client = m]
      BY <1>1, <2>2 DEF Queues
    <2> QED BY <1>2, <2>1, <2>2
  <1>4. \A i \in Slots : i \in q.stale \/ q.state[i] = "ACQUIRED" => i \in q'.stale
    BY <1>1, <1>3
  <1> QED BY <1>1, <1>3, <1>4 DEF Freed

LEMMA AllFreedButHead ==
  ASSUME IInv, q' = [FreeAllBuffersExceptHead(q) EXCEPT !.connected = FALSE], ~q.sync
  PROVE  Freed(HeadOf(q))
  <1> DEFINE d == FreeAllBuffersExceptHead(q)
             K == HeadOf(q)
  <1>1. /\ d \in Queues
        /\ \A i \in Slots :
              /\ d.state[i] = IF i \in K THEN q.state[i] ELSE "FREE"
              /\ d.buffer[i] = (i \in K /\ q.buffer[i])
              /\ d.seen[i] = (i \in K /\ q.seen[i])
        /\ d.stale = q.stale \cup {i \in Slots \ K : q.state[i] = "ACQUIRED"}
        /\ d.fifo = q.fifo /\ d.count = q.count
    BY FreedExceptHeadFacts DEF IInv, TypeOK
  <1>2. q' = [d EXCEPT !.connected = FALSE]
    OBVIOUS
  <1>3. K \subseteq In("QUEUED")
    BY DEF HeadOf, In, IInv, SlotsOK, TypeOK, Queues
  <1>4. Len(q.fifo) <= 1
    BY DEF IInv, SlotsOK
  <1>5. q.buffer \in [Slots -> BOOLEAN] /\ q.seen \in [Slots -> BOOLEAN]
    BY DEF IInv, TypeOK, Queues
  <1> HIDE DEF d
  <1>6. /\ q' \in Queues /\ q'.state = d.state /\ q'.buffer = d.buffer /\ q'.seen = d.seen
        /\ q'.stale = d.stale /\ q'.fifo = d.fifo /\ q'.count = d.count
    BY <1>1, <1>2 DEF Queues
  <1>7. \A i \in Slots : i \in q.stale \/ q.state[i] = "ACQUIRED" => i \in q'.stale
    <2> SUFFICES ASSUME NEW i \in Slots, q.state[i] = "ACQUIRED"
                 PROVE  i \notin K
      BY <1>1, <1>6
    <2> QED BY <1>3 DEF In
  <1>8. \A i \in Slots :
          /\ i \in K => q'.state[i] = q.state[i] /\ q'.buffer[i] = q.buffer[i]
          /\ i \notin K => q'.state[i] = "FREE"
          /\ q'.seen[i] => q.seen[i] /\ i \in K
    BY <1>1, <1>5, <1>6
  <1> QED BY <1>1, <1>4, <1>6, <1>7, <1>8 DEF Freed

LEMMA DisconnectedKeeps ==
  ASSUME IInv, NEW drained \in BOOLEAN, Disconnected(drained), drained => ~Undrained,
         held' = {}, pc["client"] # "notify"
  PROVE  IInv'
  <1>0. /\ asleep' \subseteq {"client", "swap"} /\ got' = got
        /\ UNCHANGED <<con, latch, current, frames, twice>>
    BY DEF Disconnected, Broadcast
  <1>1. PICK label \in {"idle", "released"} : Goto("client", label)
    BY DEF Disconnected
  <1>2. CASE drained /\ q.sync
    <2>1. q' = [FreeAllBuffers(q) EXCEPT !.connected = FALSE] /\ lost' \subseteq lost
      BY <1>2 DEF Disconnected
    <2>2. Freed({})
      BY <2>1, AllFreed
    <2> QED BY <1>0, <1>1, <2>1, <2>2, FreedClient
  <1>3. CASE drained /\ ~q.sync
    <2>1. q' = [FreeAllBuffersExceptHead(q) EXCEPT !.connected = FALSE] /\ lost' \subseteq lost
      BY <1>3 DEF Disconnected
    <2>2. Freed(HeadOf(q))
      BY <1>3, <2>1, AllFreedButHead
    <2> QED BY <1>0, <1>1, <2>1, <2>2, FreedClient
  <1>4. CASE ~drained
    <2>1. q' = [q EXCEPT !.connected = FALSE] /\ lost' = lost
      BY <1>4 DEF Disconnected
    <2>2. q \in Queues /\ q.count \in Nat
      BY DEF IInv, TypeOK, Queues
    <2>3. /\ q' \in Queues /\ q'.sync = q.sync /\ q'.client = q.client
          /\ q'.state = q.state /\ q'.buffer = q.buffer /\ q'.seen = q.seen
          /\ q'.stale = q.stale /\ q'.fifo = q.fifo /\ q'.abandoned = q.abandoned
          /\ q'.count = q.count
      BY <2>1, <2>2 DEF Queues
    <2>4. Quiet
      BY <2>2, <2>3 DEF Quiet
    <2> QED BY <1>0, <1>1, <2>1, <2>3, <2>4, ClientStays DEF consumerVars
  <1> QED BY <1>2, <1>3, <1>4

LEMMA DisconnectWaitsKeeps ==
  ASSUME IInv, DisconnectWaits, held' = {}, pc["client"] # "notify"
  PROVE  IInv'
  <1>1. Quiet /\ q'.client = q.client
    BY StillQuiet DEF DisconnectWaits
  <1>2. asleep' \subseteq {"client", "swap"}
    BY DEF DisconnectWaits, Wait, IInv, TypeOK
  <1> QED BY <1>1, <1>2, ClientStays DEF DisconnectWaits

LEMMA DisconnectKeeps ==
  ASSUME IInv, Disconnect
  PROVE  IInv'
  <1>1. held' = {} /\ pc["client"] # "notify"
    BY DEF Disconnect, Call, On
  <1>2. CASE Undrained
    BY <1>1, <1>2, DisconnectWaitsKeeps DEF Disconnect
  <1>3. CASE ~Undrained
    BY <1>1, <1>3, DisconnectedKeeps DEF Disconnect
  <1> QED BY <1>2, <1>3

LEMMA DisconnectAwakeKeeps ==
  ASSUME IInv, DisconnectAwake
  PROVE  IInv'
  <1>1. held' = {} /\ pc["client"] # "notify"
    BY DEF DisconnectAwake, On, IInv, ClientOK
  <1>2. CASE q.abandoned \/ ~q.connected
    BY <1>1, <1>2, DisconnectedKeeps DEF DisconnectAwake
  <1>3. CASE ~(q.abandoned \/ ~q.connected) /\ Undrained
    BY <1>1, <1>3, DisconnectWaitsKeeps DEF DisconnectAwake
  <1>4. CASE ~(q.abandoned \/ ~q.connected) /\ ~Undrained
    BY <1>1, <1>4, DisconnectedKeeps DEF DisconnectAwake
  <1> QED BY <1>2, <1>3, <1>4

LEMMA SetBufferCountKeeps ==
  ASSUME IInv, NEW n \in ClientCounts, SetBufferCount(n)
  PROVE  IInv'
  <1>0. /\ n \in Nat /\ q \in Queues /\ q.count \in Nat /\ q.server \in Nat
        /\ pc["client"] = "idle" /\ ~q.abandoned
        /\ UNCHANGED <<got, held, con, latch, current, frames, twice>>
    BY CountsNat DEF IInv, TypeOK, Queues, SetBufferCount, Call, On
  <1>1. CASE n = 0
    <2> DEFINE m == IF q.server >= MinBufferSlots THEN q.server ELSE MinBufferSlots
               b == [q EXCEPT !.client = 0]
    <2>1. /\ q' = SetCountServer(b, m) /\ UNCHANGED <<pc, lost>>
          /\ asleep' = IF m = q.count THEN asleep ELSE {}
      BY <1>1 DEF SetBufferCount
    <2>2. m \in Nat
      BY <1>0, CountsNat DEF MinBufferSlots
    <2>3. /\ b \in Queues
          /\ b.state = q.state /\ b.buffer = q.buffer /\ b.seen = q.seen
          /\ b.stale = q.stale /\ b.fifo = q.fifo /\ b.abandoned = q.abandoned
          /\ b.count = q.count /\ b.sync = q.sync
      BY <1>0 DEF Queues
    <2> HIDE DEF m, b
    <2>4. /\ q' \in Queues
          /\ q'.state = b.state /\ q'.buffer = b.buffer /\ q'.seen = b.seen
          /\ q'.stale = b.stale /\ q'.fifo = b.fifo
          /\ q'.count >= b.count /\ q'.sync = b.sync /\ q'.abandoned = b.abandoned
      BY <2>1, <2>2, <2>3, CountServerFacts
    <2>5. Quiet
      BY <2>3, <2>4 DEF Quiet
    <2>6. asleep' \subseteq {"client", "swap"}
      BY <2>1 DEF IInv, TypeOK
    <2>7. Goto("client", "idle")
      BY <1>0, <2>1 DEF Goto, IInv, TypeOK
    <2> QED BY <1>0, <2>1, <2>5, <2>6, <2>7, ClientStays DEF consumerVars
  <1>2. CASE n # 0
    <2>1. /\ q' = [FreeAllBuffers(q) EXCEPT !.count = n, !.client = n]
          /\ lost' = {} /\ asleep' = {} /\ Goto("client", "released")
          /\ \A i \in In("DEQUEUED") : i >= q.count
      BY <1>2 DEF SetBufferCount, Broadcast
    <2>2. Freed({})
      BY <1>0, <2>1, AllFreed
    <2>3. held = {}
      <3> SUFFICES ASSUME NEW i \in held PROVE FALSE
        OBVIOUS
      <3>1. i \in Slots /\ q.state[i] = "DEQUEUED"
        BY <1>0 DEF IInv, TypeOK, ClientOK
      <3>2. i < q.count /\ i >= q.count
        BY <2>1, <3>1 DEF In, IInv, SlotsOK
      <3> QED BY <1>0, <3>1, <3>2, SlotNumbers
    <2> QED BY <1>0, <2>1, <2>2, <2>3, FreedClient
  <1> QED BY <1>1, <1>2

LEMMA InDequeueFacts ==
  ASSUME IInv, InDequeue
  PROVE  /\ pc["client"] \in {"idle", "dequeue"} /\ ~q.abandoned
         /\ held = {} \/ q.client > 0
         /\ NeedsToChange => held = {}
  <1>1. q.client \in Nat
    BY DEF IInv, TypeOK, Queues
  <1>2. /\ pc["client"] \in {"idle", "dequeue"} /\ ~q.abandoned
        /\ held = {} \/ q.client > 0
    BY DEF InDequeue, Call, On, IInv, ClientOK
  <1> QED BY <1>1, <1>2 DEF NeedsToChange

LEMMA ResizedFreed ==
  ASSUME IInv, NeedsToChange, q' = Resized
  PROVE  Freed({})
  <1>1. /\ q' \in Queues
        /\ \A i \in Slots : q'.state[i] = "FREE" /\ ~q'.seen[i]
        /\ q'.stale = q.stale \cup {i \in Slots : q.state[i] = "ACQUIRED"}
        /\ q'.fifo = <<>>
    BY ResizedFacts DEF IInv, TypeOK
  <1>2. \A i \in Slots : i \in q.stale \/ q.state[i] = "ACQUIRED" => i \in q'.stale
    BY <1>1
  <1> QED BY <1>1, <1>2 DEF Freed

LEMMA ResizedKeeps ==
  ASSUME IInv, InDequeue, NEW label \in {"idle", "dequeue"}, Goto("client", label),
         q' = Resized, lost' = IF NeedsToChange THEN {} ELSE lost,
         asleep' \subseteq {"client", "swap"},
         UNCHANGED <<got, held, con, latch, current, frames, twice>>
  PROVE  IInv'
  <1>1. CASE NeedsToChange
    <2>1. held' = {} /\ lost' \subseteq lost /\ pc["client"] # "notify"
      BY <1>1, InDequeueFacts
    <2> QED BY <1>1, <2>1, ResizedFreed, FreedClient
  <1>2. CASE ~NeedsToChange
    <2>1. q' = q /\ lost' = lost
      BY <1>2 DEF Resized
    <2> QED BY <2>1, InDequeueFacts, StillQuiet, ClientStays DEF consumerVars
  <1> QED BY <1>1, <1>2

LEMMA DequeueFailsKeeps ==
  ASSUME IInv, DequeueFails
  PROVE  IInv'
  <1>0. /\ Goto("client", "idle") /\ asleep' \subseteq {"client", "swap"}
        /\ UNCHANGED <<got, held, con, latch, current, frames, twice>>
    BY DEF DequeueFails, IInv, TypeOK
  <1>1. CASE On("client", "dequeue") /\ q.abandoned /\ UNCHANGED <<q, lost>>
    <2>1. pc["client"] # "notify"
      BY <1>1 DEF On
    <2> QED BY <1>0, <1>1, <2>1, StillQuiet, ClientStays DEF consumerVars
  <1>2. CASE InDequeue /\ q' = Resized /\ lost' = IF NeedsToChange THEN {} ELSE lost
    BY <1>0, <1>2, ResizedKeeps
  <1> QED BY <1>1, <1>2 DEF DequeueFails

LEMMA DequeueWaitsKeeps ==
  ASSUME IInv, DequeueWaits
  PROVE  IInv'
  <1>0. /\ InDequeue /\ Goto("client", "dequeue") /\ asleep' \subseteq {"client", "swap"}
        /\ UNCHANGED <<got, held, con, latch, current, frames, twice>>
    BY DEF DequeueWaits, Wait, IInv, TypeOK
  <1>1. CASE UNCHANGED <<q, lost>>
    BY <1>0, <1>1, InDequeueFacts, StillQuiet, ClientStays DEF consumerVars
  <1>2. CASE q' = Resized /\ lost' = IF NeedsToChange THEN {} ELSE lost
    BY <1>0, <1>2, ResizedKeeps
  <1> QED BY <1>1, <1>2 DEF DequeueWaits

LEMMA AbandonKeeps ==
  ASSUME IInv, Abandon
  PROVE  IInv'
  <1> DEFINE d == FreeAllBuffers(q)
  <1>1. /\ d \in Queues
        /\ \A i \in Slots : d.state[i] = "FREE"
        /\ d.fifo = <<>> /\ d.client = q.client
    BY FreedAllFacts DEF IInv, TypeOK
  <1>2. q' = [[d EXCEPT !.stale = @ \cap {}] EXCEPT !.abandoned = TRUE]
    BY DEF Abandon, Forget
  <1>3. /\ con = "idle" /\ lost' = {} /\ current' = INVALID_BUFFER_SLOT /\ asleep' = {}
        /\ UNCHANGED <<pc, got, held, con, latch, frames, twice>>
    BY DEF Abandon, Broadcast
  <1> HIDE DEF d
  <1>4. /\ q' \in Queues /\ q'.state = d.state /\ q'.fifo = d.fifo
        /\ q'.client = d.client /\ q'.abandoned
    BY <1>1, <1>2 DEF Queues
  <1>5. TypeOK'
    BY <1>3, <1>4 DEF IInv, TypeOK
  <1>6. SlotsOK(q)'
    <2>1. DOMAIN q'.fifo = {} /\ Len(q'.fifo) = 0
      BY <1>1, <1>4
    <2> QED BY <1>1, <1>4, <2>1 DEF SlotsOK
  <1>7. ClientOK'
    BY <1>1, <1>3, <1>4 DEF IInv, ClientOK
  <1>8. ConsumerOK' /\ ViewOK'
    <2>1. latch' = INVALID_BUFFER_SLOT /\ con' = "idle"
      BY <1>3 DEF IInv, ConsumerOK
    <2> QED BY <1>1, <1>3, <1>4, <2>1 DEF ConsumerOK, ViewOK
  <1>9. FramesOK'
    <2>1. Len(q'.fifo) = 0 /\ frames \in Nat
      BY <1>1, <1>4, CountAssumption DEF IInv, TypeOK
    <2> QED BY <1>3, <2>1 DEF IInv, FramesOK, FramesAnnounced
  <1> QED BY <1>5, <1>6, <1>7, <1>8, <1>9 DEF IInv

\* onBuffersReleased lets go of the texture only if it is not its own.
LEMMA OnBuffersReleasedKeeps ==
  ASSUME IInv, OnBuffersReleased
  PROVE  IInv'
  <1>1. /\ con = "idle" /\ pc["client"] = "released" /\ Goto("client", "idle")
        /\ UNCHANGED <<asleep, got, held, con, latch, lost, frames, twice>>
        /\ q' = [q EXCEPT !.stale = @ \cap {current'}]
        /\ current' \in {current, INVALID_BUFFER_SLOT}
    BY DEF OnBuffersReleased, On, Forget
  <1>2. q \in Queues
    BY DEF IInv, TypeOK
  <1>3. /\ q' \in Queues /\ q'.client = q.client /\ q'.count = q.count /\ q'.sync = q.sync
        /\ q'.state = q.state /\ q'.buffer = q.buffer /\ q'.seen = q.seen
        /\ q'.fifo = q.fifo /\ q'.abandoned = q.abandoned
        /\ q'.stale = q.stale \cap {current'}
    BY <1>1, <1>2 DEF Queues
  <1>4. /\ pc' \in [{"client", "swap"} -> {"idle", "dequeue", "request", "notify",
                                           "released", "disconnect", "async"}]
        /\ pc'["client"] = "idle"
    BY <1>1, ClientMoves DEF IInv
  <1>5. TypeOK'
    BY <1>1, <1>3, <1>4 DEF IInv, TypeOK
  <1>6. SlotsOK(q)'
    BY <1>3 DEF IInv, SlotsOK
  <1>7. ClientOK'
    BY <1>1, <1>3, <1>4 DEF IInv, ClientOK
  <1>8. FramesOK'
    BY <1>1, <1>3, <1>4, QuietFrames
  <1>9. latch = INVALID_BUFFER_SLOT /\ latch' = latch
    BY <1>1 DEF IInv, ConsumerOK
  <1>10. ConsumerOK'
    <2>1. \A i \in Slots : q.state[i] = "ACQUIRED" => i = current /\ q.seen[i]
      BY <1>9, SlotNumbers DEF IInv, ConsumerOK, SlotsOK
    <2>2. current \in Slots /\ q.seen[current] => current' = current
      BY DEF OnBuffersReleased
    <2> QED BY <1>1, <1>3, <1>9, <2>1, <2>2 DEF IInv, ConsumerOK
  <1>11. ViewOK'
    <2>1. CASE current' = INVALID_BUFFER_SLOT
      BY <1>1, <1>9, <2>1 DEF IInv, ViewOK
    <2>2. CASE current' = current
      BY <1>1, <1>3, <1>9, <2>2 DEF IInv, ViewOK, Mine
    <2> QED BY <1>1, <2>1, <2>2
  <1> QED BY <1>5, <1>6, <1>7, <1>8, <1>10, <1>11 DEF IInv

----------------------------------------------------------------------------
(* A slot is dequeued.                                                     *)

\* The queue in which dequeueBuffer looks for a slot.
LEMMA ResizedSlots ==
  ASSUME IInv, InDequeue
  PROVE  /\ Resized \in Queues /\ SlotsOK(Resized)
         /\ Resized.client = q.client /\ Resized.abandoned = q.abandoned
         /\ Len(Resized.fifo) <= Len(q.fifo)
         /\ \A i \in held : Resized.state[i] = "DEQUEUED" /\ Resized.buffer[i]
         /\ \A i \in Slots : Resized.state[i] = "ACQUIRED" => q.state[i] = "ACQUIRED"
         /\ \A i \in Slots : Mine(i) => IF Resized.state[i] = "ACQUIRED" THEN Resized.seen[i]
                                        ELSE i \in Resized.stale /\ ~Resized.seen[i]
  <1>0. q \in Queues /\ Len(q.fifo) \in Nat
    BY DEF IInv, TypeOK, Queues
  <1>1. CASE ~NeedsToChange
    <2>1. Resized = q
      BY <1>1 DEF Resized
    <2>2. \A i \in held : q.state[i] = "DEQUEUED" /\ q.buffer[i]
      BY InDequeueFacts DEF IInv, ClientOK
    <2> QED BY <1>0, <2>1, <2>2 DEF IInv, Mine
  <1>2. CASE NeedsToChange
    <2> DEFINE b == Resized
    <2>1. /\ b \in Queues /\ b.client = q.client /\ b.abandoned = q.abandoned
          /\ \A i \in Slots : b.state[i] = "FREE" /\ ~b.seen[i]
          /\ b.stale = q.stale \cup {i \in Slots : q.state[i] = "ACQUIRED"}
          /\ b.fifo = <<>>
      BY <1>0, <1>2, ResizedFacts
    <2>2. held = {}
      BY <1>2, InDequeueFacts
    <2> HIDE DEF b
    <2>3. DOMAIN b.fifo = {} /\ Len(b.fifo) = 0
      BY <2>1
    <2>4. SlotsOK(b)
      BY <2>1, <2>3 DEF SlotsOK
    <2>5. \A i \in Slots : Mine(i) => i \in b.stale
      BY <2>1 DEF Mine
    <2>6. \A i \in Slots : Mine(i) => IF b.state[i] = "ACQUIRED" THEN b.seen[i]
                                      ELSE i \in b.stale /\ ~b.seen[i]
      BY <2>1, <2>5
    <2> QED BY <1>0, <2>1, <2>2, <2>3, <2>4, <2>6 DEF b
  <1> QED BY <1>1, <1>2

\* What dequeueBuffer writes into the slot it has found.
Taken(b, i) == [b EXCEPT !.state[i] = "DEQUEUED", !.number = Unnumbered(@, {i})]
Renewed(b, i) == [b EXCEPT !.buffer[i] = TRUE, !.seen[i] = FALSE]

LEMMA TakenFacts ==
  ASSUME NEW b \in Queues, NEW found \in Slots, NEW alloc, NEW c,
         c = IF alloc = "new" THEN Renewed(Taken(b, found), found) ELSE Taken(b, found)
  PROVE  /\ c \in Queues
         /\ c.fifo = b.fifo /\ c.count = b.count /\ c.client = b.client
         /\ c.sync = b.sync /\ c.abandoned = b.abandoned /\ c.stale = b.stale
         /\ \A i \in Slots :
              /\ c.state[i] = IF i = found THEN "DEQUEUED" ELSE b.state[i]
              /\ b.buffer[i] => c.buffer[i]
              /\ c.seen[i] <=> b.seen[i] /\ ~(i = found /\ alloc = "new")
         /\ alloc = "new" => c.buffer[found]
  <1> DEFINE taken == Taken(b, found)
  <1>1. Unnumbered(b.number, {found}) \in [Slots -> Nat]
    BY UnnumberedType
  <1>2. /\ taken \in Queues
        /\ taken.fifo = b.fifo /\ taken.count = b.count /\ taken.client = b.client
        /\ taken.sync = b.sync /\ taken.abandoned = b.abandoned /\ taken.stale = b.stale
        /\ taken.state = [b.state EXCEPT ![found] = "DEQUEUED"]
        /\ taken.buffer = b.buffer /\ taken.seen = b.seen
    BY <1>1 DEF Queues, SlotStates, Taken
  <1> HIDE DEF taken
  <1>3. b.state \in [Slots -> SlotStates] /\ b.buffer \in [Slots -> BOOLEAN]
          /\ b.seen \in [Slots -> BOOLEAN]
    BY DEF Queues
  <1>4. CASE alloc = "new"
    <2>1. /\ c \in Queues
          /\ c.fifo = taken.fifo /\ c.count = taken.count /\ c.client = taken.client
          /\ c.sync = taken.sync /\ c.abandoned = taken.abandoned
          /\ c.stale = taken.stale /\ c.state = taken.state
          /\ c.buffer = [taken.buffer EXCEPT ![found] = TRUE]
          /\ c.seen = [taken.seen EXCEPT ![found] = FALSE]
      BY <1>2, <1>4 DEF Queues, Renewed, taken
    <2>2. \A i \in Slots :
            /\ c.state[i] = IF i = found THEN "DEQUEUED" ELSE b.state[i]
            /\ b.buffer[i] => c.buffer[i]
      BY <1>2, <1>3, <2>1
    <2>3. \A i \in Slots : c.seen[i] <=> b.seen[i] /\ i # found
      BY <1>2, <1>3, <2>1
    <2>4. c.buffer[found]
      BY <1>2, <1>3, <2>1
    <2> QED BY <1>2, <1>4, <2>1, <2>2, <2>3, <2>4
  <1>5. CASE alloc # "new"
    <2>1. c = taken
      BY <1>5 DEF taken
    <2> QED BY <1>2, <1>3, <1>5, <2>1
  <1> QED BY <1>4, <1>5

LEMMA DequeueFindsKeeps ==
  ASSUME IInv, NEW alloc \in {"fits", "new", "fail"}, DequeueFinds(alloc)
  PROVE  IInv'
  <1> DEFINE b == Resized
             found == Oldest(b)
  <1>1. /\ InDequeue /\ Free(b) # {}
        /\ alloc = "fits" => b.buffer[found]
        /\ q' = IF alloc = "new" THEN Renewed(Taken(b, found), found) ELSE Taken(b, found)
        /\ lost' = IF NeedsToChange THEN {}
                   ELSE IF alloc = "new" THEN lost \ {found} ELSE lost
        /\ held' = IF alloc = "fits" THEN held \cup {found} ELSE held
        /\ got' = IF alloc = "new" THEN found ELSE got
        /\ Goto("client", IF alloc = "new" THEN "request" ELSE "idle")
        /\ UNCHANGED <<asleep, con, latch, current, frames, twice>>
    BY DEF DequeueFinds, Taken, Renewed
  <1>2. /\ b \in Queues /\ SlotsOK(b)
        /\ b.client = q.client /\ b.abandoned = q.abandoned
        /\ Len(b.fifo) <= Len(q.fifo)
        /\ \A i \in held : b.state[i] = "DEQUEUED" /\ b.buffer[i]
        /\ \A i \in Slots : b.state[i] = "ACQUIRED" => q.state[i] = "ACQUIRED"
        /\ \A i \in Slots : Mine(i) => IF b.state[i] = "ACQUIRED" THEN b.seen[i]
                                       ELSE i \in b.stale /\ ~b.seen[i]
    BY <1>1, ResizedSlots
  <1>3. found \in Slots /\ b.state[found] = "FREE" /\ found < b.count
    <2>1. b.number \in [Slots -> Nat]
      BY <1>2 DEF Queues
    <2>2. found \in Free(b)
      BY <1>1, <2>1, OldestIsFree
    <2> QED BY <2>2 DEF Free
  <1>4. pc["client"] \in {"idle", "dequeue"} /\ ~q.abandoned
    BY <1>1, InDequeueFacts
  <1> HIDE DEF b, found
  <1>5. /\ q' \in Queues
        /\ q'.fifo = b.fifo /\ q'.count = b.count /\ q'.client = b.client
        /\ q'.sync = b.sync /\ q'.abandoned = b.abandoned /\ q'.stale = b.stale
        /\ \A i \in Slots :
              /\ q'.state[i] = IF i = found THEN "DEQUEUED" ELSE b.state[i]
              /\ b.buffer[i] => q'.buffer[i]
              /\ q'.seen[i] <=> b.seen[i] /\ ~(i = found /\ alloc = "new")
        /\ alloc = "new" => q'.buffer[found]
    <2>1. b \in Queues /\ found \in Slots
      BY <1>2, <1>3
    <2>2. q' = IF alloc = "new" THEN Renewed(Taken(b, found), found) ELSE Taken(b, found)
      BY <1>1
    <2> QED BY <2>1, <2>2, TakenFacts
  <1> DEFINE label == IF alloc = "new" THEN "request" ELSE "idle"
  <1>6. /\ pc' \in [{"client", "swap"} -> {"idle", "dequeue", "request", "notify",
                                           "released", "disconnect", "async"}]
        /\ pc'["client"] = label
    <2>1. label \in {"idle", "dequeue", "request", "notify", "released", "disconnect"}
      OBVIOUS
    <2>2. Goto("client", label)
      BY <1>1
    <2> HIDE DEF label
    <2> QED BY <2>1, <2>2, ClientMoves DEF IInv
  <1>7. TypeOK'
    BY <1>1, <1>3, <1>5, <1>6 DEF IInv, TypeOK
  <1>8. SlotsOK(q)'
    <2>1. b.fifo \in Seq(Slots)
      BY <1>2 DEF Queues
    <2>2. \A k \in DOMAIN b.fifo : b.fifo[k] \in Slots /\ b.fifo[k] # found
      BY <1>2, <1>3, <2>1 DEF SlotsOK
    <2>3. \A i \in Slots : q'.state[i] # "FREE" => i < q'.count
      BY <1>2, <1>3, <1>5 DEF SlotsOK
    <2>4. \A i \in Slots : q'.state[i] \in {"QUEUED", "ACQUIRED"} => q'.buffer[i]
      BY <1>2, <1>5 DEF SlotsOK
    <2>5. \A i \in Slots : q'.state[i] = "ACQUIRED" => q'.seen[i]
      BY <1>2, <1>5 DEF SlotsOK
    <2>6. \A k \in DOMAIN q'.fifo : q'.state[q'.fifo[k]] = "QUEUED"
      BY <1>2, <1>5, <2>2 DEF SlotsOK
    <2> QED BY <1>2, <1>5, <2>3, <2>4, <2>5, <2>6 DEF SlotsOK
  <1>9. ClientOK'
    <2>1. \A i \in held : i \in Slots /\ i # found
      BY <1>2, <1>3 DEF IInv, TypeOK
    <2>2. \A i \in held' : q'.state[i] = "DEQUEUED" /\ q'.buffer[i]
      BY <1>1, <1>2, <1>3, <1>5, <2>1
    <2>3. pc'["client"] = "request" => got' = found /\ alloc = "new"
      BY <1>1, <1>6
    <2> QED BY <1>3, <1>5, <1>6, <2>2, <2>3 DEF ClientOK
  <1>10. ConsumerOK'
    <2>1. \A i \in Slots : q'.state[i] = "ACQUIRED" => q.state[i] = "ACQUIRED"
      BY <1>2, <1>5
    <2> QED BY <1>1, <2>1 DEF IInv, ConsumerOK
  <1>11. ViewOK'
    <2>1. \A i \in Slots : Mine(i) => IF q'.state[i] = "ACQUIRED" THEN q'.seen[i]
                                      ELSE i \in q'.stale /\ ~q'.seen[i]
      BY <1>2, <1>3, <1>5
    <2>2. /\ current # INVALID_BUFFER_SLOT => current \in Slots
          /\ latch # INVALID_BUFFER_SLOT => latch \in Slots
      BY DEF IInv, TypeOK
    <2>3. lost' \subseteq lost
      BY <1>1
    <2> SUFFICES ASSUME ~twice'
                 PROVE  /\ lost' = {} /\ con' # "dead"
                        /\ current' = latch' => latch' = INVALID_BUFFER_SLOT
                        /\ current' # INVALID_BUFFER_SLOT => Mine(current)'
                        /\ latch' # INVALID_BUFFER_SLOT => Mine(latch)'
      BY DEF ViewOK
    <2>4. /\ lost = {} /\ con # "dead"
          /\ current = latch => latch = INVALID_BUFFER_SLOT
          /\ current # INVALID_BUFFER_SLOT => Mine(current)
          /\ latch # INVALID_BUFFER_SLOT => Mine(latch)
      BY <1>1 DEF IInv, ViewOK
    <2>5. current' # INVALID_BUFFER_SLOT => Mine(current)'
      BY <1>1, <2>1, <2>2, <2>4 DEF Mine
    <2>6. latch' # INVALID_BUFFER_SLOT => Mine(latch)'
      BY <1>1, <2>1, <2>2, <2>4 DEF Mine
    <2> QED BY <1>1, <2>3, <2>4, <2>5, <2>6
  <1>12. FramesOK'
    <2>1. Len(q.fifo) \in Nat /\ Len(q'.fifo) \in Nat /\ frames \in Nat
      BY <1>5, CountAssumption DEF IInv, TypeOK, Queues
    <2>2. pc'["client"] # "notify" /\ pc["client"] # "notify"
      BY <1>4, <1>6
    <2> QED BY <1>1, <1>2, <1>5, <2>1, <2>2 DEF IInv, FramesOK, FramesAnnounced
  <1> QED BY <1>7, <1>8, <1>9, <1>10, <1>11, <1>12 DEF IInv

----------------------------------------------------------------------------
(* A slot is queued, or comes back unused.                                 *)

\* The view of the consumer, in a step that neither acquires nor frees a slot
\* of its own.
LEMMA NotTheirs ==
  ASSUME IInv, UNCHANGED <<con, latch, current, lost, twice>>,
         q'.stale = q.stale, q'.seen = q.seen,
         \A i \in Slots : q'.state[i] = "ACQUIRED" <=> q.state[i] = "ACQUIRED"
  PROVE  ConsumerOK' /\ ViewOK'
  <1>1. ConsumerOK'
    BY DEF IInv, ConsumerOK
  <1>2. ViewOK'
    BY DEF IInv, TypeOK, ViewOK, Mine
  <1> QED BY <1>1, <1>2

LEMMA QueuedFacts ==
  ASSUME q \in Queues, NEW i \in Slots
  PROVE  LET c == Queued(i) IN
         /\ c \in Queues
         /\ c.buffer = q.buffer /\ c.seen = q.seen /\ c.stale = q.stale
         /\ c.count = q.count /\ c.client = q.client /\ c.sync = q.sync
         /\ c.abandoned = q.abandoned
         /\ c.fifo = IF Replaces THEN <<i>> ELSE Append(q.fifo, i)
         /\ \A j \in Slots : c.state[j] =
              IF j = i THEN "QUEUED"
              ELSE IF Replaces /\ j = Head(q.fifo) THEN "FREE" ELSE q.state[j]
  <1> DEFINE n == 1 + Cardinality({j \in Slots : q.number[j] > 0})
             f == IF Replaces THEN <<i>> ELSE Append(q.fifo, i)
             st == [j \in Slots |-> IF j = i THEN "QUEUED"
                                    ELSE IF Replaces /\ j = Head(q.fifo) THEN "FREE"
                                    ELSE q.state[j]]
  <1>1. n \in Nat
    <2>1. {j \in Slots : q.number[j] > 0} \in SUBSET Slots
      OBVIOUS
    <2> QED BY <2>1, SlotsCounted
  <1>2. f \in Seq(Slots)
    BY DEF Queues
  <1>3. st \in [Slots -> SlotStates]
    BY DEF Queues, SlotStates
  <1> DEFINE nm == [q.number EXCEPT ![i] = n]
  <1>4. Queued(i) = [q EXCEPT !.fifo = f, !.state = st, !.number = nm, !.used = TRUE]
    BY DEF Queued
  <1>5. \A j \in Slots : st[j] =
              IF j = i THEN "QUEUED"
              ELSE IF Replaces /\ j = Head(q.fifo) THEN "FREE" ELSE q.state[j]
    OBVIOUS
  <1> HIDE DEF n, f, st
  <1>6. nm \in [Slots -> Nat]
    BY <1>1 DEF Queues
  <1> HIDE DEF nm
  <1>7. /\ Queued(i) \in Queues
        /\ Queued(i).buffer = q.buffer /\ Queued(i).seen = q.seen
        /\ Queued(i).stale = q.stale /\ Queued(i).count = q.count
        /\ Queued(i).client = q.client /\ Queued(i).sync = q.sync
        /\ Queued(i).abandoned = q.abandoned
        /\ Queued(i).fifo = f /\ Queued(i).state = st
    BY <1>2, <1>3, <1>4, <1>6 DEF Queues
  <1> QED BY <1>5, <1>7 DEF f

LEMMA QueueBufferKeeps ==
  ASSUME IInv, NEW i \in Slots, QueueBuffer(i)
  PROVE  IInv'
  <1>1. /\ pc["client"] = "idle" /\ ~q.abandoned /\ i \in held /\ frames < MaxFrames
        /\ i < q.count /\ q.state[i] = "DEQUEUED" /\ held' = held \ {i} /\ asleep' = {}
        /\ Goto("client", Announced) /\ UNCHANGED <<got, consumerVars>>
    BY DEF QueueBuffer, Call, On, Broadcast
  <1>2. q \in Queues /\ q.fifo \in Seq(Slots) /\ q.sync \in BOOLEAN
    BY DEF IInv, TypeOK, Queues
  <1>3. /\ q' \in Queues
        /\ q'.buffer = q.buffer /\ q'.seen = q.seen /\ q'.stale = q.stale
        /\ q'.count = q.count /\ q'.client = q.client /\ q'.sync = q.sync
        /\ q'.abandoned = q.abandoned
        /\ q'.fifo = IF Replaces THEN <<i>> ELSE Append(q.fifo, i)
        /\ \A j \in Slots : q'.state[j] =
              IF j = i THEN "QUEUED"
              ELSE IF Replaces /\ j = Head(q.fifo) THEN "FREE" ELSE q.state[j]
    BY <1>2, QueuedFacts DEF QueueBuffer
  <1>4. /\ pc' \in [{"client", "swap"} -> {"idle", "dequeue", "request", "notify",
                                           "released", "disconnect", "async"}]
        /\ pc'["client"] = Announced
    <2>1. Announced \in {"idle", "dequeue", "request", "notify", "released", "disconnect"}
      BY DEF Announced
    <2> QED BY <1>1, <2>1, ClientMoves DEF IInv
  <1>5. TypeOK'
    BY <1>1, <1>3, <1>4 DEF IInv, TypeOK, consumerVars
  <1>6. Replaces => /\ Len(q.fifo) = 1 /\ Head(q.fifo) = q.fifo[1]
                    /\ Head(q.fifo) \in Slots /\ q.state[Head(q.fifo)] = "QUEUED"
    <2>0. Replaces => q.fifo # <<>> /\ Len(q.fifo) <= 1
      BY DEF Replaces, IInv, SlotsOK
    <2>1. ASSUME Replaces PROVE Len(q.fifo) = 1
      <3>1. Len(q.fifo) \in Nat /\ Len(q.fifo) > 0
        BY <1>2, <2>0, <2>1, NotEmpty
      <3>2. Len(q.fifo) <= 1
        BY <2>0, <2>1
      <3> DEFINE l == Len(q.fifo)
      <3>3. l \in Nat /\ l > 0 /\ l <= 1
        BY <3>1, <3>2
      <3> HIDE DEF l
      <3>4. l = 1
        BY <3>3
      <3> QED BY <3>4 DEF l
    <2>2. Replaces => Len(q.fifo) = 1
      BY <2>1
    <2> QED BY <1>2, <2>2 DEF IInv, SlotsOK
  <1>7. \A k \in DOMAIN q.fifo : q.fifo[k] \in Slots /\ q.fifo[k] # i
    BY <1>1, <1>2 DEF IInv, SlotsOK
  <1>8. q.buffer[i]
    BY <1>1 DEF IInv, ClientOK
  <1>9. SlotsOK(q)'
    <2>1. CASE Replaces
      <3>1. q'.fifo = <<i>> /\ DOMAIN q'.fifo = {1} /\ q'.fifo[1] = i /\ Len(q'.fifo) = 1
        BY <1>3, <2>1
      <3>2. \A j \in Slots : q.state[j] = "QUEUED" => j = Head(q.fifo)
        BY <1>2, <1>6, <2>1 DEF IInv, SlotsOK
      <3>3. \A j \in Slots : /\ q'.state[j] = "QUEUED" <=> j = i
                             /\ j # i /\ q'.state[j] # "FREE" => q'.state[j] = q.state[j]
        BY <1>3, <2>1, <3>2
      <3>4. \A j \in Slots : q'.state[j] # "FREE" => j < q'.count
        BY <1>1, <1>3, <3>3 DEF IInv, SlotsOK
      <3>5. \A j \in Slots : q'.state[j] \in {"QUEUED", "ACQUIRED"} => q'.buffer[j]
        BY <1>3, <1>8, <3>3 DEF IInv, SlotsOK
      <3>6. \A j \in Slots : q'.state[j] = "ACQUIRED" => q'.seen[j]
        BY <1>3, <3>3 DEF IInv, SlotsOK
      <3> QED BY <3>1, <3>3, <3>4, <3>5, <3>6 DEF SlotsOK
    <2>2. CASE ~Replaces
      <3>1. \A j \in Slots : q'.state[j] = IF j = i THEN "QUEUED" ELSE q.state[j]
        BY <1>3, <2>2
      <3>2. /\ q'.fifo = Append(q.fifo, i) /\ Len(q'.fifo) = Len(q.fifo) + 1
            /\ DOMAIN q'.fifo = DOMAIN q.fifo \cup {Len(q.fifo) + 1}
            /\ Len(q.fifo) + 1 \notin DOMAIN q.fifo
            /\ \A k \in DOMAIN q.fifo : q'.fifo[k] = q.fifo[k]
            /\ q'.fifo[Len(q.fifo) + 1] = i
        BY <1>2, <1>3, <2>2
      <3>3. \A k, m \in DOMAIN q'.fifo : q'.fifo[k] = q'.fifo[m] => k = m
        BY <1>7, <3>2 DEF IInv, SlotsOK
      <3>4. \A k \in DOMAIN q'.fifo : q'.state[q'.fifo[k]] = "QUEUED"
        BY <1>7, <3>1, <3>2 DEF IInv, SlotsOK
      <3>5. \A j \in Slots : q'.state[j] = "QUEUED" => \E k \in DOMAIN q'.fifo : q'.fifo[k] = j
        BY <3>1, <3>2 DEF IInv, SlotsOK
      <3>6. ~q'.sync => Len(q'.fifo) <= 1
        BY <1>2, <1>3, <2>2, <3>2 DEF Replaces
      <3>7. \A j \in Slots : q'.state[j] # "FREE" => j < q'.count
        BY <1>1, <1>3, <3>1 DEF IInv, SlotsOK
      <3>8. \A j \in Slots : q'.state[j] \in {"QUEUED", "ACQUIRED"} => q'.buffer[j]
        BY <1>3, <1>8, <3>1 DEF IInv, SlotsOK
      <3>9. \A j \in Slots : q'.state[j] = "ACQUIRED" => q'.seen[j]
        BY <1>3, <3>1 DEF IInv, SlotsOK
      <3> QED BY <3>3, <3>4, <3>5, <3>6, <3>7, <3>8, <3>9 DEF SlotsOK
    <2> QED BY <2>1, <2>2
  <1>10. ClientOK'
    <2>1. \A j \in held' : j \in Slots /\ q.state[j] = "DEQUEUED" /\ q.buffer[j] /\ j # i
      BY <1>1 DEF IInv, ClientOK, TypeOK
    <2>2. \A j \in held' : q'.state[j] = "DEQUEUED" /\ q'.buffer[j]
      BY <1>3, <1>6, <2>1
    <2> QED BY <1>4, <2>2 DEF ClientOK, Announced
  <1>11. ConsumerOK' /\ ViewOK'
    <2>1. \A j \in Slots : q'.state[j] = "ACQUIRED" <=> q.state[j] = "ACQUIRED"
      BY <1>1, <1>3, <1>6
    <2> QED BY <1>1, <1>3, <2>1, NotTheirs DEF consumerVars
  <1>12. FramesOK'
    <2>1. /\ Len(q.fifo) \in Nat /\ frames \in Nat /\ MaxFrames \in Nat
          /\ frames' = frames /\ Len(q.fifo) <= frames
      BY <1>1, <1>2, CountAssumption
         DEF IInv, TypeOK, FramesOK, FramesAnnounced, consumerVars
    <2>2. CASE Replaces
      <3>1. Len(q'.fifo) = 1 /\ pc'["client"] = "idle"
        BY <1>3, <1>4, <2>2 DEF Announced
      <3> QED BY <1>1, <1>6, <2>1, <2>2, <3>1 DEF FramesOK, FramesAnnounced
    <2>3. CASE ~Replaces
      <3>1. Len(q'.fifo) = Len(q.fifo) + 1 /\ pc'["client"] = "notify"
        BY <1>2, <1>3, <1>4, <2>3 DEF Announced
      <3> QED BY <1>1, <2>1, <3>1 DEF FramesOK, FramesAnnounced
    <2> QED BY <2>2, <2>3
  <1> QED BY <1>5, <1>9, <1>10, <1>11, <1>12 DEF IInv

\* A slot is freed that is not in mQueue.
LEMMA OneFreed ==
  ASSUME IInv, NEW i \in Slots, q.state[i] # "QUEUED",
         q'.state = [q.state EXCEPT ![i] = "FREE"],
         q'.buffer = q.buffer, q'.seen = q.seen, q'.fifo = q.fifo,
         q'.count = q.count, q'.sync = q.sync
  PROVE  /\ SlotsOK(q)'
         /\ \A j \in Slots : q'.state[j] = IF j = i THEN "FREE" ELSE q.state[j]
  <1>1. \A j \in Slots : q'.state[j] = IF j = i THEN "FREE" ELSE q.state[j]
    BY DEF IInv, TypeOK, Queues
  <1>2. \A k \in DOMAIN q.fifo : q.fifo[k] \in Slots
    BY DEF IInv, TypeOK, Queues
  <1>3. \A k \in DOMAIN q'.fifo : q'.state[q'.fifo[k]] = "QUEUED"
    BY <1>1, <1>2 DEF IInv, SlotsOK
  <1> QED BY <1>1, <1>3 DEF IInv, SlotsOK

LEMMA CancelBufferKeeps ==
  ASSUME IInv, NEW i \in Slots, CancelBuffer(i)
  PROVE  IInv'
  <1>1. /\ q.state[i] = "DEQUEUED" /\ held' = held \ {i} /\ asleep' = {}
        /\ UNCHANGED <<pc, got, consumerVars>> /\ pc["client"] = "idle"
    BY DEF CancelBuffer, Broadcast, Call, On
  <1>2. /\ q' \in Queues /\ q'.state = [q.state EXCEPT ![i] = "FREE"]
        /\ q'.buffer = q.buffer /\ q'.seen = q.seen /\ q'.stale = q.stale
        /\ q'.fifo = q.fifo /\ q'.count = q.count /\ q'.sync = q.sync
        /\ q'.abandoned = q.abandoned
    BY DEF CancelBuffer, IInv, TypeOK, Queues, SlotStates
  <1>3. /\ SlotsOK(q)'
        /\ \A j \in Slots : q'.state[j] = IF j = i THEN "FREE" ELSE q.state[j]
    BY <1>1, <1>2, OneFreed
  <1>4. TypeOK'
    BY <1>1, <1>2 DEF IInv, TypeOK, consumerVars
  <1>5. ClientOK'
    <2>1. ~q.abandoned => \A j \in held' : /\ j \in Slots /\ j # i
                                           /\ q.state[j] = "DEQUEUED" /\ q.buffer[j]
      BY <1>1 DEF IInv, ClientOK, TypeOK
    <2> QED BY <1>1, <1>2, <1>3, <2>1 DEF ClientOK
  <1>6. ConsumerOK' /\ ViewOK'
    BY <1>1, <1>2, <1>3, NotTheirs DEF consumerVars
  <1>7. FramesOK'
    BY <1>1, <1>2, QuietFrames DEF consumerVars
  <1> QED BY <1>3, <1>4, <1>5, <1>6, <1>7 DEF IInv

----------------------------------------------------------------------------
(* The consumer's two calls.                                               *)

LEMMA UpdateTexImageKeeps ==
  ASSUME IInv, UpdateTexImage
  PROVE  IInv'
  <1>0. /\ con = "idle" /\ ~q.abandoned /\ frames > 0 /\ frames' = frames - 1
        /\ UNCHANGED <<pc, got, held, current, lost>>
        /\ latch = INVALID_BUFFER_SLOT
    BY DEF UpdateTexImage, LockPageFlip, IInv, ConsumerOK
  <1>1. /\ frames \in Nat /\ MaxFrames \in Nat /\ frames' \in 0..MaxFrames
        /\ q \in Queues /\ q.fifo \in Seq(Slots)
    BY <1>0, CountAssumption DEF IInv, TypeOK, Queues
  <1>2. CASE q.fifo = <<>> /\ UNCHANGED <<q, asleep, con, latch, twice>>
    <2>1. Quiet /\ q'.client = q.client
      BY <1>2, StillQuiet
    <2>2. TypeOK'
      BY <1>0, <1>1, <1>2 DEF IInv, TypeOK
    <2>3. ClientOK'
      BY <1>0, <2>1, QuietClient
    <2>4. FramesOK'
      <3>1. Len(q'.fifo) = 0
        BY <1>2
      <3> QED BY <1>0, <1>1, <3>1 DEF IInv, FramesOK, FramesAnnounced
    <2> QED BY <1>0, <1>2, <2>1, <2>2, <2>3, <2>4, QuietSlots, QuietConsumer DEF IInv
  <1>3. CASE q.fifo # <<>>
    <2> DEFINE i == Head(q.fifo)
    <2>1. /\ q' = [q EXCEPT !.state[i] = "ACQUIRED", !.seen[i] = TRUE, !.fifo = Tail(@)]
          /\ con' \in {"latch", "empty"} /\ latch' = i
          /\ twice' = (twice \/ i = current) /\ asleep' = {}
      BY <1>3 DEF UpdateTexImage, LockPageFlip, Broadcast
    <2>2. /\ Len(q.fifo) \in Nat /\ Len(q.fifo) > 0 /\ 1 \in DOMAIN q.fifo /\ i = q.fifo[1]
          /\ i \in Slots /\ Tail(q.fifo) \in Seq(Slots)
          /\ Len(Tail(q.fifo)) = Len(q.fifo) - 1
          /\ \A k \in DOMAIN Tail(q.fifo) : k + 1 \in DOMAIN q.fifo
                                            /\ k \in Nat /\ k # 0
                                            /\ Tail(q.fifo)[k] = q.fifo[k + 1]
          /\ \A k \in DOMAIN q.fifo : k # 1 => k - 1 \in DOMAIN Tail(q.fifo)
                                               /\ Tail(q.fifo)[k - 1] = q.fifo[k]
      BY <1>1, <1>3
    <2> HIDE DEF i
    <2>3. /\ q' \in Queues /\ q'.fifo = Tail(q.fifo) /\ q'.buffer = q.buffer
          /\ q'.state = [q.state EXCEPT ![i] = "ACQUIRED"]
          /\ q'.seen = [q.seen EXCEPT ![i] = TRUE]
          /\ q'.stale = q.stale /\ q'.count = q.count /\ q'.client = q.client
          /\ q'.sync = q.sync /\ q'.abandoned = q.abandoned
      BY <1>1, <2>1, <2>2 DEF Queues, SlotStates
    <2>4. \A j \in Slots : /\ q'.state[j] = IF j = i THEN "ACQUIRED" ELSE q.state[j]
                           /\ q'.seen[j] <=> j = i \/ q.seen[j]
      <3>1. q.state \in [Slots -> SlotStates] /\ q.seen \in [Slots -> BOOLEAN]
        BY <1>1 DEF Queues
      <3>2. \A j \in Slots : q'.state[j] = IF j = i THEN "ACQUIRED" ELSE q.state[j]
        BY <2>2, <2>3, <3>1
      <3>3. \A j \in Slots : q'.seen[j] <=> j = i \/ q.seen[j]
        BY <2>2, <2>3, <3>1
      <3> QED BY <3>2, <3>3
    <2>5. q.state[i] = "QUEUED"
      BY <2>2 DEF IInv, SlotsOK
    <2>6. TypeOK'
      BY <1>0, <1>1, <2>1, <2>2, <2>3 DEF IInv, TypeOK
    <2>7. SlotsOK(q)'
      <3>1. \A k \in DOMAIN q'.fifo : q'.fifo[k] \in Slots /\ q'.fifo[k] # i
        <4> SUFFICES ASSUME NEW k \in DOMAIN q'.fifo
                     PROVE  q'.fifo[k] \in Slots /\ q'.fifo[k] # i
          OBVIOUS
        <4>1. k + 1 \in DOMAIN q.fifo /\ k + 1 # 1 /\ q'.fifo[k] = q.fifo[k + 1]
          BY <2>2, <2>3
        <4>2. q.fifo[k + 1] # q.fifo[1]
          BY <2>2, <4>1 DEF IInv, SlotsOK
        <4> QED BY <1>1, <2>2, <4>1, <4>2
      <3>2. \A k, m \in DOMAIN q'.fifo : q'.fifo[k] = q'.fifo[m] => k = m
        <4> SUFFICES ASSUME NEW k \in DOMAIN q'.fifo, NEW m \in DOMAIN q'.fifo,
                            q'.fifo[k] = q'.fifo[m]
                     PROVE  k = m
          OBVIOUS
        <4>1. k + 1 = m + 1 /\ k \in Nat /\ m \in Nat
          BY <2>2, <2>3 DEF IInv, SlotsOK
        <4> QED BY <4>1
      <3>3. \A k \in DOMAIN q'.fifo : q'.state[q'.fifo[k]] = "QUEUED"
        BY <2>2, <2>3, <2>4, <3>1 DEF IInv, SlotsOK
      <3>4. \A j \in Slots : q'.state[j] = "QUEUED" => \E k \in DOMAIN q'.fifo : q'.fifo[k] = j
        <4> SUFFICES ASSUME NEW j \in Slots, q'.state[j] = "QUEUED"
                     PROVE  \E k \in DOMAIN q'.fifo : q'.fifo[k] = j
          OBVIOUS
        <4>1. j # i /\ q.state[j] = "QUEUED"
          BY <2>4
        <4>2. PICK k \in DOMAIN q.fifo : q.fifo[k] = j
          BY <4>1 DEF IInv, SlotsOK
        <4>3. k # 1
          BY <2>2, <4>1, <4>2
        <4>4. k - 1 \in DOMAIN q'.fifo /\ q'.fifo[k - 1] = j
          BY <2>2, <2>3, <4>2, <4>3
        <4> QED BY <4>4
      <3>5. ~q'.sync => Len(q'.fifo) <= 1
        BY <2>2, <2>3 DEF IInv, SlotsOK
      <3>6. \A j \in Slots : q'.state[j] # "FREE" => j < q'.count
        BY <2>3, <2>4, <2>5 DEF IInv, SlotsOK
      <3>7. \A j \in Slots : q'.state[j] \in {"QUEUED", "ACQUIRED"} => q'.buffer[j]
        BY <2>3, <2>4, <2>5 DEF IInv, SlotsOK
      <3>8. \A j \in Slots : q'.state[j] = "ACQUIRED" => q'.seen[j]
        BY <2>4 DEF IInv, SlotsOK
      <3> QED BY <3>2, <3>3, <3>4, <3>5, <3>6, <3>7, <3>8 DEF SlotsOK
    <2>8. ClientOK'
      <3>1. \A j \in Slots : q.state[j] = "DEQUEUED" => q'.state[j] = "DEQUEUED"
        BY <2>4, <2>5
      <3> QED BY <1>0, <2>3, <3>1 DEF IInv, ClientOK, TypeOK
    <2>9. ConsumerOK'
      BY <1>0, <2>1, <2>2, <2>4, SlotNumbers DEF IInv, ConsumerOK
    <2>10. ViewOK'
      <3> SUFFICES ASSUME ~twice'
                   PROVE  /\ lost' = {} /\ con' # "dead"
                          /\ current' = latch' => latch' = INVALID_BUFFER_SLOT
                          /\ current' # INVALID_BUFFER_SLOT => Mine(current)'
                          /\ latch' # INVALID_BUFFER_SLOT => Mine(latch)'
        BY DEF ViewOK
      <3>1. ~twice /\ i # current
        BY <2>1
      <3>2. lost = {} /\ (current # INVALID_BUFFER_SLOT => current \in Slots /\ Mine(current))
        BY <3>1 DEF IInv, ViewOK, TypeOK
      <3>3. current' # INVALID_BUFFER_SLOT => Mine(current)'
        BY <1>0, <2>3, <2>4, <3>1, <3>2 DEF Mine
      <3>4. Mine(latch)'
        BY <2>1, <2>2, <2>4 DEF Mine
      <3> QED BY <1>0, <2>1, <3>1, <3>2, <3>3, <3>4
    <2>11. FramesOK'
      BY <1>0, <1>1, <2>2, <2>3 DEF IInv, FramesOK, FramesAnnounced
    <2> QED BY <2>6, <2>7, <2>8, <2>9, <2>10, <2>11 DEF IInv
  <1> QED BY <1>2, <1>3 DEF UpdateTexImage

\* releaseBuffer of slot i, by a consumer that then has slot k.
LEMMA ReleasedFacts ==
  ASSUME IInv, NEW i \in Slots, NEW k, q' = Forget(Released(i), {k})
  PROVE  /\ q' \in Queues /\ SlotsOK(q)'
         /\ q'.buffer = q.buffer /\ q'.seen = q.seen /\ q'.fifo = q.fifo
         /\ q'.client = q.client /\ q'.abandoned = q.abandoned
         /\ \A j \in Slots : q'.state[j] = IF j = i /\ q.state[i] = "ACQUIRED" THEN "FREE"
                                           ELSE q.state[j]
         /\ k # i /\ k \in q.stale => k \in q'.stale
  <1>0. q \in Queues
    BY DEF IInv, TypeOK
  <1>1. CASE q.state[i] = "ACQUIRED"
    <2> DEFINE c == [q EXCEPT !.state[i] = "FREE"]
    <2>0. /\ c \in Queues /\ c.state = [q.state EXCEPT ![i] = "FREE"]
          /\ c.buffer = q.buffer /\ c.seen = q.seen /\ c.fifo = q.fifo
          /\ c.count = q.count /\ c.sync = q.sync /\ c.stale = q.stale
          /\ c.client = q.client /\ c.abandoned = q.abandoned
      BY <1>0 DEF Queues, SlotStates
    <2>1. q' = [c EXCEPT !.stale = @ \cap {k}]
      BY <1>1 DEF Forget, Released
    <2> HIDE DEF c
    <2>2. /\ q' \in Queues /\ q'.state = [q.state EXCEPT ![i] = "FREE"]
          /\ q'.buffer = q.buffer /\ q'.seen = q.seen /\ q'.fifo = q.fifo
          /\ q'.count = q.count /\ q'.sync = q.sync
          /\ q'.client = q.client /\ q'.abandoned = q.abandoned
          /\ q'.stale = q.stale \cap {k}
      BY <2>0, <2>1 DEF Queues
    <2>3. /\ SlotsOK(q)'
          /\ \A j \in Slots : q'.state[j] = IF j = i THEN "FREE" ELSE q.state[j]
      BY <1>1, <2>2, OneFreed
    <2>4. \A j \in Slots : q'.state[j] = IF j = i /\ q.state[i] = "ACQUIRED" THEN "FREE"
                                         ELSE q.state[j]
      BY <1>1, <2>3
    <2>5. k \in q.stale => k \in q'.stale
      BY <2>2
    <2> QED BY <2>2, <2>3, <2>4, <2>5
  <1>2. CASE q.state[i] # "ACQUIRED"
    <2> DEFINE c == [q EXCEPT !.stale = @ \ {i}]
    <2>0. /\ c \in Queues /\ c.state = q.state
          /\ c.buffer = q.buffer /\ c.seen = q.seen /\ c.fifo = q.fifo
          /\ c.count = q.count /\ c.sync = q.sync /\ c.stale = q.stale \ {i}
          /\ c.client = q.client /\ c.abandoned = q.abandoned
      BY <1>0 DEF Queues
    <2>1. q' = [c EXCEPT !.stale = @ \cap {k}]
      BY <1>2 DEF Forget, Released
    <2> HIDE DEF c
    <2>2. /\ q' \in Queues /\ q'.state = q.state
          /\ q'.buffer = q.buffer /\ q'.seen = q.seen /\ q'.fifo = q.fifo
          /\ q'.count = q.count /\ q'.sync = q.sync
          /\ q'.client = q.client /\ q'.abandoned = q.abandoned
          /\ q'.stale = c.stale \cap {k}
      BY <2>0, <2>1 DEF Queues
    <2>3. SlotsOK(q)'
      <3>1. SlotsOK(q)
        BY DEF IInv
      <3>2. /\ q'.state = q.state /\ q'.buffer = q.buffer /\ q'.seen = q.seen
            /\ q'.fifo = q.fifo /\ q'.count = q.count /\ q'.sync = q.sync
        BY <2>2
      <3> QED BY <3>1, <3>2, SameSlots
    <2>4. k # i /\ k \in q.stale => k \in q'.stale
      BY <2>0, <2>2
    <2> QED BY <1>2, <2>2, <2>3, <2>4
  <1> QED BY <1>1, <1>2

\* What the release of a slot of the consumer's leaves of the client's.
LEMMA ReleasedClient ==
  ASSUME IInv, NEW i \in Slots, NEW k, q' = Forget(Released(i), {k}),
         UNCHANGED <<pc, got, held, frames>>
  PROVE  ClientOK' /\ FramesOK'
  <1>1. /\ q'.buffer = q.buffer /\ q'.fifo = q.fifo
        /\ q'.client = q.client /\ q'.abandoned = q.abandoned
        /\ \A j \in Slots : q'.state[j] = IF j = i /\ q.state[i] = "ACQUIRED" THEN "FREE"
                                          ELSE q.state[j]
    BY ReleasedFacts
  <1>2. \A j \in Slots : q.state[j] = "DEQUEUED" => q'.state[j] = "DEQUEUED"
    BY <1>1
  <1>3. ClientOK'
    BY <1>1, <1>2 DEF IInv, TypeOK, ClientOK
  <1>4. FramesOK'
    BY <1>1, QuietFrames
  <1> QED BY <1>3, <1>4

LEMMA DropFrameKeeps ==
  ASSUME IInv, DropFrame
  PROVE  IInv'
  <1>1. /\ con \in {"latch", "empty"} /\ q' = Forget(Released(latch), {current})
        /\ con' = "idle" /\ latch' = INVALID_BUFFER_SLOT
        /\ UNCHANGED <<pc, got, held, current, lost, frames, twice>>
        /\ asleep' \subseteq asleep
    BY DEF DropFrame, ReleaseWakes
  <1>2. latch \in Slots
    BY <1>1 DEF IInv, ConsumerOK, TypeOK
  <1>3. /\ q' \in Queues /\ SlotsOK(q)'
        /\ q'.seen = q.seen
        /\ \A j \in Slots : q'.state[j] = IF j = latch /\ q.state[latch] = "ACQUIRED" THEN "FREE"
                                          ELSE q.state[j]
        /\ current # latch /\ current \in q.stale => current \in q'.stale
    BY <1>1, <1>2, ReleasedFacts
  <1>4. ClientOK' /\ FramesOK'
    BY <1>1, <1>2, ReleasedClient
  <1>5. TypeOK'
    BY <1>1, <1>3 DEF IInv, TypeOK
  <1>6. ConsumerOK'
    <2>1. \A j \in Slots : q'.state[j] = "ACQUIRED" => q.state[j] = "ACQUIRED" /\ j # latch
      BY <1>3
    <2> QED BY <1>1, <2>1 DEF IInv, ConsumerOK
  <1>7. ViewOK'
    <2> SUFFICES ASSUME ~twice'
                 PROVE  /\ lost' = {} /\ con' # "dead"
                        /\ current' = latch' => latch' = INVALID_BUFFER_SLOT
                        /\ current' # INVALID_BUFFER_SLOT => Mine(current)'
                        /\ latch' # INVALID_BUFFER_SLOT => Mine(latch)'
      BY DEF ViewOK
    <2>1. /\ lost = {} /\ current # latch
          /\ current # INVALID_BUFFER_SLOT => current \in Slots /\ Mine(current)
      BY <1>1, <1>2, SlotNumbers DEF IInv, ViewOK, TypeOK
    <2>2. current # INVALID_BUFFER_SLOT => Mine(current)'
      BY <1>1, <1>3, <2>1 DEF Mine
    <2> QED BY <1>1, <2>1, <2>2
  <1> QED BY <1>3, <1>4, <1>5, <1>6, <1>7 DEF IInv

LEMMA LatchFrameKeeps ==
  ASSUME IInv, LatchFrame
  PROVE  IInv'
  <1> DEFINE old == current # INVALID_BUFFER_SLOT
             stale == old /\ ReleaseIsStale(current)
  <1>1. /\ con = "latch"
        /\ IF old THEN q' = Forget(Released(current), {latch}) /\ ReleaseWakes(current)
                  ELSE UNCHANGED <<q, asleep>>
        /\ lost' = IF stale /\ q.seen[current] THEN lost \cup {current} ELSE lost
        /\ current' = latch /\ latch' = INVALID_BUFFER_SLOT
        /\ con' = IF stale /\ current = latch THEN "dead" ELSE "idle"
        /\ UNCHANGED <<pc, got, held, frames, twice>>
    BY DEF LatchFrame
  <1>2. latch \in Slots /\ (old => current \in Slots)
    BY <1>1 DEF IInv, ConsumerOK, TypeOK
  <1>3. ~twice => /\ lost = {} /\ current # latch /\ Mine(latch)
                  /\ old => Mine(current)
    BY <1>2, SlotNumbers DEF IInv, ViewOK
  <1>4. ~twice /\ stale => ~q.seen[current] /\ current # latch
    BY <1>3 DEF ReleaseIsStale, Mine
  <1>5. asleep' \subseteq asleep /\ lost' \subseteq Slots
    BY <1>1, <1>2 DEF ReleaseWakes, IInv, TypeOK
  <1>6. con' \in {"idle", "dead"} /\ (~twice => con' = "idle" /\ lost' = {})
    BY <1>1, <1>3, <1>4
  <1>7. CASE ~old
    <2>1. q' = q /\ q \in Queues
      BY <1>1, <1>7 DEF IInv, TypeOK
    <2>2. TypeOK'
      BY <1>1, <1>2, <1>5, <1>6, <2>1 DEF IInv, TypeOK
    <2>3. SlotsOK(q)' /\ ClientOK' /\ FramesOK'
      BY <1>1, <2>1 DEF IInv, SlotsOK, ClientOK, FramesOK, FramesAnnounced
    <2>4. ConsumerOK'
      BY <1>1, <1>6, <1>7, <2>1, SlotNumbers DEF IInv, ConsumerOK
    <2>5. ViewOK'
      BY <1>1, <1>2, <1>3, <1>6, <2>1, SlotNumbers DEF ViewOK, Mine
    <2> QED BY <2>2, <2>3, <2>4, <2>5 DEF IInv
  <1>8. CASE old
    <2>0. q' = Forget(Released(current), {latch}) /\ current \in Slots
      BY <1>1, <1>2, <1>8
    <2>1. /\ q' \in Queues /\ SlotsOK(q)'
          /\ q'.seen = q.seen
          /\ \A j \in Slots : q'.state[j] =
               IF j = current /\ q.state[current] = "ACQUIRED" THEN "FREE" ELSE q.state[j]
          /\ latch # current /\ latch \in q.stale => latch \in q'.stale
      BY <2>0, ReleasedFacts
    <2>2. TypeOK'
      BY <1>1, <1>2, <1>5, <1>6, <2>1 DEF IInv, TypeOK
    <2>3. ClientOK' /\ FramesOK'
      BY <1>1, <2>0, ReleasedClient
    <2>4. ConsumerOK'
      <3>1. \A j \in Slots : q'.state[j] = "ACQUIRED" => q.state[j] = "ACQUIRED" /\ j # current
        BY <2>1
      <3> QED BY <1>1, <1>6, <3>1 DEF IInv, ConsumerOK
    <2>5. ViewOK'
      <3>1. ~twice => IF q'.state[latch] = "ACQUIRED" THEN q'.seen[latch]
                      ELSE latch \in q'.stale /\ ~q'.seen[latch]
        BY <1>2, <1>3, <2>1 DEF Mine
      <3>2. ~twice => Mine(current)'
        BY <1>1, <3>1 DEF Mine
      <3> QED BY <1>1, <1>2, <1>6, <3>2, SlotNumbers DEF ViewOK
    <2> QED BY <2>1, <2>2, <2>3, <2>4, <2>5 DEF IInv
  <1> QED BY <1>7, <1>8

----------------------------------------------------------------------------
(* The theorems.                                                           *)

LEMMA StutterKeeps ==
  ASSUME IInv, UNCHANGED vars
  PROVE  IInv'
  BY DEF IInv, TypeOK, SlotsOK, ClientOK, ConsumerOK, ViewOK, Mine, FramesOK, FramesAnnounced,
         vars, clientVars, consumerVars

LEMMA NextIInv == IInv /\ [Next]_vars => IInv'
  <1> SUFFICES ASSUME IInv, [Next]_vars PROVE IInv'
    OBVIOUS
  <1>1. CASE Connect \/ Disconnect \/ DisconnectAwake
    BY <1>1, ConnectKeeps, DisconnectKeeps, DisconnectAwakeKeeps
  <1>2. CASE \E n \in ClientCounts : SetBufferCount(n)
    BY <1>2, SetBufferCountKeeps
  <1>3. CASE \E i \in Slots : QueueBuffer(i) \/ CancelBuffer(i)
    BY <1>3, QueueBufferKeeps, CancelBufferKeeps
  <1>4. CASE OnBuffersReleased \/ RequestBuffer \/ OnFrameAvailable
    BY <1>4, OnBuffersReleasedKeeps, RequestBufferKeeps, OnFrameAvailableKeeps
  <1>5. CASE Dequeue
    BY <1>5, DequeueFailsKeeps, DequeueWaitsKeeps, DequeueFindsKeeps DEF Dequeue
  <1>6. CASE \E e \in BOOLEAN : SetSynchronousMode(e)
    BY <1>6, SetSynchronousModeKeeps
  <1>7. CASE SetSynchronousModeAwake
    BY <1>7, SynchronousModeAwakeKeeps
  <1>8. CASE \E n \in ServerCounts : SetBufferCountServer(n)
    BY <1>8, ServerCountKeeps
  <1>9. CASE ConsumerGoesOn
    BY <1>9, UpdateTexImageKeeps, DropFrameKeeps, LatchFrameKeeps DEF ConsumerGoesOn
  <1>10. CASE Abandon
    BY <1>10, AbandonKeeps
  <1>11. CASE UNCHANGED vars
    BY <1>11, StutterKeeps
  <1> QED BY <1>1, <1>2, <1>3, <1>4, <1>5, <1>6, <1>7, <1>8, <1>9, <1>10, <1>11 DEF Next

LEMMA AlwaysIInv == Spec => []IInv
  BY InitIInv, NextIInv, PTL DEF Spec

\* The fields of the queue, the threads and the consumer's copies stay in their
\* types, and the layer never counts more frames than the bound lets in.
THEOREM TypeCorrect == Spec => []TypeOK
  <1>1. IInv => TypeOK
    BY DEF IInv
  <1> QED BY <1>1, AlwaysIInv, PTL

\* mQueue is the list of the QUEUED slots, once each, and at most one long in
\* asynchronous mode; what is QUEUED or ACQUIRED is in use and has a buffer; the
\* consumer knows of all that is ACQUIRED; what the client may queue or cancel
\* is DEQUEUED until the queue is abandoned.  However calls, waits in them and
\* changes of mode and of the counts interleave.
THEOREM SlotsAccounted == Spec => []BuffersAccounted
  <1>1. ASSUME IInv PROVE BuffersAccounted
    <2>0. q.fifo \in Seq(Slots)
      BY <1>1 DEF IInv, TypeOK, Queues
    <2>1. IsInjective(q.fifo)
      BY <1>1 DEF IInv, SlotsOK, IsInjective
    <2>2. Range(q.fifo) = In("QUEUED")
      <3>1. \A i \in Range(q.fifo) : i \in In("QUEUED")
        BY <1>1, <2>0 DEF IInv, SlotsOK, Range, In
      <3>2. \A i \in In("QUEUED") : i \in Range(q.fifo)
        BY <1>1 DEF IInv, SlotsOK, Range, In
      <3> QED BY <3>1, <3>2
    <2>3. ~q.sync => Len(q.fifo) <= 1
      BY <1>1 DEF IInv, SlotsOK
    <2>4. \A i \in In("QUEUED") \cup In("ACQUIRED") : i < q.count /\ q.buffer[i]
      BY <1>1 DEF IInv, SlotsOK, In
    <2>5. In("ACQUIRED") \subseteq {current, latch}
      BY <1>1 DEF IInv, ConsumerOK, In
    <2>6. ~q.abandoned => held \subseteq In("DEQUEUED")
      BY <1>1 DEF IInv, TypeOK, ClientOK, In
    <2> QED BY <2>1, <2>2, <2>3, <2>4, <2>5, <2>6 DEF BuffersAccounted
  <1> QED BY <1>1, AlwaysIInv, PTL

\* No frame lies in mQueue without an onFrameAvailable that the layer still has
\* to act on, or that queueBuffer is about to call.
THEOREM NoFrameUnannounced == Spec => []FramesAnnounced
  <1>1. IInv => FramesAnnounced
    BY DEF IInv, FramesOK
  <1> QED BY <1>1, AlwaysIInv, PTL

\* Until it acquires the slot of its own texture, which only a queue that was
\* freed under its hands can give it, the consumer has the buffer of every slot
\* that acquireBuffer will not send again, and its texture is its own or will
\* be reported stale.
THEOREM ConsumerSeesTruth == Spec => []ConsumerViewExact
  <1>1. ASSUME IInv PROVE ConsumerViewExact
    <2> SUFFICES ASSUME ~twice
                 PROVE  ConsumerHasBuffer /\ TextureIsOwned /\ con # "dead"
      BY DEF ConsumerViewExact
    <2>1. lost = {} /\ con # "dead" /\ (current # INVALID_BUFFER_SLOT => Mine(current))
      BY <1>1 DEF IInv, ViewOK
    <2> QED BY <2>1 DEF ConsumerHasBuffer, TextureIsOwned, Mine
  <1> QED BY <1>1, AlwaysIInv, PTL
=============================================================================
