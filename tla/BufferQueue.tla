----------------------------- MODULE BufferQueue -----------------------------
(***************************************************************************)
(* A BufferQueue between its producer and its consumer (frameworks/native/ *)
(* native/libs/gui: BufferQueue.cpp, the consumer SurfaceTexture.cpp, the  *)
(* producer SurfaceTextureClient.cpp; and the counting of frames in        *)
(* services/surfaceflinger/Layer.cpp).                                     *)
(*                                                                         *)
(* Three threads: the client, in one call at a time because                *)
(* SurfaceTextureClient holds its mutex; swap, which calls setSwapInterval *)
(* without that mutex; and the consumer, which holds SurfaceTexture's      *)
(* mutex while updateTexImage makes two calls into the queue.  The queue's *)
(* mutex makes one step of what a call does between two unlocks: waiting   *)
(* on mDequeueCondition and calling the consumer's listener are the ends   *)
(* of a step.                                                              *)
(*                                                                         *)
(* A buffer has no content here.  The consumer keeps in mEGLSlots the      *)
(* buffers it has acquired, and lost are those it has thrown away although *)
(* they are still in their slots.  Fences, sizes, crops and formats are    *)
(* left out: a buffer fits what dequeueBuffer asks for or it does not.     *)
(* The client calls requestBuffer when dequeueBuffer says so, and the test *)
(* of mRequestBufferCalled never fails.                                    *)
(***************************************************************************)
EXTENDS Integers, Sequences, FiniteSets, SequencesExt

CONSTANTS
    NUM_BUFFER_SLOTS,       \* slots
    MinUndequeuedBuffers,   \* the constructor's bufferCount
    ClientCounts,           \* arguments of setBufferCount; 0 is one of them or not
    ServerCounts,           \* arguments of setBufferCountServer
    MaxFrames,              \* bound: announcements the consumer has not seen
    Follow                  \* bound: go on after a slot was acquired twice

ASSUME CountAssumption ==
    /\ MinUndequeuedBuffers \in 1..(NUM_BUFFER_SLOTS - 1)
    /\ NUM_BUFFER_SLOTS \in Nat /\ MaxFrames \in Nat /\ Follow \in BOOLEAN
    /\ ClientCounts \subseteq 0..NUM_BUFFER_SLOTS
    /\ ServerCounts \subseteq 2..NUM_BUFFER_SLOTS

VARIABLES
    q,        \* the BufferQueue
    pc,       \* where the client and the swap thread are
    asleep,   \* those of them that wait on mDequeueCondition
    got,      \* the slot that the client's dequeueBuffer has returned
    held,     \* slots whose buffer the client has and may queue or cancel
    con,      \* the consumer: "idle", in updateTexImage with a buffer, or with
              \* none in its copy of the slot, or "dead"
    latch,    \* the slot updateTexImage has acquired
    current,  \* mCurrentTexture
    lost,     \* slots that mEGLSlots has no buffer of, but mAcquireCalled is set
    frames,   \* mQueuedFrames of the layer: onFrameAvailable calls to act on
    twice     \* ghost: a slot was acquired while it was mCurrentTexture

clientVars == <<pc, asleep, got, held>>
consumerVars == <<con, latch, current, lost, frames, twice>>
vars == <<q, clientVars, consumerVars>>

Slots == 0..(NUM_BUFFER_SLOTS - 1)
INVALID_BUFFER_SLOT == -1
SlotStates == {"FREE", "DEQUEUED", "QUEUED", "ACQUIRED"}

Queues == [
    state   : [Slots -> SlotStates],
    buffer  : [Slots -> BOOLEAN],   \* mGraphicBuffer is not NULL
    seen    : [Slots -> BOOLEAN],   \* mAcquireCalled
    stale   : SUBSET Slots,         \* mNeedsCleanupOnRelease is set
    number  : [Slots -> Nat],       \* rank of mFrameNumber; 0 is 0
    fifo    : Seq(Slots),           \* mQueue
    count   : Nat, client : Nat, server : Nat,   \* m...BufferCount
    sync    : BOOLEAN, connected : BOOLEAN, abandoned : BOOLEAN,
    used    : BOOLEAN ]             \* mBufferHasBeenQueued

In(state) == {i \in Slots : q.state[i] = state}

TypeOK ==
    /\ q \in Queues
    /\ pc \in [{"client", "swap"} -> {"idle", "dequeue", "request", "notify",
                                      "released", "disconnect", "async"}]
    /\ asleep \subseteq {"client", "swap"}
    /\ got \in Slots \cup {INVALID_BUFFER_SLOT} /\ held \subseteq Slots
    /\ con \in {"idle", "latch", "empty", "dead"}
    /\ latch \in Slots \cup {INVALID_BUFFER_SLOT}
    /\ current \in Slots \cup {INVALID_BUFFER_SLOT}
    /\ lost \subseteq Slots
    /\ frames \in 0..MaxFrames /\ twice \in BOOLEAN

Init ==
    /\ q = [ state |-> [i \in Slots |-> "FREE"],
             buffer |-> [i \in Slots |-> FALSE],
             seen |-> [i \in Slots |-> FALSE], stale |-> {},
             number |-> [i \in Slots |-> 0], fifo |-> <<>>,
             count |-> MinUndequeuedBuffers + 1, client |-> 0,
             server |-> MinUndequeuedBuffers + 1,
             sync |-> FALSE, connected |-> FALSE, abandoned |-> FALSE, used |-> FALSE ]
    /\ pc = [p \in {"client", "swap"} |-> "idle"]
    /\ asleep = {} /\ got = INVALID_BUFFER_SLOT /\ held = {}
    /\ con = "idle" /\ latch = INVALID_BUFFER_SLOT /\ current = INVALID_BUFFER_SLOT
    /\ lost = {} /\ frames = 0 /\ twice = FALSE

----------------------------------------------------------------------------
(* What the queue's functions do to it.                                    *)

Goto(p, label) == pc' = [pc EXCEPT ![p] = label]

\* mDequeueCondition
Broadcast == asleep' = {}
Wait(p) == asleep' = asleep \cup {p}

\* The server has not crashed, and the model goes on.
Alive == con # "dead" /\ (Follow \/ ~twice)

\* A thread is there and awake.
On(p, label) == pc[p] = label /\ p \notin asleep /\ Alive

MinBufferSlots == IF q.sync THEN MinUndequeuedBuffers ELSE MinUndequeuedBuffers + 1

\* Only the order of the frame numbers matters: the slots of S lose theirs, and
\* the others are counted from 1.
Unnumbered(number, S) ==
    [i \in Slots |-> IF i \in S \/ number[i] = 0 THEN 0
                    ELSE Cardinality({j \in Slots \ S : number[j] \in 1..number[i]})]

\* As below, but the consumer is not told.
FreeBuffersSilently(b, S) ==
    [b EXCEPT
        !.state  = [i \in Slots |-> IF i \in S THEN "FREE" ELSE @[i]],
        !.buffer = [i \in Slots |-> i \notin S /\ @[i]],
        !.seen   = [i \in Slots |-> i \notin S /\ @[i]],
        !.number = Unnumbered(@, S)]

\* freeBufferLocked, for each slot of S
FreeBuffers(b, S) ==
    [b EXCEPT
        !.state  = [i \in Slots |-> IF i \in S THEN "FREE" ELSE @[i]],
        !.buffer = [i \in Slots |-> i \notin S /\ @[i]],
        !.seen   = [i \in Slots |-> i \notin S /\ @[i]],
        !.stale  = @ \cup {i \in S : b.state[i] = "ACQUIRED"},
        !.number = Unnumbered(@, S)]

FreeAllBuffers(b) == [FreeBuffers(b, Slots) EXCEPT !.fifo = <<>>, !.used = FALSE]

\* mNeedsCleanupOnRelease is set, for a slot in the consumer's hands, before it
\* is read: it need not be kept for the others.
Forget(b, slots) == [b EXCEPT !.stale = @ \cap slots]

\* The head of the queue, if there is one.
HeadOf(b) == {b.fifo[k] : k \in DOMAIN b.fifo \cap {1}}

FreeAllBuffersExceptHead(b) ==
    [FreeBuffers(b, Slots \ HeadOf(b)) EXCEPT !.used = FALSE]

\* setBufferCountServerLocked
SetCountServer(b, n) ==
    CASE n = b.count -> b
      [] n # b.count /\ b.client = 0 /\ n >= b.count -> [b EXCEPT !.count = n, !.server = n]
      [] n # b.count /\ ~(b.client = 0 /\ n >= b.count) -> [b EXCEPT !.server = n]

----------------------------------------------------------------------------
(* The client.                                                             *)

\* A new call.  In an abandoned queue all of them return NO_INIT or do nothing.
Call == On("client", "idle") /\ ~q.abandoned

\* Only a queue without a producer takes one, but every try resets
\* mBufferHasBeenQueued.
Connect ==
    /\ Call
    /\ q' = [q EXCEPT !.connected = TRUE, !.used = FALSE]
    /\ UNCHANGED <<clientVars, consumerVars>>

\* drainQueueLocked has to wait.
Undrained == q.sync /\ q.fifo # <<>>

\* The rest of disconnect, after the queue was drained or the wait for that
\* was given up.
Disconnected(drained) ==
    LET freed == IF q.sync THEN FreeAllBuffers(q) ELSE FreeAllBuffersExceptHead(q) IN
    /\ q' = [(IF drained THEN freed ELSE q) EXCEPT !.connected = FALSE]
    /\ lost' = IF ~drained THEN lost ELSE IF q.sync THEN {} ELSE lost \cap HeadOf(q)
    /\ Broadcast
    /\ Goto("client", IF q.abandoned THEN "idle" ELSE "released")
    /\ UNCHANGED <<got, con, latch, current, frames, twice>>

DisconnectWaits ==
    /\ Wait("client") /\ Goto("client", "disconnect")
    /\ UNCHANGED <<q, got, consumerVars>>

Disconnect ==
    /\ Call /\ q.connected
    /\ held' = {}
    /\ IF Undrained THEN DisconnectWaits ELSE Disconnected(TRUE)

DisconnectAwake ==
    /\ On("client", "disconnect")
    /\ held' = held
    /\ IF q.abandoned \/ ~q.connected THEN Disconnected(FALSE)
       ELSE IF Undrained THEN DisconnectWaits ELSE Disconnected(TRUE)

\* SurfaceTexture::onBuffersReleased, called by disconnect and setBufferCount
\* after they have unlocked the queue: the consumer forgets the slots that it
\* has not acquired since they were last freed or reallocated.
OnBuffersReleased ==
    LET mask == {i \in Slots : ~q.seen[i] /\ ~q.abandoned} IN
    /\ On("client", "released") /\ con = "idle"
    /\ current' = IF current \in mask THEN INVALID_BUFFER_SLOT ELSE current
    /\ q' = Forget(q, {current'})
    /\ Goto("client", "idle")
    /\ UNCHANGED <<asleep, got, held, con, latch, lost, frames, twice>>

SetBufferCount(n) ==
    /\ Call /\ q.connected
    /\ \A i \in In("DEQUEUED") : i >= q.count
    /\ \/ /\ n = 0
          /\ LET m == IF q.server >= MinBufferSlots THEN q.server ELSE MinBufferSlots IN
             /\ q' = SetCountServer([q EXCEPT !.client = 0], m)
             /\ asleep' = IF m = q.count THEN asleep ELSE {}
          /\ UNCHANGED <<pc, lost>>
       \/ /\ n # 0 /\ n >= MinBufferSlots
          /\ q' = [FreeAllBuffers(q) EXCEPT !.count = n, !.client = n]
          /\ lost' = {} /\ Broadcast
          /\ Goto("client", "released")
    /\ UNCHANGED <<got, held, con, latch, current, frames, twice>>

----------------------------------------------------------------------------
(* dequeueBuffer.  The client dequeues a second buffer only after it has   *)
(* set the number of buffers.                                              *)

\* The call begins, or a wait in it has ended.
InDequeue ==
    \/ Call /\ q.connected /\ (held = {} \/ q.client > 0)
    \/ On("client", "dequeue") /\ ~q.abandoned

\* numberOfBuffersNeedsToChange
NeedsToChange == q.client = 0 /\ (q.server # q.count \/ q.server < MinBufferSlots)

\* The queue after the number of buffers has changed, if it needs to.
Resized ==
    IF NeedsToChange
    THEN [FreeAllBuffers(q) EXCEPT !.count = Max({q.server, MinBufferSlots})]
    ELSE q

\* The slots that the loop counts, and those it can give away.
Dequeued(b) == {i \in Slots : i < b.count /\ b.state[i] = "DEQUEUED"}
Free(b) == {i \in Slots : i < b.count /\ b.state[i] = "FREE"}

\* -EINVAL and -EBUSY
Refused(b) ==
    \/ b.client = 0 /\ Dequeued(b) # {}
    \/ /\ b.used
       /\ b.count - (Cardinality(Dequeued(b)) + 1) < MinUndequeuedBuffers - (IF b.sync THEN 1 ELSE 0)

\* The free slot with the smallest mFrameNumber, the first one if there are
\* several.
Oldest(b) ==
    CHOOSE i \in Free(b) : \A j \in Free(b) :
        b.number[i] < b.number[j] \/ (b.number[i] = b.number[j] /\ i <= j)

\* The number of buffers has to change, and waits for the queue to drain.
MustDrain == NeedsToChange /\ q.fifo # <<>>

\* NO_INIT after a wait, or one of the errors.
DequeueFails ==
    /\ \/ On("client", "dequeue") /\ q.abandoned /\ UNCHANGED <<q, lost>>
       \/ /\ InDequeue /\ ~MustDrain /\ Refused(Resized)
          /\ q' = Resized /\ lost' = IF NeedsToChange THEN {} ELSE lost
    /\ Goto("client", "idle")
    /\ UNCHANGED <<asleep, got, held, con, latch, current, frames, twice>>

\* The two waits: for the queue to drain, and for a free buffer.
DequeueWaits ==
    /\ InDequeue
    /\ \/ MustDrain /\ UNCHANGED <<q, lost>>
       \/ /\ ~MustDrain /\ ~Refused(Resized) /\ Free(Resized) = {}
          /\ q' = Resized /\ lost' = IF NeedsToChange THEN {} ELSE lost
    /\ Wait("client") /\ Goto("client", "dequeue")
    /\ UNCHANGED <<got, held, con, latch, current, frames, twice>>

\* A slot is found.  Its buffer fits, or it gets a new one; if that cannot be
\* allocated the call fails and the slot stays DEQUEUED.  Its mFrameNumber is
\* not read before it is set again.
DequeueFinds(alloc) ==
    LET b == Resized
        found == Oldest(b)
        taken == [b EXCEPT !.state[found] = "DEQUEUED", !.number = Unnumbered(@, {found})] IN
    /\ InDequeue /\ ~MustDrain /\ ~Refused(b) /\ Free(b) # {}
    /\ alloc = "fits" => b.buffer[found]
    /\ q' = IF alloc = "new"
            THEN [taken EXCEPT !.buffer[found] = TRUE, !.seen[found] = FALSE]
            ELSE taken
    /\ lost' = IF NeedsToChange THEN {} ELSE IF alloc = "new" THEN lost \ {found} ELSE lost
    /\ held' = IF alloc = "fits" THEN held \cup {found} ELSE held
    /\ got' = IF alloc = "new" THEN found ELSE got
    /\ Goto("client", IF alloc = "new" THEN "request" ELSE "idle")
    /\ UNCHANGED <<asleep, con, latch, current, frames, twice>>

\* The client has been told BUFFER_NEEDS_REALLOCATION.
RequestBuffer ==
    /\ On("client", "request")
    /\ held' = IF q.abandoned THEN held ELSE held \cup {got}
    /\ got' = INVALID_BUFFER_SLOT
    /\ Goto("client", "idle")
    /\ UNCHANGED <<q, asleep, consumerVars>>

\* In synchronous mode the queue is a FIFO and every frame is announced; in
\* asynchronous mode a frame replaces, in silence, the one that waits.
Replaces == ~q.sync /\ q.fifo # <<>>

AnnouncedIfEmpty == IF q.fifo # <<>> THEN "idle" ELSE "notify"

Announced == IF Replaces THEN "idle" ELSE "notify"

QueuedKeepsFront(i) ==
    [q EXCEPT
        !.fifo  = IF Replaces THEN <<i>> ELSE Append(@, i),
        !.state = [@ EXCEPT ![i] = "QUEUED"],
        !.number = [@ EXCEPT ![i] = 1 + Cardinality({j \in Slots : q.number[j] > 0})],
        !.used  = TRUE]

Queued(i) ==
    [q EXCEPT
        !.fifo  = IF Replaces THEN <<i>> ELSE Append(@, i),
        !.state = [j \in Slots |-> IF j = i THEN "QUEUED"
                                   ELSE IF Replaces /\ j = Head(q.fifo) THEN "FREE" ELSE @[j]],
        !.number = [@ EXCEPT ![i] = 1 + Cardinality({j \in Slots : q.number[j] > 0})],
        !.used  = TRUE]

QueueBuffer(i) ==
    /\ Call /\ i \in held /\ frames < MaxFrames
    /\ i < q.count /\ q.state[i] = "DEQUEUED"
    /\ q' = Queued(i)
    /\ held' = held \ {i}
    /\ Broadcast
    /\ Goto("client", Announced)
    /\ UNCHANGED <<got, consumerVars>>

\* The layer counts the frame and asks SurfaceFlinger for an update.
OnFrameQueued == frames' = frames + 1

\* The listener: SurfaceTexture::onFrameAvailable calls Layer::onFrameQueued.
OnFrameAvailable ==
    /\ On("client", "notify") /\ con = "idle"
    /\ OnFrameQueued
    /\ Goto("client", "idle")
    /\ UNCHANGED <<q, asleep, got, held, con, latch, current, lost, twice>>

CancelBuffer(i) ==
    /\ Call /\ i \in held
    /\ i < q.count /\ q.state[i] = "DEQUEUED"
    /\ q' = [q EXCEPT !.state[i] = "FREE"]
    /\ held' = held \ {i}
    /\ Broadcast
    /\ UNCHANGED <<pc, got, consumerVars>>

----------------------------------------------------------------------------
(* setSynchronousMode, called by setSwapInterval.                          *)

\* The queue is drained, or need not be.
ModeSet(enabled) ==
    /\ q' = [q EXCEPT !.sync = enabled]
    /\ asleep' = IF q.sync = enabled THEN asleep ELSE {}
    /\ Goto("swap", "idle")

SetSynchronousMode(enabled) ==
    /\ On("swap", "idle") /\ ~q.abandoned
    /\ IF ~enabled /\ Undrained
       THEN Wait("swap") /\ Goto("swap", "async") /\ UNCHANGED q
       ELSE ModeSet(enabled)
    /\ UNCHANGED <<got, held, consumerVars>>

SetSynchronousModeAwake ==
    /\ On("swap", "async")
    /\ \/ /\ q.abandoned \/ ~q.connected
          /\ Goto("swap", "idle") /\ UNCHANGED <<q, asleep>>
       \/ /\ ~q.abandoned /\ q.connected
          /\ IF Undrained THEN Wait("swap") /\ UNCHANGED <<q, pc>> ELSE ModeSet(FALSE)
    /\ UNCHANGED <<got, held, consumerVars>>

----------------------------------------------------------------------------
(* The consumer.                                                           *)

SetBufferCountServer(n) ==
    /\ Alive /\ con = "idle" /\ ~q.abandoned
    /\ n # q.count
    /\ q' = SetCountServer(q, n)
    /\ Broadcast
    /\ UNCHANGED <<pc, got, held, consumerVars>>

\* The layer acts on one frame.  One that has not been composed since the last
\* is skipped, and comes again after composition.
LockPageFlip == frames > 0 /\ frames' = frames - 1

\* Layer::lockPageFlip, updateTexImage and in it acquireBuffer: nothing but the
\* layer looks at its count, which is one step with them.  A buffer that the
\* consumer has not seen comes with the slot number.
UpdateTexImage ==
    /\ Alive /\ con = "idle" /\ ~q.abandoned
    /\ LockPageFlip
    /\ \/ q.fifo = <<>> /\ UNCHANGED <<q, asleep, con, latch, twice>>
       \/ /\ q.fifo # <<>>
          /\ LET i == Head(q.fifo) IN
             /\ q' = [q EXCEPT !.state[i] = "ACQUIRED", !.seen[i] = TRUE, !.fifo = Tail(@)]
             /\ con' = IF i \in lost THEN "empty" ELSE "latch"
             /\ latch' = i
             /\ twice' = (twice \/ i = current)
          /\ Broadcast
    /\ UNCHANGED <<pc, got, held, current, lost>>

\* releaseBuffer, which wakes the producer only if it frees the slot, and
\* otherwise may return STALE_BUFFER_SLOT.
Released(i) ==
    IF q.state[i] = "ACQUIRED" THEN [q EXCEPT !.state[i] = "FREE"] ELSE [q EXCEPT !.stale = @ \ {i}]

ReleasesSilently(i) == asleep' = asleep

ReleaseWakes(i) == asleep' = IF q.state[i] = "ACQUIRED" THEN {} ELSE asleep

ReleaseIsStale(i) == q.state[i] # "ACQUIRED" /\ i \in q.stale

\* The layer rejects the buffer, or it cannot be made the texture, or the
\* consumer's copy of the slot is empty: the new frame is dropped.
DropFrame ==
    /\ Alive /\ con \in {"latch", "empty"}
    /\ q' = Forget(Released(latch), {current}) /\ ReleaseWakes(latch)
    /\ con' = "idle" /\ latch' = INVALID_BUFFER_SLOT
    /\ UNCHANGED <<pc, got, held, current, lost, frames, twice>>

\* The old buffer is released and the new one becomes the texture; if the
\* consumer has just lost that, it reads through a null pointer.
LatchFrame ==
    LET old == current # INVALID_BUFFER_SLOT
        stale == old /\ ReleaseIsStale(current) IN
    /\ Alive /\ con = "latch"
    /\ IF old THEN q' = Forget(Released(current), {latch}) /\ ReleaseWakes(current) ELSE UNCHANGED <<q, asleep>>
    /\ lost' = IF stale /\ q.seen[current] THEN lost \cup {current} ELSE lost
    /\ current' = latch /\ latch' = INVALID_BUFFER_SLOT
    /\ con' = IF stale /\ current = latch THEN "dead" ELSE "idle"
    /\ UNCHANGED <<pc, got, held, frames, twice>>

\* SurfaceTexture::abandon and in it consumerDisconnect.
Abandon ==
    /\ Alive /\ con = "idle" /\ ~q.abandoned
    /\ q' = [Forget(FreeAllBuffers(q), {}) EXCEPT !.abandoned = TRUE]
    /\ lost' = {} /\ current' = INVALID_BUFFER_SLOT
    /\ Broadcast
    /\ UNCHANGED <<pc, got, held, con, latch, frames, twice>>

----------------------------------------------------------------------------
Dequeue ==
    DequeueFails \/ DequeueWaits \/ \E alloc \in {"fits", "new", "fail"} : DequeueFinds(alloc)

ClientGoesOn ==
    /\ pc["client"] # "idle"
    /\ DisconnectAwake \/ OnBuffersReleased \/ Dequeue \/ RequestBuffer \/ OnFrameAvailable

ConsumerGoesOn == UpdateTexImage \/ DropFrame \/ LatchFrame

Next ==
    \/ Connect \/ Disconnect
    \/ \E n \in ClientCounts : SetBufferCount(n)
    \/ \E i \in Slots : QueueBuffer(i) \/ CancelBuffer(i)
    \/ DisconnectAwake \/ OnBuffersReleased \/ Dequeue \/ RequestBuffer \/ OnFrameAvailable
    \/ \E e \in BOOLEAN : SetSynchronousMode(e)
    \/ SetSynchronousModeAwake
    \/ \E n \in ServerCounts : SetBufferCountServer(n)
    \/ ConsumerGoesOn
    \/ Abandon

\* A call that can go on does, and the consumer acts on every announcement:
\* SurfaceFlinger handles the event that signalLayerUpdate posts.
Fairness == WF_vars(ClientGoesOn) /\ WF_vars(ConsumerGoesOn)

Spec == Init /\ [][Next]_vars /\ Fairness

----------------------------------------------------------------------------
\* mQueue holds the QUEUED slots, once each, all of them in use and with a
\* buffer; in asynchronous mode there is at most one, and the slots in the
\* consumer's hands are the texture and the one it is about to show.
BuffersAccounted ==
    /\ IsInjective(q.fifo) /\ Range(q.fifo) = In("QUEUED")
    /\ ~q.sync => Len(q.fifo) <= 1
    /\ \A i \in In("QUEUED") \cup In("ACQUIRED") : i < q.count /\ q.buffer[i]
    /\ In("ACQUIRED") \subseteq {current, latch}
    /\ ~q.abandoned => held \subseteq In("DEQUEUED")

\* There is an announcement that the consumer has not acted on, or that is on
\* its way, for every frame in the queue.
FramesAnnounced ==
    Len(q.fifo) <= frames + (IF pc["client"] = "notify" THEN 1 ELSE 0)

\* acquireBuffer leaves out the buffer of a slot it was acquired from before,
\* and the consumer still has it.
ConsumerHasBuffer == lost \cap (In("QUEUED") \cup In("ACQUIRED")) = {}

\* The texture is a slot of the consumer's, or was freed under its hands and
\* releaseBuffer will say so: acquireBuffer made it ACQUIRED, in both modes.  So
\* it is QUEUED or DEQUEUED only when it is stale, where BufferQueue.h says that
\* "the current buffer can be in either the DEQUEUED or QUEUED state" in
\* synchronous mode, and "in asynchronous mode, however, the current buffer is
\* always in the QUEUED state".  The property follows the code.
TextureIsOwned ==
    current # INVALID_BUFFER_SLOT => q.state[current] = "ACQUIRED" \/ current \in q.stale

\* Both, as long as the consumer has not acquired the slot of its texture.
ConsumerViewExact == ~twice => ConsumerHasBuffer /\ TextureIsOwned /\ con # "dead"

\* A call of the client returns, if it leaves a buffer for the queue and one
\* for the texture.
ClientReturns ==
    (pc["client"] = "dequeue" => Cardinality(In("DEQUEUED")) + 2 <= q.count) /\ pc["client"] # "idle"
        ~> pc["client"] = "idle" \/ ~Alive
============================================================================
