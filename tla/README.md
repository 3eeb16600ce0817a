# The threading runtime of bionic, the LK kernel and BufferQueue in TLA+

The repository is a part of an Android (Jelly Bean) tree for a MediaTek
handset: the C library bionic, two boot loaders, the native frameworks, and a
large amount of vendored code. This project models, checks and proves parts
that are its own, are concurrent, and are relied upon by everything else: the
pthread, semaphore and timer implementation of `src/bionic/libc/bionic/`, the
kernel of the LK boot loader, and the buffer queue between a client and the
compositor. The first is C code on top of three kernel services (`clone`,
`futex` wait and `futex` wake) and a compare-and-exchange, with no help from a
garbage collector, a scheduler or a transaction system, so nearly every line of
it is about an interleaving; the second is the code that other systems leave to
an operating system; the third is where two processes share a resource.

The build configuration followed is the tree's own: `PTHREAD_DEBUG` is off (so
`pthread_mutex_lock` is `pthread_mutex_lock_impl`), `SUPPORT_PTHREAD_ATFORK`
is 0, LK runs with a periodic timer interrupt (`PLATFORM_HAS_DYNAMIC_TIMER` is
off), and a BufferQueue allows the synchronous mode.

## Inventory

| Component | State | Operations | Uses |
|---|---|---|---|
| mutexes (`pthread.c`) | one word: state 0/1/2, type, owner, counter | init, lock, trylock, lock_timeout_np, unlock, destroy | futex |
| condition variables (`pthread.c`) | one word: a counter, a shared bit | init, wait and four timed waits, signal, broadcast, destroy | futex, a mutex |
| semaphores (`semaphore.c`) | one word: a count, -1 for "0 with sleepers" | init, wait, trywait, timedwait, post, getvalue, destroy | futex |
| reader/writer locks (`pthread-rwlocks.c`) | four counters | init, rdlock, wrlock, their try and timed forms, unlock, destroy | a mutex, a condition variable |
| threads (`pthread.c`, `libc_init_common.c`) | the list of descriptors; per descriptor: flags, `join_count`, `tls` | create, trampoline, exit, join, detach | list lock, `join_cond`, a start mutex |
| thread-specific data, cleanup handlers (`pthread.c`) | bitmap of keys, destructors, one TLS area and one handler stack per thread | key create/delete, set/getspecific, cleanup push/pop, the loops of `pthread_exit` | map lock, the list of threads |
| `pthread_once` (`pthread.c`) | two flag bits | once | futex |
| timers and fork (`pthread-timers.c`, `fork.c`) | a table of timers, one worker thread each | create, delete, settime, gettime, overrun, fork | once, mutex, condition, threads |
| LK kernel (`bootable/bootloader/lk`) | run queues and their bitmap, wait queues, timers, mutex and event counts, jobs of the dpc thread | create, resume, yield, sleep, exit; acquire, release; wait, signal; the tick | interrupts off |
| BufferQueue (`frameworks/native`) | slots, a FIFO, buffer counts, mode, connection; the consumer's copies of the slots | dequeue, request, queue, cancel, acquire, release, connect, disconnect, set counts and mode, abandon | a mutex, one condition variable, a listener |
| system properties (`system_properties.c`) | shared records with serial numbers | find, read, wait, set | futex, a socket to init |

The rest (the linker, libm and the imported BSD routines, binder, OpenGL
wrappers, board code, the programs under `external/`) is listed in
`PROJECT.json` with the reason why it is not modelled.

What makes these parts hard, and what correctness means for each:

* **mutexes**: calls act on a stale copy of the word; an unlock is up to three
  steps; a timed lock may give up at the moment it is woken. Correct: exclusion,
  a word that says who holds it, truthful errors, no lost wake-up, progress.
* **condition variables**: a pulse may come between any two steps of a wait;
  the counter wraps. Correct: nobody who waited sleeps through it.
* **semaphores**: only the post that sees -1 wakes. Correct: units are
  conserved, and no thread sleeps while there is a unit for it.
* **reader/writer locks**: everyone is woken and fights; calls leave by
  timeout. Correct: a writer is alone, counters are exact whatever times out, no
  sleeper beside a free lock, no starvation by readers.
* **threads**: several joiners of one thread, exit against join and detach,
  descriptors freed and used again. Correct: the list holds exactly the live
  descriptors, a join returns after the death and always returns, one thread
  frees each descriptor.
* **keys**: slots are deleted and used again while threads start, exit and run
  destructors that call the same functions. Correct: no value outlives its key,
  destructors get their own data, the loop ends with nothing left.
* **once and timers**: the table is made by whoever comes first; a timer's
  thread waits with copies of a setting that is replaced meanwhile, and frees
  its slot long after the deletion; fork stops and starts all timers. Correct:
  nobody uses a table that is not ready, a slot has one owner, a deleted timer is
  freed, an armed one fires.
* **LK kernel**: the tick comes between any two steps and takes threads out of
  wait queues; a thread that timed out is still counted. Correct: queues, bitmap
  and states agree, nobody waits for what has happened, threads take turns.
* **BufferQueue**: client and consumer see the slots through copies; buffers
  are freed under the consumer's hands; callbacks run without the lock. Correct:
  every slot is in one place, every frame is announced, the consumer has the
  buffers it is told it has, calls return.

## Modules

| Module | Models |
|---|---|
| `Futex` | external: which sleepers a wake call may wake, when a wait sleeps |
| `AbstractMutex` | what a mutex promises: every call takes effect in one step |
| `PthreadMutex` | the mutex, one step per access to its word or system call; implements `AbstractMutex` |
| `PthreadMutexProofs` | theorems about it, the refinement included |
| `AbstractSemaphore` | what a semaphore promises: a value and atomic calls |
| `Semaphore` | the semaphore, one step per access; implements `AbstractSemaphore` |
| `PthreadCond` | the condition variable over a mutex taken as atomic |
| `SemCondProofs` | theorems about the semaphore, the refinement included, and, as an instance (`Cond`), about the condition variable |
| `PthreadRwlock` | the reader/writer lock over an atomic mutex and a condition variable that may wake early |
| `PthreadRwlockProofs` | theorems about it |
| `PthreadThreads` | create, exit, join, detach and the list |
| `PthreadThreadsProofs` | theorems about it |
| `PthreadKeys` | keys, TLS areas, cleanup handlers, the destructor loop |
| `PthreadKeysProofs` | theorems about it |
| `PthreadOnce` | `pthread_once`, one step per access; without a specification of its own |
| `PthreadTimers` | timers, their threads and fork, composed with `PthreadOnce`, which makes the table |
| `PthreadTimersProofs` | theorems about `pthread_once`, the table and its slots |
| `LkSched` | LK's run queues and wait queues, as functions of the scheduler's state |
| `LkKernel` | threads, mutex, event, sleep, exit, the dpc thread and the tick on top of `LkSched` |
| `LkKernelProofs` | theorems about it, and lemmas on every operation of `LkSched` |
| `BufferQueue` | the queue with its client, `SurfaceTexture` as its consumer and the layer that counts frames |
| `BufferQueueProofs` | theorems about it |

**Levels.** The word-level modules (mutex, semaphore, condition, once) take one
step per memory access or system call. The modules above them rely on what those
show: a critical section is one step, and a condition wait gives the mutex
back, sleeps, and ends after a broadcast, a timeout or for no reason. Memory
barriers are not modelled: accesses are sequentially consistent, which is what
the barriers in the code are there for.

**State and locals.** A variable of a module is a field of the C structure or a
local of a function that is live across a step; `pc[t]` says where thread `t`
is, and an errno in `pc` is the result on its way to the caller (`Return`
takes it). `depth`, `mode`, `holds` are the clients' view; `missed`, `creation`
and `twice` are history: the code does not see them, the properties do.

**PthreadMutex.** The word is a record of its bit fields. `NormalLock` and
`NormalSwap` are `_normal_lock`; `NormalUnlock`, `NormalStore`, `Wake` are the
decrement, the store and the futex call of `_normal_unlock`. `TypedLock`,
`TypedFast`, `TypedLoopAcquire`, `TypedLoopContend`, `FutexWait`, `Resume` are
`pthread_mutex_lock_impl`; `SetDeadline`, `Reload`, `CheckTime`, `Again` add
what `pthread_mutex_lock_timeout_np_impl` does. `Relock`,
`RecursiveIncrement` and `RecursiveDecrement` are the counter of a recursive
mutex, with its limit. Where a compare-and-exchange loop only reloads and
retries, failure and reload are one step. `OwnerLimit` and `CounterMax` are the
widths of the fields.

**Semaphore.** `DecLoad`/`DecCas`, `TryDecLoad`/`TryDecCas`,
`IncLoad`/`IncCas` are the three loops; `CheckTime`, `FutexWait`, `Resume`,
`FutexInterrupted`, `FutexTimesOut` the waits; `Wake` the wake-up of everybody.

**PthreadCond.** `CondWait` loads the counter and `WaitUnlock` unlocks;
`FutexWait` compares and sleeps. `PulseDecrement` and `PulseWake` are the two
halves of a signal or broadcast. The counter is taken modulo `CounterSize`.

**PthreadRwlock.** `LockAtOnce`, `LockBlocks`, `LockTooLate`, `Retry`,
`AfterTimeout` are the paths through the timed lock functions (the untimed ones
pass no deadline; a try that succeeds is `LockAtOnce`). `LocksHeld` are the locks
that the clients have, as a set, for `numLocks` to count.

**PthreadThreads.** A thread is its descriptor. `Create`, `CreateInit`,
`CreateRelease`, `ThreadEntry` are the handshake by the start mutex; `Exit`,
`ExitRemove`, `ExitFree`, `ExitPublish`, `Teardown` the end of a thread, where
the detached flag is read without the lock; `JoinZombie`, `JoinWait`,
`JoinReturn` the three ways through `pthread_join`. `Removed` unlinks one
position of the list, as the code does, and leaves the others in their order.

**PthreadKeys.** `pthread_key_clean_all` holds the map lock except around a
destructor, so `CleanThisRound` and `CleanNextRound` lead from one destructor
to the next in one step. Handlers and destructors are client code and may call
everything. A value is the number of the creation of its key, so a stale value
is told from a fresh one.

**PthreadTimers.** A time is zero, in the future or in the past, and `Elapse`
is the clock. The client calls end in `Alloc`/`Setup`/`Spawn` (create),
`TimerDelete`/`MarkDone` (delete), `TimerSettime`/`SetWrite`/`SetSignal`
(settime, whose signal comes after the mutex was given back); `Fork`,
`WalkBegins`, `Visit`, `WalkEnds`, `ForkReturns` are the two walks around the
system call, which keep the table lock. The `Worker...` actions are the loop of
`timer_thread_start`; `copy` holds the expiration and period it has read, as far
as they matter: whether it will reload, and whether `timer_settime` has replaced
the setting since.

**LkSched and LkKernel.** One CPU. A critical section is one step up to the
switch to another thread; what is left of it is the first step of the thread
when it runs again (`SleepReturns`, `MutexReturns`, `EventReturns`,
`DpcAwake`), before which no interrupt comes. The timer interrupt takes timers
that are due off the queue, one per step and in any order (`TimerFires`; only
the interrupt goes on while `ticking`), and ends with `Tick`: the time slice
shrinks and `thread_preempt` is called. `wait_queue_wake_all` puts its threads
at the heads of their run queues in one step, the last of each priority first
(`LastFirst`). A timeout that finds its thread no longer
BLOCKED leaves the critical-section count of the interrupted thread one too
high (`thread.c:871` returns without `exit_critical_section`); the model marks
that in `leaked` and stops there.

**BufferQueue.** `q` is the queue as a record; the operators on it
(`FreeBuffers`, `FreeAllBuffersExceptHead`, `SetCountServer`, `Queued`,
`Released`) are its `...Locked` functions and what its calls do. Waiting on
`mDequeueCondition` and calling the listener end a step. `OnFrameQueued` and
`LockPageFlip` are the layer's count of frames; its decrement
(`Layer.cpp:596`) is one step with `acquireBuffer`, because between the two
nobody but an increment touches the count. `UpdateTexImage` acquires; `LatchFrame` or `DropFrame` releases the old or the new buffer, with
the queue unlocked in between. A buffer has no content: `lost` are the slots
whose buffer the consumer has thrown away while the queue believes it has it.
Frame numbers grow for ever; `number` is the rank of a slot's `mFrameNumber`
among those that are not 0, which is all that `dequeueBuffer` compares.

## Runs

| Run | Instance | Shows |
|---|---|---|
| `mutex` | 3 threads, 1 with timed locks (not on errorcheck mutexes), all types, a 1-bit counter | exclusion, truthful word within its bits, only the owner changes the counter, refinement of `AbstractMutex`, timed locks return, no orphaned sleeper, a contended free mutex is taken |
| `semaphore` | 3 threads, maximum 2 | no stranded waiter, refinement, sleepers are woken |
| `cond` | 3 threads, counter modulo 3 | broadcasts reach everybody, no sleep after a pulse |
| `threads` | the initial thread and 3 descriptors, reused | exact list, exact join counts, joins after death and always back |
| `threads_late_join` | 2 descriptors | *violated*: finding 1 |
| `rwlock` | 4 threads, nesting 2, one timed reader | a writer alone, exact counters, no forgotten waiter, service despite readers |
| `keys` | 2 threads, 2 keys (one preallocated), 2 creations each, 1 handler, 4 rounds | no stale value, own data, nothing left, exit ends |
| `timers` | 2 threads, 1 of them forks, 2 slots, 1 of them armed | a slot has one owner, the table is ready before it is used, `pthread_once` returns, deleted timers are freed, armed ones fire |
| `lk` | 3 threads of 2 priorities, 2 with timeouts, 1 that exits, the idle and the dpc thread, slices of 2 ticks | exact queues, exact mutex count, nobody forgotten, only a timeout misleads a release, turns |
| `lk_mutex_free` | the same | *violated*: finding 2 |
| `bufferqueue` | 3 slots, 2 undequeued, client counts 0 and 3, server counts 2 and 3, 3 pending frames | slots in one place, frames announced, the consumer's view exact (against the header: finding 4), calls return |
| `bufferqueue_mirror` | the same, followed past a second acquisition, 2 pending frames | *violated*: finding 3 |

**Bounds.** Three threads on a word are a holder, a sleeper and a third that
gets in between, which is what every lost wake-up needs; the rwlock has four,
for a reader that holds, a writer that waits, a reader behind it and one more.
The recursion counter reaches its limit with one bit; the semaphore reaches its
maximum with two units while a third is posted; the condition counter wraps
within three pulses. Descriptors are allocated again after they have been
freed, and keys created again after they have been deleted, without a bound on
the former and twice for the latter. The destructor loop runs with the code's
own four rounds. Two threads and two keys are enough there: one thread is inside
a destructor while the other deletes and creates, on a key behind or ahead of
the loop. In `timers` two threads race through `pthread_once`, and then for the
two slots; creation fails when both are taken, and a slot is taken again without
a bound. In `lk` the three threads are a holder, a waiter with a timeout and one
more of lower priority; threads are created again after they were cleaned up.
The three slots of `bufferqueue` are the smallest queue that works in both modes
(`MinUndequeuedBuffers + 1`), and a server count of 2 is what `Layer` sets: it
makes the queue change its size. `MaxFrames` bounds the frames that are announced
and not yet handled.

**Deadlock** is checked where a client can always call again. In `threads` and
`keys` every thread may exit, and the process ends; in `bufferqueue` an
abandoned queue does nothing any more.

**Fairness.** `WF(Run(t))`: the kernel runs every runnable thread, and a
thread that is inside a library call takes its next step. `WF(Expire(t))` and
fairness of the timed futex return: time passes and the kernel honours a
timeout. Nothing is promised about clients (they need not call, unlock or
exit), about signals, or about who wins a compare-and-exchange. Further
assumptions are part of single properties or modules: in `PthreadRwlock`,
`PthreadThreads`, `PthreadKeys` and `PthreadTimers` the internal mutex, held for
a few instructions, is had by everyone who asks; in `PthreadKeys` handlers and
destructors return, in `PthreadTimers` callbacks do. `DeletedIsFreed` assumes in
its statement that forks end some time, and `ArmedFires` that the program makes
no more calls. `ServedDespiteReaders` assumes that clients give their locks back
and that no second writer competes, because the code admits that it cannot
exclude starvation among writers. In `LkKernel` the tick is strongly fair for
every thread: it comes from a clock, and a thread that runs again and again
meets it. Nothing else is promised about threads outside the kernel; that a
thread of higher priority leaves the CPU is a premise of `ReadyRuns`. In
`BufferQueue` the compositor acts on every announcement, because the message
that `signalLayerUpdate` posts is handled.

**Client rules.** The models exclude what POSIX forbids and the code does not
defend against: destroying an object while others are inside a call on it (a
call that only has its wake-up or its return left does not count), unlocking a
normal mutex one does not hold, giving back another reader's lock, waiting for a
write lock while reading, joining oneself, detaching a thread that others are
joining, calling `pthread_exit` from a handler or destructor, deleting a timer
while another thread uses it (`InUse`). In LK a thread does not release
another's mutex or exit while it holds one (both are panics or bugs of the
caller). In `BufferQueue` the client dequeues a second buffer only after it has
set a buffer count.

**Exemptions.** Some rules are constants or named predicates, so that the case
behind them can be looked at by lifting them:

* `LosesWakeups`: a timed lock on a recursive or errorcheck mutex
  (`TimedTypes`) can swallow a wake-up (`pthread.c:1504`). A caller that was
  woken loses the race to a newcomer, which sets state 1, and gives up; nobody
  restores state 2, and a second sleeper stays asleep although 1219-1221 say that
  state 2 "ensures all waiters will be unlocked". `WakeupsKept` and `Progress`
  speak of the other mutexes; `NoStrandedSleeper` fails on these.
* `TimedWriters`: a writer that times out wakes nobody
  (`pthread-rwlocks.c:299`), and readers that slept only because of it sleep on
  beside a free lock. With a timed writer `NoForgottenWaiter` fails.
* `LateJoined`: joins after an exit that others wait for; finding 1.
* `LateDetached`: `pthread_exit` reads the detached flag without the lock
  (592), so a `pthread_detach` after that read leaves a descriptor that nobody
  frees. `Interrupted`: the wait of `pthread_join` is not in a loop (660), and a
  signal handler ends it early.
* `pthread_key_delete` writes to the TLS area of a thread that is dead while its
  joiners have not returned (1963-1966), although its stack is unmapped;
  `JoinersCounted` says that it happens only then.
* `ForkDuringCreate`: the walk of fork would lock the mutex of a slot that
  `timer_create` has not set up yet (`pthread-timers.c:184`).
* A timer whose thread could not be created passes as created, because the test
  at `pthread-timers.c:366` is for negative errors: `worker = "failed"`. A timer
  that timed out just before a fork fires although it is stopped
  (`pthread-timers.c:572-621`).
* `missed` (LK) and `twice` (`BufferQueue`): `NobodyForgotten` and
  `ConsumerViewExact` hold up to the step of findings 2 and 3 (`MisledByTimeout`
  says when `missed` can become true). `Follow` lets the
  model go on after it.

## Findings

1. **A late joiner waits for ever** (`pthread.c:657`, run
   `threads_late_join`). A join between the exit's broadcast and the return of
   the earlier joiners sees a positive count and waits for a second broadcast.
2. **LK waits for a mutex that is free** (`mutex.c:163`, run `lk_mutex_free`).
   A thread whose timed acquire ran out stays in `m->count` until it runs. A
   release in between finds nobody to wake and leaves the count at one; the next
   acquire blocks, and nobody will release. `MisledByTimeout` says that nothing
   else leads a release astray; without timeouts the mutex is proved sound.
3. **The consumer loses a buffer it is assumed to have**
   (`BufferQueue.cpp:366`, run `bufferqueue_mirror`). When the number of buffers
   changes, `dequeueBuffer` frees the slot of the texture without a call to
   `onBuffersReleased`. The slot is used again and acquired while it is
   `mCurrentTexture`; the release of the "old" buffer then frees the new one, and
   a later stale release throws away a buffer that `acquireBuffer` leaves out.
   With a server count of 2 in asynchronous mode the count changes at every
   dequeue. In one variant `SurfaceTexture.cpp:345` reads through a null pointer
   (`con = "dead"`).
4. **The header describes other states of the current buffer**
   (`BufferQueue.cpp:933`, run `bufferqueue`). `BufferQueue.h:322-326` says
   that the buffer attached to the texture is "always in the QUEUED state" in
   asynchronous mode and DEQUEUED or QUEUED in synchronous mode, and 332-333 that
   attaching it "does NOT transition the buffer away from the QUEUED state". The
   code makes it ACQUIRED in both modes, until `releaseBuffer` frees it; the
   client cannot dequeue it unless its slot was freed under the consumer. The
   test that expects the header's behaviour in synchronous mode is disabled
   (`SurfaceTextureClient_test.cpp:398`). The model follows the code. This one is
   shown by a property that holds: `TextureIsOwned`, a part of
   `ConsumerViewExact`, says that the slot of the texture is ACQUIRED or stale, so
   that it is QUEUED or DEQUEUED only after it was freed under the consumer. The
   first frame that is shown, in either mode, is a state that the header excludes.

Smaller observations that no text of the repository contradicts: an allocation
failure leaves its slot DEQUEUED until the client disconnects
(`BufferQueue.cpp:482`); a `connect` that fails resets `mBufferHasBeenQueued`
(765); a recursive read lock behind a waiting writer deadlocks
(`pthread-rwlocks.c:172`); a timed wait of a semaphore that gives up leaves -1
behind, so that `sem_destroy` reports EBUSY (`semaphore.c:327`).

## Proofs

The theorems hold for every value of the constants that satisfies the named
assumptions, in particular for any number of threads and the real field widths.
Each rests on an inductive invariant, because no property is inductive alone.

* **Mutex** (`PthreadMutexProofs`): type correctness, `MutualExclusion`,
  `WordMatchesHolder`, `ErrorsTruthful`, `OnlyOwnerChangesCounter`,
  `ImplementsAbstractMutex`, `WakeupsKept`. Assumed: kernel ids are between 1
  and `OwnerLimit - 1` (as `pthread.c` says of the kernel). Exclusion is lost
  without knowing what a thread at each label knows: `ThreadOK` says that the
  copy of a holder agrees with the word in owner and counter, that the copy of a
  contender is stale but of the right type, and that a thread about to take the
  mutex compares with an unlocked word; `WordOK` says that word and depths
  agree; `ResultOK` that errors are true. The parts are predicates of values, so
  a step that leaves the values alone preserves them without being looked into.
  For the refinement every action is shown to be one of five things the
  abstract mutex sees: nothing, a refusal, an acquisition, a release, or a
  contender that only announces itself. `WakeupsKept` needs `WakeInv`: that the
  sleepers are at their futex call, and who can still be relied upon to wake
  them. A contender that gives up takes its promise with it, so on a normal mutex
  only those who have still to swap in state 2 count, and on the other types the
  invariant says that no timed lock is under way.
* **Semaphore** (`SemCondProofs`): type correctness, `NoStrandedWaiter` and
  `ImplementsAbstractSemaphore`. The invariant adds what a copy in each loop
  can be (`CallsOK`) and that exactly the threads at the futex call are in the
  queue (`QueueOK`). For the refinement each action is shown to be one abstract
  call or a stutter: the compare-and-exchange is the point at which a call takes
  effect, and -1 maps to 0.
* **Keys** (`PthreadKeysProofs`): type correctness, `NoStaleValue`,
  `DestructorOwnsData`, `NothingLeftToDestroy`. The last needs the first: a key
  that gets a destructor when it is created again must be empty in the area of a
  thread that has left the loop. `RoundLeft` says that a round is left to count.
* **Once and the table of timers** (`PthreadTimersProofs`):
  `TableReadyBeforeUse`, for any number of threads and slots. `OnceOK` (one
  thread runs the initialiser, exactly while the word says so, and a sleeper has
  somebody who will wake it) is inductive with the types; each step of
  `pthread_once` is looked at once, for every caller. `GuardOK` adds what the
  calls around it know: a thread has gone past `pthread_once`, or has an id from
  a thread that did, only after COMPLETED was stored, and the table is half made
  only while the initialiser runs.
* **Slots of the timers** (the same module): `SlotsAccounted`, whether a fork
  may come during a creation or not. `SInv` adds to the above that the free list
  has no slot twice (`FreeOK`), what slot each call and each worker has in its
  hands (`CallsOK`, `HandlesOK`), and that two creations, or a creation and a
  worker, never have the same (`Apart`): without the last, a slot could be put
  back twice.
* **Condition variables** (`SemCondProofs`): type correctness,
  `BroadcastReachesAll` and `NoSleepAfterPulse`, stated of the instance `Cond`
  of `PthreadCond`; its assumption, that the counter has a positive size, is a
  hypothesis of the theorems there. The invariant says who is in
  the queue (`QueueOK`), that a thread that was told of a pulse and has not gone to
  sleep has loaded a counter that differs from the word (`ToldSeesChange`), and
  that a destroyed variable has no users. That a wait is not preempted for a
  whole round of the counter is the bound `NoExactWrap` of the module (the code sets
  the case aside in a comment).
* **Reader/writer locks** (`PthreadRwlockProofs`): type correctness,
  `CountersExact`, `WriterIsAlone` and `NoForgottenWaiter`. `CountersExact` is
  inductive with the types, what each client does at its label (`ClientsOK`), and
  that a writer has all locks (`WriterOK`); the cardinalities are followed with
  the library's theorems on finite sets. `NoForgottenWaiter` is proved for
  `TimedWriters = {}`, the exemption above, and needs that sleepers beside a free
  lock have a thread awake that will try again (`FreeWaiters`).
* **Threads** (`PthreadThreadsProofs`): type correctness, `ListIsExact`,
  `JoinersCounted`, `JoinAfterDeath` and `RemovedHasNext`, all for
  `Interrupted = {}`, because a join whose wait a signal ends returns too early
  and frees a running thread's descriptor. The invariant: no descriptor is in
  the list twice (`Once`), membership, `join_count` and flags agree with where
  its thread is (`MembersOK`, `DeadOK`), what creators and joiners know of
  theirs (`CreatorsOK`, `TargetsOK`, `WokenOK`), and that the count is the number
  of the joiners (`CountOK`). `RemovedHasNext` also assumes that the initial
  thread is neither joined nor detached: it stays at the end of the list, where
  every other descriptor has it behind it.
* **BufferQueue** (`BufferQueueProofs`): type correctness, `BuffersAccounted`,
  `FramesAnnounced` and `ConsumerViewExact`, for any number of slots. `SlotsOK`
  ties the FIFO to the states and says that a slot in use is below the buffer
  count; it is why a `setBufferCount` that sees no DEQUEUED slot leaves the client
  with nothing. `ClientOK` says that what the client holds, or is about to
  request, is DEQUEUED with a buffer, and that it holds nothing while a wait of
  its own may end in freeing all slots. `ViewOK` says why the consumer may trust
  its copies: a slot of its own that was freed is marked stale and has
  `mAcquireCalled` reset, and that can be set again only by acquiring the slot
  of the texture a second time, which is finding 3. Steps are sorted by what
  they do to the slots: nothing (`Quiet`), freeing them (`Freed`), or changing one.
* **LK kernel** (`LkKernelProofs`): `QueuesExact`, `MutexAccounted`,
  `NobodyForgotten` and `MisledByTimeout`, for any finite set of threads, any
  choice of low priorities and any time slice; and `NoWaiterOnFreeMutex`, which
  finding 2 violates, for `Timed = {}`. The proof goes in three layers. Lemmas on
  queues say what inserting, taking the head, taking out of the middle and waking
  all do to a sequence in which nobody stands twice. Lemmas on operations say of
  each function of the scheduler that it keeps run queues, bitmap and states
  together (`CpuOK`), and what it does to three things: the `Modes` of the threads
  (READY and RUNNING are one mode, AWAKE, so that who gets the CPU does not
  matter), the wait queues and the results of waits. `thread_resched` takes the
  head of a queue without a test; it finds one because the idle thread is always
  awake. Over that view `KernelInv` is inductive: labels and modes agree
  (`LabelsOK`, `ModesOK`), wait queues hold exactly the BLOCKED threads of their
  label (`WaitsOK`), a timer belongs to a wait that may have one (`TimersOK`), the
  dead are on the list once (`DpcOK`), the count is the cardinality of `Wanting`
  and two threads that have the mutex, or have been handed it, are one
  (`MutexOK`), and unless a release was misled some thread has the mutex while
  the count is positive (`ForgottenOK`). That only a timeout misleads a release
  follows by counting. That the order `LastFirst` exists is shown without an
  induction, from a least number at which it would fail.

Only model-checked:

* everything about liveness and fairness (out of the prover's reach, as is
  ENABLED);
* that the code violates three properties (a counterexample is a finite run; the
  second is complemented by the theorem for `Timed = {}`).

## Not modelled

Scheduling attributes, `pthread_kill`, names, CPU clocks, the debugger hook and
the attribute objects (setters and getters without interaction); failures of
`mmap` and `clone` inside `pthread_create`, which undo what was done; the
process-shared bits, which only select a futex opcode; the bound of 16 bits on
thread ids, which is an assumption. Timers that are not SIGEV_THREAD (one system
call each), `timer_gettime` and `timer_getoverrun` (they only read), and the
child's side of fork (another process, without the timers' threads). In LK the
destroy functions, `thread_set_priority`, `thread_resume` of a thread that is
blocked or asleep (its bookkeeping is broken by the call), the dynamic timer,
an `event_signal` from a device's interrupt handler (threads signal the event),
and what follows the leak of the critical-section count. In the queue: fences,
sizes, formats, crops, transforms, hints, `query`, `dump`, detaching from the GL
context, the second producer that `connect` turns away, and a consumer that is
not a layer. System properties have one writer, `init`, which is not in this
tree. The components without a module are in `PROJECT.json`.

## Plan

What is left, in the order of importance:

1. In LK, what follows the leak of the critical-section count, once a property
   of the code after it is worth stating; `thread_set_priority`.
2. System properties, should the writer's source become part of the tree.
