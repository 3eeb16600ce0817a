------------------------------ MODULE PthreadMutex ------------------------------
(***************************************************************************)
(* The pthread mutex of bionic (bionic/libc/bionic/pthread.c): one 32-bit  *)
(* word, changed by compare-and-exchange, swap and atomic decrement, and a *)
(* futex queue on that word.  One step is one access to the word or one    *)
(* system call.  Only where a compare-and-exchange loop does nothing but   *)
(* reload and retry is the failed attempt merged with the reload.          *)
(*                                                                         *)
(* The process-shared bit (13) never changes after initialisation and only *)
(* selects the futex opcode; it is left out of the word.                   *)
(***************************************************************************)
EXTENDS Integers, Futex

CONSTANTS
    Threads,      \* kernel ids of the threads that use the mutex
    TimedThreads, \* those of them that call pthread_mutex_lock_timeout_np too
    Types,        \* the mutex types pthread_mutex_init may be asked for
    TimedTypes,   \* those of them that pthread_mutex_lock_timeout_np is used on
    OwnerLimit,   \* the owner field is taken modulo this (2^16 in the code)
    CounterMax    \* largest value of the recursion counter (2^11 - 1 in the code)

\* "this works because the Linux kernel _only_ uses 16-bit values for thread ids"
ASSUME OwnerAssumption == OwnerLimit \in Nat \ {0}
ASSUME ThreadsAssumption == Threads \subseteq 1 .. OwnerLimit - 1
ASSUME TimedAssumption == TimedThreads \subseteq Threads /\ TimedTypes \subseteq Types
ASSUME TypesAssumption ==
    /\ Types \subseteq {"NORMAL", "RECURSIVE", "ERRORCHECK"}
    /\ Types # {}
ASSUME CounterAssumption == CounterMax \in Nat

VARIABLES
    value,     \* mutex->value
    queue,     \* threads asleep in FUTEX_WAIT on the word
    pc,        \* where each thread is in its current call
    mvalue,    \* each thread's local copy of the word
    deadline,  \* the abstime of a pthread_mutex_lock_timeout_np call
    depth      \* how many times each thread holds the mutex (its client's view)

vars == <<value, queue, pc, mvalue, deadline, depth>>

----------------------------------------------------------------------------
(* The word.  MUTEX_STATE: 0 unlocked, 1 locked, 2 locked with waiters.    *)

MutexTypes == {"NORMAL", "RECURSIVE", "ERRORCHECK"}

\* MUTEX_OWNER_TO_BITS keeps the low MUTEX_OWNER_LEN bits of a kernel id.
OwnerToBits(tid) == tid % OwnerLimit

Bits(type, owner, counter, state) ==
    [type |-> type, owner |-> owner, counter |-> counter, state |-> state]

UnlockedBits(type) == Bits(type, 0, 0, 0)

\* The bits a thread puts in the word when it acquires the mutex: normal
\* mutexes use neither the owner nor the counter field.
LockedBits(type, tid, state) ==
    Bits(type, IF type = "NORMAL" THEN 0 ELSE OwnerToBits(tid), 0, state)

\* 0xdead10cc, field by field.
DestroyedBits == Bits("NORMAL", 57005, 1075, 0)

Words == [type : MutexTypes, owner : 0 .. OwnerLimit - 1,
          counter : 0 .. CounterMax, state : 0 .. 2] \cup {DestroyedBits}

Errors == {"EBUSY", "EDEADLK", "EAGAIN", "EPERM"}

\* Where a thread contends for a mutex that it does not yet hold.
LockLabels == {"swap", "fast", "loop", "reload", "recheck", "check", "wait", "sleep"}

Labels == {"idle", "inc", "try", "dec", "store", "release", "wake"} \cup LockLabels \cup Errors

TypeOK ==
    /\ value \in Words
    /\ queue \subseteq Threads
    /\ pc \in [Threads -> Labels]
    /\ mvalue \in [Threads -> Words]
    /\ deadline \in [Threads -> {"none", "pending", "expired"}]
    /\ depth \in [Threads -> 0 .. CounterMax + 1]

----------------------------------------------------------------------------
Goto(t, label) == pc' = [pc EXCEPT ![t] = label]

\* Stands for a local copy of the word that has no value.
NoBits == UnlockedBits("NORMAL")

\* The call of t is over, with 0 ("idle") or an errno for its caller, or only
\* its wake-up call is left: its locals are gone.
Leave(t, label) ==
    /\ Goto(t, label)
    /\ deadline' = [deadline EXCEPT ![t] = "none"]
    /\ mvalue' = [mvalue EXCEPT ![t] = NoBits]

Acquired(t) == depth' = [depth EXCEPT ![t] = @ + 1]

Released(t) == depth' = [depth EXCEPT ![t] = @ - 1]

\* A call may start on an initialised mutex.
Enter(t) ==
    /\ pc[t] = "idle"
    /\ value # DestroyedBits

\* A lock call that does not succeed at once has a deadline if it is timed.
SetDeadline(t, timed) ==
    /\ timed => t \in TimedThreads /\ value.type \in TimedTypes
    /\ deadline' = [deadline EXCEPT ![t] = IF timed THEN "pending" ELSE "none"]

\* A compare-and-exchange from expected to newbits that acquires the mutex.
CasSucceeds(t, expected, newbits) ==
    /\ value = expected
    /\ value' = newbits
    /\ Acquired(t)
    /\ Leave(t, "idle")

CasFails(t, expected, label) ==
    /\ value # expected
    /\ Goto(t, label)
    /\ UNCHANGED <<value, mvalue, deadline, depth>>

----------------------------------------------------------------------------
(* Locking a normal mutex: _normal_lock and the first branch of            *)
(* pthread_mutex_lock_timeout_np_impl.  A thread that already holds a      *)
(* normal mutex and locks it again without a timeout waits for itself for  *)
(* ever; clients do not do that.                                           *)

NormalLock(t, timed) ==
    /\ Enter(t)
    /\ value.type = "NORMAL"
    /\ depth[t] = 0 \/ timed
    /\ \/ /\ value = UnlockedBits("NORMAL")
          /\ value' = LockedBits("NORMAL", t, 1)
          /\ Acquired(t)
          /\ UNCHANGED <<pc, deadline>>
       \/ /\ value # UnlockedBits("NORMAL")
          /\ SetDeadline(t, timed)
          /\ Goto(t, "swap")
          /\ UNCHANGED <<value, depth>>
    /\ UNCHANGED <<queue, mvalue>>

\* __bionic_swap(locked_contended): the old word says whether t got the lock.
NormalSwap(t) ==
    /\ pc[t] = "swap"
    /\ value' = LockedBits("NORMAL", t, 2)
    /\ \/ /\ value = UnlockedBits("NORMAL")
          /\ Acquired(t)
          /\ Leave(t, "idle")
       \/ /\ value # UnlockedBits("NORMAL")
          /\ mvalue' = [mvalue EXCEPT ![t] = LockedBits("NORMAL", t, 2)]
          /\ Goto(t, "check")
          /\ UNCHANGED <<deadline, depth>>
    /\ UNCHANGED queue

----------------------------------------------------------------------------
(* Locking a recursive or error-checking mutex.                            *)

\* t finds its own id in the word (lock, trylock and the timed lock alike):
\* _recursive_increment up to its loop.
Relock(t) ==
    /\ value.owner = t
    /\ Goto(t, IF value.type = "ERRORCHECK" THEN "EDEADLK"
               ELSE IF value.counter = CounterMax THEN "EAGAIN"
               ELSE "inc")
    /\ UNCHANGED deadline

\* The start of pthread_mutex_lock_impl and of its timed twin: load the word
\* and branch on whether t owns it, it is unlocked, or another holds it.
TypedLock(t, timed) ==
    /\ Enter(t)
    /\ value.type # "NORMAL"
    /\ mvalue' = [mvalue EXCEPT ![t] = value]
    /\ \/ Relock(t)
       \/ /\ value.owner # t
          /\ SetDeadline(t, timed)
          /\ Goto(t, IF value = UnlockedBits(value.type) THEN "fast" ELSE "loop")
    /\ UNCHANGED <<value, queue, depth>>

\* The loop of _recursive_increment.
RecursiveIncrement(t) ==
    /\ pc[t] = "inc"
    /\ \/ CasSucceeds(t, mvalue[t], [mvalue[t] EXCEPT !.counter = @ + 1])
       \/ /\ value # mvalue[t]
          /\ mvalue' = [mvalue EXCEPT ![t] = value]
          /\ UNCHANGED <<value, pc, deadline, depth>>
    /\ UNCHANGED queue

\* Mutant: a plain store in place of the compare-and-exchange.
TypedFastStore(t) ==
    /\ pc[t] = "fast"
    /\ value' = LockedBits(mvalue[t].type, t, 1)
    /\ Acquired(t)
    /\ Leave(t, "idle")
    /\ UNCHANGED queue

\* The optimistic compare-and-exchange: state 1.
TypedFast(t) ==
    /\ pc[t] = "fast"
    /\ \/ CasSucceeds(t, mvalue[t], LockedBits(mvalue[t].type, t, 1))
       \/ CasFails(t, mvalue[t], "reload")
    /\ UNCHANGED queue

\* Mutant: the loop acquires with state 1, like the fast path.
LoopAcquireUncontended(t) ==
    /\ pc[t] = "loop"
    /\ mvalue[t] = UnlockedBits(mvalue[t].type)
    /\ \/ CasSucceeds(t, mvalue[t], LockedBits(mvalue[t].type, t, 1))
       \/ CasFails(t, mvalue[t], IF deadline[t] = "none" THEN "reload" ELSE "recheck")
    /\ UNCHANGED queue

\* In the loop the word is unlocked: acquire it with state 2.  After a
\* failure the timed variant looks at the clock before it reloads.
TypedLoopAcquire(t) ==
    /\ pc[t] = "loop"
    /\ mvalue[t] = UnlockedBits(mvalue[t].type)
    /\ \/ CasSucceeds(t, mvalue[t], LockedBits(mvalue[t].type, t, 2))
       \/ CasFails(t, mvalue[t], IF deadline[t] = "none" THEN "reload" ELSE "recheck")
    /\ UNCHANGED queue

\* Mutant: the contended word is built anew, without the owner's counter.
ContendDropsCounter(t) ==
    /\ pc[t] = "loop"
    /\ mvalue[t] # UnlockedBits(mvalue[t].type)
    /\ value = mvalue[t]
    /\ value' = LockedBits(value.type, value.owner, 2)
    /\ mvalue' = [mvalue EXCEPT ![t] = value']
    /\ Goto(t, "check")
    /\ UNCHANGED <<queue, deadline, depth>>

\* The word is locked: make sure it says that there are waiters.
TypedLoopContend(t) ==
    /\ pc[t] = "loop"
    /\ mvalue[t] # UnlockedBits(mvalue[t].type)
    /\ \/ /\ mvalue[t].state # 1
          /\ Goto(t, "check")
          /\ UNCHANGED <<value, mvalue>>
       \/ /\ mvalue[t].state = 1
          /\ value = mvalue[t]
          /\ value' = [value EXCEPT !.state = 2]
          /\ mvalue' = [mvalue EXCEPT ![t].state = 2]
          /\ Goto(t, "check")
       \/ /\ mvalue[t].state = 1
          /\ value # mvalue[t]
          /\ Goto(t, "reload")
          /\ UNCHANGED <<value, mvalue>>
    /\ UNCHANGED <<queue, deadline, depth>>

\* mvalue = mutex->value after a failure.  A timed call that failed to
\* announce itself looks at the clock next, any other goes back to the loop.
Reload(t) ==
    /\ pc[t] = "reload"
    /\ mvalue' = [mvalue EXCEPT ![t] = value]
    /\ Goto(t, IF deadline[t] # "none" /\ mvalue[t].state = 1 THEN "check" ELSE "loop")
    /\ UNCHANGED <<value, queue, deadline, depth>>

----------------------------------------------------------------------------
(* The wait common to both kinds.                                          *)

Again(t) == IF value.type = "NORMAL" THEN "swap" ELSE "loop"

\* Mutant: the negative result of __timespec_to_absolute is ignored.
CheckTimeIgnored(t) ==
    /\ pc[t] \in {"check", "recheck"}
    /\ Goto(t, IF pc[t] = "recheck" THEN "reload"
               ELSE IF mvalue[t].state = 2 THEN "wait"
               ELSE "loop")
    /\ UNCHANGED <<value, queue, mvalue, deadline, depth>>

\* __timespec_to_absolute: a timed call whose deadline has passed gives up;
\* one whose copy of the word is not contended loops instead of waiting.
CheckTime(t) ==
    /\ pc[t] \in {"check", "recheck"}
    /\ \/ /\ deadline[t] = "expired"
          /\ Leave(t, "EBUSY")
       \/ /\ deadline[t] # "expired"
          /\ Goto(t, IF pc[t] = "recheck" THEN "reload"
                     ELSE IF mvalue[t].state = 2 THEN "wait"
                     ELSE "loop")
          /\ UNCHANGED <<deadline, mvalue>>
    /\ UNCHANGED <<value, queue, depth>>

FutexWait(t) ==
    /\ pc[t] = "wait"
    /\ queue' = IF FutexSleeps(value, mvalue[t]) THEN queue \cup {t} ELSE queue
    /\ Goto(t, "sleep")
    /\ UNCHANGED <<value, mvalue, deadline, depth>>

\* The system call is interrupted by a signal, or its timeout ends it.
FutexReturnsEarly(t) ==
    /\ t \in queue
    /\ queue' = queue \ {t}
    /\ UNCHANGED <<value, pc, mvalue, deadline, depth>>

\* __futex_wait_ex has returned; the word is loaded again.
Resume(t) ==
    /\ pc[t] = "sleep"
    /\ t \notin queue
    /\ mvalue' = [mvalue EXCEPT ![t] = value]
    /\ Goto(t, Again(t))
    /\ UNCHANGED <<value, queue, deadline, depth>>

\* The clock passes the deadline of a timed call.
Expire(t) ==
    /\ deadline[t] = "pending"
    /\ deadline' = [deadline EXCEPT ![t] = "expired"]
    /\ UNCHANGED <<value, queue, pc, mvalue, depth>>

----------------------------------------------------------------------------
(* pthread_mutex_trylock                                                   *)

NormalTryLock(t) ==
    /\ Enter(t)
    /\ value.type = "NORMAL"
    /\ \/ /\ value = UnlockedBits("NORMAL")
          /\ value' = LockedBits("NORMAL", t, 1)
          /\ Acquired(t)
          /\ UNCHANGED pc
       \/ /\ value # UnlockedBits("NORMAL")
          /\ Goto(t, "EBUSY")
          /\ UNCHANGED <<value, depth>>
    /\ UNCHANGED <<queue, mvalue, deadline>>

TypedTryLock(t) ==
    /\ Enter(t)
    /\ value.type # "NORMAL"
    /\ mvalue' = [mvalue EXCEPT ![t] = value]
    /\ \/ Relock(t)
       \/ /\ value.owner # t
          /\ Goto(t, "try")
          /\ UNCHANGED deadline
    /\ UNCHANGED <<value, queue, depth>>

\* The single compare-and-exchange, whatever the word was when it was loaded.
TypedTry(t) ==
    /\ pc[t] = "try"
    /\ LET unlocked == UnlockedBits(mvalue[t].type)
       IN \/ CasSucceeds(t, unlocked, LockedBits(unlocked.type, t, 1))
          \/ CasFails(t, unlocked, "EBUSY")
    /\ UNCHANGED queue

----------------------------------------------------------------------------
(* pthread_mutex_unlock                                                    *)

\* _normal_unlock: "The caller is responsible for determining that we are in
\* fact the owner of this lock."  The decrement of a contended word leaves it
\* locked and uncontended.
NormalUnlock(t) ==
    /\ Enter(t)
    /\ value.type = "NORMAL"
    /\ depth[t] > 0
    /\ value' = [value EXCEPT !.state = @ - 1]
    /\ \/ /\ value.state = 1
          /\ Released(t)
          /\ UNCHANGED pc
       \/ /\ value.state # 1
          /\ Goto(t, "store")
          /\ UNCHANGED depth
    /\ UNCHANGED <<queue, mvalue, deadline>>

\* mutex->value = shared
NormalStore(t) ==
    /\ pc[t] = "store"
    /\ value' = UnlockedBits("NORMAL")
    /\ Released(t)
    /\ Leave(t, "wake")
    /\ UNCHANGED queue

\* Mutant: the counter is not looked at.
TypedUnlockAtOnce(t) ==
    /\ Enter(t)
    /\ value.type # "NORMAL"
    /\ mvalue' = [mvalue EXCEPT ![t] = value]
    /\ Goto(t, IF value.owner # t THEN "EPERM" ELSE "release")
    /\ UNCHANGED <<value, queue, deadline, depth>>

TypedUnlock(t) ==
    /\ Enter(t)
    /\ value.type # "NORMAL"
    /\ mvalue' = [mvalue EXCEPT ![t] = value]
    /\ Goto(t, IF value.owner # t THEN "EPERM"
               ELSE IF value.counter > 0 THEN "dec"
               ELSE "release")
    /\ UNCHANGED <<value, queue, deadline, depth>>

\* The compare-and-exchange loop that takes one off the counter.
RecursiveDecrement(t) ==
    /\ pc[t] = "dec"
    /\ \/ /\ value = mvalue[t]
          /\ value' = [value EXCEPT !.counter = @ - 1]
          /\ Released(t)
          /\ Leave(t, "idle")
       \/ /\ value # mvalue[t]
          /\ mvalue' = [mvalue EXCEPT ![t] = value]
          /\ UNCHANGED <<value, pc, deadline, depth>>
    /\ UNCHANGED queue

\* Mutant: the contended state of the old word is not looked at.
ReleaseWithoutWake(t) ==
    /\ pc[t] = "release"
    /\ value' = UnlockedBits(mvalue[t].type)
    /\ Released(t)
    /\ Leave(t, "idle")
    /\ UNCHANGED queue

\* The swap that frees the mutex; the old word says whether to wake someone.
TypedRelease(t) ==
    /\ pc[t] = "release"
    /\ value' = UnlockedBits(mvalue[t].type)
    /\ Released(t)
    /\ Leave(t, IF value.state = 2 THEN "wake" ELSE "idle")
    /\ UNCHANGED queue

\* __futex_wake_ex(&mutex->value, shared, 1)
Wake(t) ==
    /\ pc[t] = "wake"
    /\ queue' \in FutexWakeOne(queue)
    /\ Goto(t, "idle")
    /\ UNCHANGED <<value, mvalue, deadline, depth>>

----------------------------------------------------------------------------
(* The caller takes the errno; destroying and initialising.                *)

Return(t) ==
    /\ pc[t] \in Errors
    /\ Leave(t, "idle")
    /\ UNCHANGED <<value, queue, depth>>

\* Mutant: pthread_mutex_destroy without its trylock.
DestroyUnchecked(t) == "idle"

\* pthread_mutex_destroy is trylock and then a store.  No other thread may
\* be inside a call, except one that has released the mutex and has not yet
\* made its wake-up call: a mutex may be destroyed as soon as it is unlocked.
\* A recursive mutex that the caller holds passes trylock and is destroyed.
DestroyResult(t) ==
    IF value = UnlockedBits(value.type) THEN "idle"
    ELSE IF value.type = "NORMAL" \/ value.owner # t THEN "EBUSY"
    ELSE IF value.type = "ERRORCHECK" THEN "EDEADLK"
    ELSE IF value.counter = CounterMax THEN "EAGAIN"
    ELSE "idle"

MutexDestroy(t) ==
    /\ Enter(t)
    /\ \A u \in Threads \ {t} : pc[u] \in {"idle", "wake"} \cup Errors
    /\ Goto(t, DestroyResult(t))
    /\ \/ /\ DestroyResult(t) = "idle"
          /\ value' = DestroyedBits
          /\ depth' = [depth EXCEPT ![t] = 0]
       \/ /\ DestroyResult(t) # "idle"
          /\ UNCHANGED <<value, depth>>
    /\ UNCHANGED <<queue, mvalue, deadline>>

\* pthread_mutex_init on the same memory, for one of the types.
MutexInit(t, type) ==
    /\ pc[t] = "idle"
    /\ value = DestroyedBits
    /\ value' = UnlockedBits(type)
    /\ UNCHANGED <<queue, pc, mvalue, deadline, depth>>

----------------------------------------------------------------------------
Init ==
    /\ value \in {UnlockedBits(type) : type \in Types}
    /\ queue = {}
    /\ pc = [t \in Threads |-> "idle"]
    /\ mvalue = [t \in Threads |-> NoBits]
    /\ deadline = [t \in Threads |-> "none"]
    /\ depth = [t \in Threads |-> 0]

\* A client's next call.
Call(t) ==
    \/ \E timed \in BOOLEAN : NormalLock(t, timed) \/ TypedLock(t, timed)
    \/ NormalTryLock(t) \/ TypedTryLock(t)
    \/ NormalUnlock(t) \/ TypedUnlock(t)
    \/ MutexDestroy(t)
    \/ \E type \in Types : MutexInit(t, type)

\* The steps a call makes once it has started.
Run(t) ==
    \/ NormalSwap(t) \/ NormalStore(t)
    \/ RecursiveIncrement(t) \/ TypedFast(t)
    \/ TypedLoopAcquire(t) \/ TypedLoopContend(t) \/ Reload(t)
    \/ CheckTime(t) \/ FutexWait(t) \/ Resume(t)
    \/ TypedTry(t) \/ RecursiveDecrement(t) \/ TypedRelease(t)
    \/ Wake(t) \/ Return(t)

Next == \E t \in Threads : Call(t) \/ Run(t) \/ FutexReturnsEarly(t) \/ Expire(t)

\* The scheduler runs every runnable thread, the clock advances, and the
\* kernel ends a timed sleep once its timeout has passed.  Nothing makes a
\* client call, and no signal is promised to interrupt a sleep.
Fairness ==
    \A t \in Threads :
        /\ WF_vars(Run(t))
        /\ WF_vars(Expire(t))
        /\ WF_vars(FutexReturnsEarly(t) /\ deadline[t] = "expired")

Spec == Init /\ [][Next]_vars /\ Fairness

----------------------------------------------------------------------------
(* Properties.                                                             *)

\* At most one thread holds the mutex (pthread_mutex_lock, trylock, and
\* lock_timeout_np never both succeed for two threads).
MutualExclusion ==
    \A t, u \in Threads : depth[t] > 0 /\ depth[u] > 0 => t = u

\* The word tells the truth about the holder: its fields keep within their
\* bits, its state is 0 exactly when nobody holds the mutex, and for the typed
\* mutexes the owner field is the holder and the counter field how often it
\* has locked the mutex again.
WordMatchesHolder ==
    /\ TypeOK
    /\ value # DestroyedBits =>
          /\ value.state = 0 <=> \A t \in Threads : depth[t] = 0
          /\ value.type # "NORMAL" =>
                \A t \in Threads : depth[t] = IF value.owner = t THEN value.counter + 1 ELSE 0

\* A thread that will look at the word again before it goes to sleep, and
\* that knows that the mutex is contended.
AwakeContender(u) == pc[u] \in LockLabels \ {"fast"} /\ u \notin queue

\* "nobody is orphaned on the wait queue": while a thread sleeps, the word
\* says that there may be waiters, or the thread that released the mutex has
\* still to make its wake-up call, or a contender is awake.
NoStrandedSleeper ==
    queue # {} =>
        \/ value.state = 2
        \/ \E u \in Threads : pc[u] \in {"store", "wake"} \/ AwakeContender(u)

\* The mutexes on which a wake-up can be lost (pthread.c:1504): those of the
\* owner-tracking types that pthread_mutex_lock_timeout_np is used on.
LosesWakeups == value.type \in TimedTypes \ {"NORMAL"}

\* On every other mutex nobody is orphaned on the wait queue.
WakeupsKept == LosesWakeups \/ NoStrandedSleeper

\* An errno is only returned to a caller for whom it is true: EDEADLK to the
\* holder, EAGAIN to a holder at the counter's limit, EPERM to a non-holder,
\* until the caller takes it, whatever the other threads do meanwhile.
ErrorsTruthful ==
    \A t \in Threads :
        /\ pc[t] = "EDEADLK" => depth[t] > 0
        /\ pc[t] = "EAGAIN" => depth[t] = CounterMax + 1
        /\ pc[t] = "EPERM" => depth[t] = 0

\* "only the owner thread can modify the counter bits": while a thread holds
\* a typed mutex, no step of another thread changes owner, counter or type.
OnlyOwnerChangesCounter ==
    [][\A t \in Threads :
         depth[t] > 0 /\ depth'[t] = depth[t] /\ value.type # "NORMAL" =>
            /\ value'.owner = value.owner
            /\ value'.counter = value.counter
            /\ value'.type = value.type]_vars

\* Every call takes effect in one step: lock, unlock, a refusal with an
\* errno, destruction.  kind and result are read off the word and the pc.
Abstract == INSTANCE AbstractMutex WITH
    kind   <- IF value = DestroyedBits THEN "destroyed" ELSE value.type,
    result <- [t \in Threads |-> IF pc[t] \in Errors THEN pc[t] ELSE "none"]

\* The three-state word and its futex implement the mutex the callers see.
ImplementsAbstractMutex == Abstract!Spec

Free == value # DestroyedBits /\ \A t \in Threads : depth[t] = 0

\* While an untimed caller contends for a free mutex on which wake-ups are
\* kept, somebody gets it: the wake-up protocol never leaves the mutex free
\* and everyone asleep.
Progress ==
    (/\ Free /\ ~LosesWakeups
     /\ \E t \in Threads : pc[t] \in LockLabels /\ deadline[t] = "none")
        ~> ~Free

\* A timed lock whose deadline has passed returns, with the mutex or EBUSY.
TimedLockReturns ==
    \A t \in TimedThreads : deadline[t] = "expired" ~> deadline[t] = "none"
=============================================================================
