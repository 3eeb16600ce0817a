------------------------------ MODULE PthreadKeys ------------------------------
(***************************************************************************)
(* Thread-specific data and the client's part of pthread_exit in bionic    *)
(* (bionic/libc/bionic/pthread.c): the map of keys, the TLS area of each   *)
(* thread, the stack of cleanup handlers and the destructor loop.          *)
(*                                                                         *)
(* Everything done under _tlsmap_lock is one step.  pthread_key_clean_all  *)
(* gives the lock back only around a destructor, so one step leads from    *)
(* one destructor to the next.  Cleanup handlers and destructors are       *)
(* client code and may call every operation of this module.                *)
(*                                                                         *)
(* A value is named after the creation of the key that it was set for, so  *)
(* that a value which outlives its key is told from one of a key that was  *)
(* created again in the same slot.  A call that fails (no free key, a key  *)
(* that is not allocated) changes nothing and is no step.                  *)
(***************************************************************************)
EXTENDS Integers, FiniteSets

CONSTANTS
    Threads,       \* the threads of the process
    Main,          \* the initial one
    Keys,          \* the TLS slots TLSMAP_START .. TLSMAP_SIZE - 1
    Preallocated,  \* those of them in TLS_DEFAULT_ALLOC_MAP
    Iterations,    \* PTHREAD_DESTRUCTOR_ITERATIONS
    MaxCreations,  \* bound: how often one key is created
    MaxHandlers    \* bound: how many cleanup handlers one thread has pushed

ASSUME KeyThreadsAssumption == Main \in Threads
ASSUME KeysAssumption ==
    /\ Keys \subseteq Nat \ {0} /\ IsFiniteSet(Keys)
    /\ Preallocated \subseteq Keys
ASSUME IterationsAssumption == Iterations \in Nat \ {0}
ASSUME CreationsAssumption == MaxCreations \in Nat \ {0} /\ MaxHandlers \in Nat

\* No value; also a kk before the first key.
NULL == 0

\* What is in the memory of a new stack.
Garbage == -1

VARIABLES
    allocated,  \* the bitmap of allocated keys
    dtors,      \* the keys with a destructor
    creation,   \* how many times each key has been created
    tls,        \* the TLS area of each thread
    cleanup,    \* the length of each thread's cleanup_stack
    pc,         \* new, run, exit, handler, clean, dtor, done or gone
    rounds,     \* local of pthread_key_clean_all
    kk,         \* the last key whose destructor the current round has called
    data,       \* the argument of the destructor that a thread runs
    dtor        \* the creation of a key that this destructor was given to

map == <<allocated, dtors, creation>>

loop == <<rounds, kk, data, dtor>>

vars == <<map, tls, cleanup, pc, loop>>

Values == NULL .. MaxCreations

TypeOK ==
    /\ allocated \subseteq Keys
    /\ dtors \subseteq allocated
    /\ creation \in [Keys -> 0 .. MaxCreations]
    /\ tls \in [Threads -> [Keys -> Values \cup {Garbage}]]
    /\ cleanup \in [Threads -> 0 .. MaxHandlers]
    /\ pc \in [Threads -> {"new", "run", "exit", "handler", "clean", "dtor", "done", "gone"}]
    /\ rounds \in [Threads -> 0 .. Iterations]
    /\ kk \in [Threads -> Keys \cup {NULL}]
    /\ data \in [Threads -> Values \cup {Garbage}]
    /\ dtor \in [Threads -> Values]

----------------------------------------------------------------------------
Goto(t, label) == pc' = [pc EXCEPT ![t] = label]

\* A thread that executes client code.
InClient(t) == pc[t] \in {"run", "handler", "dtor"}

\* A thread in gThreadList, with a TLS area, that is not a zombie.
HasTls(t) == pc[t] \notin {"new", "gone"}

\* pthread_key_create: the first key that is free.
KeyCreate(t, k, d) ==
    /\ InClient(t)
    /\ k \notin allocated
    /\ \A j \in Keys \ allocated : k <= j
    /\ creation[k] < MaxCreations
    /\ allocated' = allocated \cup {k}
    /\ dtors' = IF d THEN dtors \cup {k} ELSE dtors
    /\ creation' = [creation EXCEPT ![k] = @ + 1]
    /\ UNCHANGED <<tls, cleanup, pc, loop>>

\* Mutant: threads that run their destructors are left out.
ClearedUnlessExiting(k) ==
    [u \in Threads |-> IF pc[u] \in {"run", "exit", "handler"}
                       THEN [tls[u] EXCEPT ![k] = NULL] ELSE tls[u]]

\* The walk of pthread_key_delete over the threads.
Cleared(k) ==
    [u \in Threads |-> IF HasTls(u) THEN [tls[u] EXCEPT ![k] = NULL] ELSE tls[u]]

\* pthread_key_delete: no destructor is called.
KeyDelete(t, k) ==
    /\ InClient(t)
    /\ k \in allocated
    /\ tls' = Cleared(k)
    /\ allocated' = allocated \ {k}
    /\ dtors' = dtors \ {k}
    /\ UNCHANGED <<creation, cleanup, pc, loop>>

SetSpecific(t, k, null) ==
    /\ InClient(t)
    /\ k \in allocated
    /\ tls' = [tls EXCEPT ![t][k] = IF null THEN NULL ELSE creation[k]]
    /\ UNCHANGED <<map, cleanup, pc, loop>>

\* pthread_getspecific does not take the lock.
GetSpecific(t, k) == tls[t][k]

----------------------------------------------------------------------------
(* Cleanup handlers: pushed and popped in pairs by a thread, and popped    *)
(* and called by pthread_exit.  A handler is popped before it is called.   *)

CleanupPush(t) ==
    /\ pc[t] = "run"
    /\ cleanup[t] < MaxHandlers
    /\ cleanup' = [cleanup EXCEPT ![t] = @ + 1]
    /\ UNCHANGED <<map, tls, pc, loop>>

\* A handler that is executed here is one more piece of client code.
CleanupPop(t) ==
    /\ pc[t] = "run"
    /\ cleanup[t] > 0
    /\ cleanup' = [cleanup EXCEPT ![t] = @ - 1]
    /\ UNCHANGED <<map, tls, pc, loop>>

Exit(t) ==
    /\ pc[t] = "run"
    /\ Goto(t, "exit")
    /\ UNCHANGED <<map, tls, cleanup, loop>>

RunHandler(t) ==
    /\ pc[t] = "exit"
    /\ cleanup[t] > 0
    /\ cleanup' = [cleanup EXCEPT ![t] = @ - 1]
    /\ Goto(t, "handler")
    /\ UNCHANGED <<map, tls, loop>>

HandlerReturns(t) ==
    /\ pc[t] = "handler"
    /\ Goto(t, "exit")
    /\ UNCHANGED <<map, tls, cleanup, loop>>

----------------------------------------------------------------------------
(* pthread_key_clean_all.                                                  *)

StartClean(t) ==
    /\ pc[t] = "exit"
    /\ cleanup[t] = 0
    /\ rounds' = [rounds EXCEPT ![t] = Iterations]
    /\ kk' = [kk EXCEPT ![t] = NULL]
    /\ Goto(t, "clean")
    /\ UNCHANGED <<map, tls, cleanup, data, dtor>>

\* The keys whose destructor a round would call.
Due(t) == {k \in dtors : tls[t][k] # NULL}

Ahead(t) == {k \in Due(t) : k > kk[t]}

\* A round has called a destructor, "count > 0", if it has passed a key by the
\* time the lock is free.
Called(t) == kk[t] # NULL

\* The value is cleared, the lock is given back, the destructor is called.
CallDestructor(t, k) ==
    /\ data' = [data EXCEPT ![t] = tls[t][k]]
    /\ dtor' = [dtor EXCEPT ![t] = creation[k]]
    /\ tls' = [tls EXCEPT ![t][k] = NULL]
    /\ kk' = [kk EXCEPT ![t] = k]
    /\ Goto(t, "dtor")

CleanThisRound(t, k) ==
    /\ pc[t] = "clean"
    /\ k \in Ahead(t) /\ \A j \in Ahead(t) : k <= j
    /\ CallDestructor(t, k)
    /\ UNCHANGED <<map, cleanup, rounds>>

\* Mutant: the rounds are not counted.
CleanForever(t, k) ==
    /\ pc[t] = "clean"
    /\ Ahead(t) = {} /\ Called(t)
    /\ k \in Due(t) /\ \A j \in Due(t) : k <= j
    /\ CallDestructor(t, k)
    /\ UNCHANGED <<map, cleanup, rounds>>

\* This round is over and the next one finds something to do.
CleanNextRound(t, k) ==
    /\ pc[t] = "clean"
    /\ Ahead(t) = {} /\ Called(t) /\ rounds[t] > 1
    /\ k \in Due(t) /\ \A j \in Due(t) : k <= j
    /\ rounds' = [rounds EXCEPT ![t] = @ - 1]
    /\ CallDestructor(t, k)
    /\ UNCHANGED <<map, cleanup>>

DestructorReturns(t) ==
    /\ pc[t] = "dtor"
    /\ data' = [data EXCEPT ![t] = NULL]
    /\ dtor' = [dtor EXCEPT ![t] = NULL]
    /\ Goto(t, "clean")
    /\ UNCHANGED <<map, tls, cleanup, rounds, kk>>

\* Mutant: the loop ends with its first round.
CleanStopsEarly(t) ==
    /\ pc[t] = "clean"
    /\ Ahead(t) = {}
    /\ Goto(t, "done")
    /\ UNCHANGED <<map, tls, cleanup, loop>>

\* The rounds are used up, or a round (this one or the next) calls nobody;
\* rounds is 0 only if they are used up.
CleanEnds(t) ==
    /\ pc[t] = "clean"
    /\ Ahead(t) = {}
    /\ Called(t) /\ rounds[t] > 1 => Due(t) = {}
    /\ rounds' = [rounds EXCEPT ![t] = IF Called(t) THEN @ - 1 ELSE @]
    /\ Goto(t, "done")
    /\ UNCHANGED <<map, tls, cleanup, kk, data, dtor>>

\* The rest of pthread_exit: off the list, or a zombie.
Leave(t) ==
    /\ pc[t] = "done"
    /\ Goto(t, "gone")
    /\ UNCHANGED <<map, tls, cleanup, loop>>

----------------------------------------------------------------------------
\* Mutant: the area of a new thread is taken to be zero.
EntryTrustsStack(t) ==
    /\ pc[t] = "new"
    /\ Goto(t, "run")
    /\ UNCHANGED <<map, tls, cleanup, loop>>

\* __thread_entry and __init_tls.
ThreadEntry(t) ==
    /\ pc[t] = "new"
    /\ tls' = [tls EXCEPT ![t] = [k \in Keys |-> NULL]]
    /\ Goto(t, "run")
    /\ UNCHANGED <<map, cleanup, loop>>

Init ==
    /\ allocated = Preallocated
    /\ dtors = {}
    /\ creation = [k \in Keys |-> IF k \in Preallocated THEN 1 ELSE 0]
    /\ tls = [t \in Threads |-> [k \in Keys |-> IF t = Main THEN NULL ELSE Garbage]]
    /\ cleanup = [t \in Threads |-> 0]
    /\ pc = [t \in Threads |-> IF t = Main THEN "run" ELSE "new"]
    /\ rounds = [t \in Threads |-> 0]
    /\ kk = [t \in Threads |-> NULL]
    /\ data = [t \in Threads |-> NULL]
    /\ dtor = [t \in Threads |-> NULL]

Call(t) ==
    \/ \E k \in Keys :
          \/ \E d \in BOOLEAN : KeyCreate(t, k, d) \/ SetSpecific(t, k, d)
          \/ KeyDelete(t, k)
    \/ CleanupPush(t) \/ CleanupPop(t)
    \/ Exit(t)

Run(t) ==
    \/ ThreadEntry(t)
    \/ RunHandler(t) \/ HandlerReturns(t)
    \/ StartClean(t) \/ DestructorReturns(t) \/ CleanEnds(t)
    \/ \E k \in Keys : CleanThisRound(t, k) \/ CleanNextRound(t, k)
    \/ Leave(t)

Next == \E t \in Threads : Call(t) \/ Run(t)

\* The scheduler runs every thread and the lock is had by everyone who asks
\* for it.  Cleanup handlers and destructors return.  No client has to call.
Fairness == \A t \in Threads : WF_vars(Run(t))

Spec == Init /\ [][Next]_vars /\ Fairness

----------------------------------------------------------------------------
(* Properties.                                                             *)

\* "if the key was not allocated, the value read from the TLS should always
\* be NULL": whatever keys are created, deleted and created again by whom,
\* also while threads start or run destructors, pthread_getspecific yields
\* nothing but a value that the thread has set since the key was created.
NoStaleValue ==
    \A t \in Threads, k \in Keys :
        HasTls(t) /\ GetSpecific(t, k) # NULL
            => k \in allocated /\ GetSpecific(t, k) = creation[k]

\* A destructor is given only values of the key it was registered for, also
\* if other destructors, or other threads, delete and create keys meanwhile.
DestructorOwnsData == \A t \in Threads : pc[t] = "dtor" => data[t] = dtor[t]

\* pthread_key_clean_all "must call the destructor of all keys that have a
\* non-NULL data value": when a thread is past it and has not used up the
\* rounds, no value with a destructor is left, whatever handlers, earlier
\* destructors and other threads have done; and the thread stays in the list
\* so that this remains true when a key is deleted and created with another
\* destructor.
NothingLeftToDestroy ==
    \A t \in Threads : pc[t] = "done" /\ rounds[t] > 0 => Due(t) = {}

\* A thread that exits gets to the end, even if every destructor sets its
\* value again.
ExitEnds ==
    \A t \in Threads : pc[t] \in {"exit", "handler", "clean", "dtor"} ~> pc[t] = "done"
=============================================================================
