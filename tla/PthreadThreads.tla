----------------------------- MODULE PthreadThreads -----------------------------
(***************************************************************************)
(* The life of a thread in bionic (bionic/libc/bionic/pthread.c):          *)
(* pthread_create, the trampoline of the new thread, pthread_exit,         *)
(* pthread_join and pthread_detach, and the walk of pthread_key_delete     *)
(* over the list of threads.  A thread is named by its descriptor (the     *)
(* pthread_internal_t that a pthread_t points to); a descriptor that has   *)
(* been freed may be allocated again.                                      *)
(*                                                                         *)
(* gThreadListLock and the join_cond are taken from their abstract         *)
(* specifications: what is done under the lock is one step, and a wait on  *)
(* the condition ends after a broadcast.  One step is one critical section *)
(* or one access without the lock.                                         *)
(***************************************************************************)
EXTENDS Integers, Sequences, FiniteSets

CONSTANTS
    Descs,        \* the memory for descriptors
    Main,         \* the descriptor of the initial thread
    Managed,      \* threads that pthread_join and pthread_detach are called for
    LateJoined,   \* those that are joined after they exited with joiners waiting
    LateDetached, \* those that are detached while or after they exit
    Interrupted   \* threads whose wait on a join_cond a signal may interrupt

ASSUME DescsAssumption ==
    /\ IsFiniteSet(Descs)
    /\ Main \in Descs
    /\ Managed \cup LateJoined \cup LateDetached \cup Interrupted \subseteq Descs

VARIABLES
    list,        \* gThreadList, the newest thread first
    pc,          \* where each thread is, "free" if the descriptor is not in use
    target,      \* the thread that a call of each thread is about, or itself
    detached,    \* PTHREAD_ATTR_FLAG_DETACHED in attr.flags
    join_count,  \* joiners that wait, -1 for a zombie
    tls,         \* thread->tls: not set yet, mapped, or gone with the stack
    woken        \* joiners that a broadcast has woken

vars == <<list, pc, target, detached, join_count, tls, woken>>

Errors == {"ESRCH", "EINVAL"}

\* Inside client code, or a call made by it.
Alive == {"run", "create", "created", "join"} \cup Errors

Labels == {"free", "blocked", "start", "leave", "remove", "dealloc", "dead"} \cup Alive

Listed == {list[i] : i \in DOMAIN list}

Joiners(d) == {t \in Descs : pc[t] = "join" /\ target[t] = d}

TypeOK ==
    /\ list \in Seq(Descs) /\ Len(list) <= Cardinality(Descs)
    /\ pc \in [Descs -> Labels]
    /\ target \in [Descs -> Descs]
    /\ detached \in [Descs -> BOOLEAN]
    /\ join_count \in [Descs -> -1 .. Cardinality(Descs)]
    /\ tls \in [Descs -> {"null", "mapped", "gone"}]
    /\ woken \subseteq Descs

----------------------------------------------------------------------------
Goto(t, label) == pc' = [pc EXCEPT ![t] = label]

\* Mutant: a new thread goes to the end of the list.
Appended(d) == Append(list, d)

\* _pthread_internal_add
Added(d) == <<d>> \o list

\* _pthread_internal_remove_locked: what is before d is linked to what is
\* behind it.  It writes to thread->next without a test.
Removed(d) ==
    LET i == CHOOSE i \in DOMAIN list : list[i] = d
    IN  SubSeq(list, 1, i - 1) \o SubSeq(list, i + 1, Len(list))

\* _pthread_internal_free, seen by calloc: the memory is in nobody's use.
Cleared(d) ==
    /\ detached' = [detached EXCEPT ![d] = FALSE]
    /\ join_count' = [join_count EXCEPT ![d] = 0]
    /\ tls' = [tls EXCEPT ![d] = "null"]

----------------------------------------------------------------------------
(* pthread_create and __thread_entry.  A call that fails (no memory, no    *)
(* stack, no kernel thread) takes back what it allocated.                  *)

\* calloc, mkstack, lock of the start mutex, clone.
Create(t, d) ==
    /\ pc[t] = "run"
    /\ pc[d] = "free" /\ d # Main
    /\ pc' = [pc EXCEPT ![t] = "create", ![d] = "blocked"]
    /\ target' = [target EXCEPT ![t] = d, ![d] = d]
    /\ UNCHANGED <<list, detached, join_count, tls, woken>>

\* _init_thread copies the attributes, then the descriptor joins the list.
CreateInit(t, detachstate) ==
    /\ pc[t] = "create"
    /\ detached' = [detached EXCEPT ![target[t]] = detachstate]
    /\ join_count' = [join_count EXCEPT ![target[t]] = 0]
    /\ list' = Added(target[t])
    /\ Goto(t, "created")
    /\ UNCHANGED <<target, tls, woken>>

\* Unlock of the start mutex; the caller gets the handle.
CreateRelease(t) ==
    /\ pc[t] = "created"
    /\ pc' = [pc EXCEPT ![t] = "run", ![target[t]] = "start"]
    /\ target' = [target EXCEPT ![t] = t]
    /\ UNCHANGED <<list, detached, join_count, tls, woken>>

\* The new thread gets past the start mutex and sets up its TLS.
ThreadEntry(d) ==
    /\ pc[d] = "start"
    /\ tls' = [tls EXCEPT ![d] = "mapped"]
    /\ Goto(d, "run")
    /\ UNCHANGED <<list, target, detached, join_count, woken>>

----------------------------------------------------------------------------
(* pthread_exit, after the cleanup handlers and the TLS destructors.       *)

\* The flag is read without the lock.
Exit(d) ==
    /\ pc[d] = "run"
    /\ Goto(d, IF detached[d] THEN "remove" ELSE "leave")
    /\ UNCHANGED <<list, target, detached, join_count, tls, woken>>

\* Mutant: the descriptor of a detached thread is freed and stays in the list.
ExitOnlyFrees(d) ==
    /\ pc[d] = "remove"
    /\ Goto(d, "dealloc")
    /\ UNCHANGED <<list, target, detached, join_count, tls, woken>>

\* A detached thread takes itself off the list, under the lock.
ExitRemove(d) ==
    /\ pc[d] = "remove"
    /\ list' = Removed(d)
    /\ Goto(d, "dealloc")
    /\ UNCHANGED <<target, detached, join_count, tls, woken>>

ExitFree(d) ==
    /\ pc[d] = "dealloc"
    /\ Cleared(d)
    /\ Goto(d, "free")
    /\ UNCHANGED <<list, target, woken>>

\* Mutant: the joiners are not told.
ExitSilently(d) ==
    /\ pc[d] = "leave"
    /\ join_count' = [join_count EXCEPT ![d] = IF @ > 0 THEN @ ELSE -1]
    /\ Goto(d, "dead")
    /\ UNCHANGED <<list, target, detached, tls, woken>>

\* Any other thread becomes a zombie, or tells the joiners that wait.
ExitPublish(d) ==
    /\ pc[d] = "leave"
    /\ \/ /\ join_count[d] > 0
          /\ woken' = woken \cup Joiners(d)
          /\ UNCHANGED join_count
       \/ /\ join_count[d] <= 0
          /\ join_count' = [join_count EXCEPT ![d] = -1]
          /\ UNCHANGED woken
    /\ Goto(d, "dead")
    /\ UNCHANGED <<list, target, detached, tls>>

\* _exit_with_stack_teardown: the stack goes, and with it the TLS area (that
\* of the initial thread is static memory).  A stack that the client supplied
\* stays until the client takes it back.
Teardown(d) ==
    /\ pc[d] = "dead" /\ tls[d] = "mapped" /\ d # Main
    /\ tls' = [tls EXCEPT ![d] = "gone"]
    /\ UNCHANGED <<list, pc, target, detached, join_count, woken>>

----------------------------------------------------------------------------
(* pthread_join.  A thread does not join itself.                           *)

JoinRefused(t, d) ==
    /\ pc[t] = "run"
    /\ d \in Managed \ {t}
    /\ \/ d \notin Listed /\ Goto(t, "ESRCH")
       \/ d \in Listed /\ detached[d] /\ Goto(t, "EINVAL")
    /\ UNCHANGED <<list, target, detached, join_count, tls, woken>>

CanJoin(t, d) ==
    /\ pc[t] = "run"
    /\ d \in Managed \ {t}
    /\ d \in Listed
    /\ ~detached[d]

\* The last joiner, or the only one to come, disposes of the descriptor.
Dispose(d) == list' = Removed(d) /\ Cleared(d)

JoinZombie(t, d) ==
    /\ CanJoin(t, d)
    /\ join_count[d] < 0
    /\ Dispose(d)
    /\ Goto(d, "free")
    /\ UNCHANGED <<target, woken>>

\* Mutant: the test of join_count is off by one, the first caller does not wait.
JoinWaitOffByOne(t, d) ==
    /\ CanJoin(t, d)
    /\ pc[d] = "dead" => d \in LateJoined
    /\ \/ /\ join_count[d] > 0
          /\ join_count' = [join_count EXCEPT ![d] = @ + 1]
          /\ target' = [target EXCEPT ![t] = d]
          /\ Goto(t, "join")
          /\ UNCHANGED <<list, detached, tls>>
       \/ /\ join_count[d] = 0
          /\ Dispose(d)
          /\ pc' = [pc EXCEPT ![d] = "free"]
          /\ UNCHANGED target
    /\ UNCHANGED woken

\* Client rule: see LateJoined.
JoinWait(t, d) ==
    /\ CanJoin(t, d)
    /\ pc[d] = "dead" => d \in LateJoined
    /\ join_count[d] >= 0
    /\ join_count' = [join_count EXCEPT ![d] = @ + 1]
    /\ target' = [target EXCEPT ![t] = d]
    /\ Goto(t, "join")
    /\ UNCHANGED <<list, detached, tls, woken>>

\* Mutant: the first joiner back disposes of the descriptor.
JoinReturnDisposes(t) ==
    /\ pc[t] = "join"
    /\ t \in woken \cup Interrupted
    /\ Dispose(target[t])
    /\ pc' = [pc EXCEPT ![t] = "run", ![target[t]] = "free"]
    /\ target' = [target EXCEPT ![t] = t]
    /\ woken' = woken \ {t}

\* pthread_cond_wait has returned, after a broadcast or early: its result is
\* not looked at, and the state of the thread is not looked at again.
JoinReturn(t) ==
    /\ pc[t] = "join"
    /\ t \in woken \cup Interrupted
    /\ LET d == target[t]
       IN \/ /\ join_count[d] > 1
             /\ join_count' = [join_count EXCEPT ![d] = @ - 1]
             /\ Goto(t, "run")
             /\ UNCHANGED <<list, detached, tls>>
          \/ /\ join_count[d] <= 1
             /\ Dispose(d)
             /\ pc' = [pc EXCEPT ![t] = "run", ![d] = "free"]
    /\ target' = [target EXCEPT ![t] = t]
    /\ woken' = woken \ {t}

----------------------------------------------------------------------------
(* pthread_detach.  Client rules: see LateDetached; and a thread that      *)
(* others wait for is not detached.                                        *)

Detach(t, d) ==
    /\ pc[t] = "run"
    /\ d \in Managed
    /\ pc[d] \in {"leave", "dead"} => d \in LateDetached
    /\ Joiners(d) = {}
    /\ \/ /\ d \notin Listed
          /\ Goto(t, "ESRCH")
          /\ UNCHANGED detached
       \/ /\ d \in Listed /\ detached[d]
          /\ Goto(t, "EINVAL")
          /\ UNCHANGED detached
       \/ /\ d \in Listed /\ ~detached[d]
          /\ detached' = [detached EXCEPT ![d] = TRUE]
          /\ UNCHANGED pc
    /\ UNCHANGED <<list, target, join_count, tls, woken>>

Return(t) ==
    /\ pc[t] \in Errors
    /\ Goto(t, "run")
    /\ UNCHANGED <<list, target, detached, join_count, tls, woken>>

\* The threads whose TLS area pthread_key_delete writes to.
KeyDeleteClears == {d \in Listed : join_count[d] >= 0 /\ tls[d] # "null"}

----------------------------------------------------------------------------
\* __libc_init_common has set up the initial thread.
Init ==
    /\ list = <<Main>>
    /\ pc = [d \in Descs |-> IF d = Main THEN "run" ELSE "free"]
    /\ target = [d \in Descs |-> d]
    /\ detached = [d \in Descs |-> FALSE]
    /\ join_count = [d \in Descs |-> 0]
    /\ tls = [d \in Descs |-> IF d = Main THEN "mapped" ELSE "null"]
    /\ woken = {}

Call(t) ==
    \/ \E d \in Descs :
          \/ Create(t, d)
          \/ JoinRefused(t, d) \/ JoinZombie(t, d) \/ JoinWait(t, d)
          \/ Detach(t, d)
    \/ Exit(t)

Run(t) ==
    \/ \E detachstate \in BOOLEAN : CreateInit(t, detachstate)
    \/ CreateRelease(t) \/ ThreadEntry(t)
    \/ ExitRemove(t) \/ ExitFree(t) \/ ExitPublish(t)
    \/ Return(t)

Next == \E t \in Descs : Call(t) \/ Run(t) \/ JoinReturn(t) \/ Teardown(t)

\* The scheduler runs every runnable thread; no client has to call or exit,
\* and no signal has to come.
Fairness ==
    \A t \in Descs : WF_vars(Run(t)) /\ WF_vars(JoinReturn(t) /\ t \in woken)

Spec == Init /\ [][Next]_vars /\ Fairness

----------------------------------------------------------------------------
(* Properties.                                                             *)

\* pthread_join returns 0, and a descriptor is freed, only after the thread
\* has made its last access to its descriptor ("wait for thread death when
\* needed").
JoinAfterDeath ==
    [][\A d \in Descs :
         /\ pc[d] = "join" /\ pc'[d] = "run" => pc[target[d]] = "dead"
         /\ pc[d] # "free" /\ pc'[d] = "free" => pc[d] \in {"dead", "dealloc"}]_vars

\* A thread that runs, from the trampoline to the end of pthread_exit, has
\* its descriptor in the list once, and memory that has been freed is not in
\* the list: nobody finds freed memory there.
ListIsExact ==
    /\ \A i, j \in DOMAIN list : list[i] = list[j] => i = j
    /\ \A d \in Descs :
          /\ pc[d] \in (Alive \cup {"start", "leave", "remove", "dead"}) => d \in Listed
          /\ pc[d] \in {"free", "dealloc"} => d \notin Listed

\* join_count is the number of joiners inside pthread_join, or it marks a
\* dead thread that nobody waits for; so the last joiner, and nobody else,
\* frees the descriptor that the others still look at.  The count is also
\* how pthread_key_delete tells the dead: it writes to a stack that is gone
\* only while joiners have not returned yet.
JoinersCounted ==
    /\ \A d \in Descs :
          \/ join_count[d] = Cardinality(Joiners(d))
          \/ join_count[d] = -1 /\ Joiners(d) = {} /\ pc[d] = "dead"
    /\ \A d \in KeyDeleteClears : tls[d] = "gone" => Joiners(d) # {}

\* Whoever is about to be removed has a successor in the list, whose pref
\* _pthread_internal_remove_locked writes to.
RemovedHasNext ==
    \A i \in DOMAIN list :
        \/ pc[list[i]] = "remove"
        \/ list[i] \in Managed /\ pc[list[i]] = "dead"
        => i < Len(list)

\* Everyone who waits for a thread that has exited returns.
JoinReturns ==
    \A t \in Descs : pc[t] = "join" /\ pc[target[t]] = "dead" ~> pc[t] # "join"
=============================================================================
