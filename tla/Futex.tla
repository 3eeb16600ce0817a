--------------------------------- MODULE Futex ---------------------------------
(***************************************************************************)
(* The kernel side of the futex system calls that bionic makes through     *)
(* __futex_wait_ex and __futex_wake_ex (bionic/libc/bionic/pthread.c).     *)
(* The kernel is not part of the repository: what is stated here is what   *)
(* the callers rely on.  The queue of one futex word is the set of threads *)
(* asleep on it; the private/shared opcode only names which address space  *)
(* the word is looked up in and is left out.                               *)
(***************************************************************************)

\* FUTEX_WAKE with count 1: the possible queues after the call.  Which
\* sleeper is taken is not specified ("futexes make no guarantees here").
FutexWakeOne(queue) ==
    IF queue = {} THEN {{}} ELSE {queue \ {u} : u \in queue}

\* FUTEX_WAKE with count INT_MAX.
FutexWakeAll(queue) == {{}}

\* FUTEX_WAIT puts the caller to sleep only when the word still has the
\* value the caller passed; otherwise it returns -EWOULDBLOCK at once.
FutexSleeps(word, expected) == word = expected

=============================================================================
