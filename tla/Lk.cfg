SPECIFICATION Spec
CONSTANTS
    Threads = {2, 3, 4}
    Low = {4}
    Quantum = 2
    Bootstrap2 = 2
    Timed = {3, 4}
    Waiters = {3, 4}
    Mortal = {3}
INVARIANT QueuesExact
INVARIANT MutexAccounted
INVARIANT NobodyForgotten
PROPERTY ReadyRuns
PROPERTY MisledByTimeout
