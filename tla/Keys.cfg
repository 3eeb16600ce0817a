SPECIFICATION Spec
CONSTANTS
    Threads = {t0, t1}
    Main = t0
    Keys = {3, 4}
    Preallocated = {3}
    Iterations = 4
    MaxCreations = 2
    MaxHandlers = 1
INVARIANT NoStaleValue
INVARIANT DestructorOwnsData
INVARIANT NothingLeftToDestroy
PROPERTY ExitEnds
CHECK_DEADLOCK FALSE
