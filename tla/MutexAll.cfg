SPECIFICATION Spec
CONSTANTS
    Threads = {1, 2, 3}
    TimedThreads = {1}
    Types = {"NORMAL", "RECURSIVE", "ERRORCHECK"}
    TimedTypes = {"NORMAL", "RECURSIVE"}
    OwnerLimit = 65536
    CounterMax = 1
INVARIANT MutualExclusion
INVARIANT WordMatchesHolder
INVARIANT WakeupsKept
PROPERTY OnlyOwnerChangesCounter
PROPERTY ImplementsAbstractMutex
PROPERTY TimedLockReturns
PROPERTY Progress
