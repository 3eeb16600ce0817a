SPECIFICATION Spec
CONSTANTS
    Threads = {1, 2, 3}
    MaxValue = 2
INVARIANT NoStrandedWaiter
PROPERTY ImplementsAbstractSemaphore
PROPERTY SleeperIsWoken
