SPECIFICATION Spec
CONSTANTS
    Threads = {1, 2, 3, 4}
    TimedReaders = {1}
    TimedWriters = {}
    MaxHolds = 2
INVARIANT WriterIsAlone
INVARIANT CountersExact
INVARIANT NoForgottenWaiter
PROPERTY ServedDespiteReaders
