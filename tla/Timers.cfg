SPECIFICATION Spec
CONSTANTS
    Threads = {1, 2}
    Forkers = {1}
    Armed = {1}
    MAX_THREAD_TIMERS = 2
    DELAYTIMER_MAX = 1
    ForkDuringCreate = FALSE
INVARIANT SlotsAccounted
INVARIANT TableReadyBeforeUse
PROPERTY OnceReturns
PROPERTY DeletedIsFreed
PROPERTY ArmedFires
