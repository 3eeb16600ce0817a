SPECIFICATION Spec
CONSTANTS
    Threads = {1, 2, 3}
    CounterSize = 3
    NoThread = 0
INVARIANT BroadcastReachesAll
PROPERTY NoSleepAfterPulse
PROPERTY BroadcastWakes
