SPECIFICATION Spec
CONSTANTS
    Main = m
    Descs = {m, a, b, c}
    Managed = {a, b, c}
    LateJoined = {}
    LateDetached = {}
    Interrupted = {}
INVARIANT ListIsExact
INVARIANT JoinersCounted
INVARIANT RemovedHasNext
PROPERTY JoinAfterDeath
PROPERTY JoinReturns
CHECK_DEADLOCK FALSE
