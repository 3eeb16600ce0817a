SPECIFICATION Spec
CONSTANTS
    Main = m
    Descs = {m, a, b}
    Managed = {a, b}
    LateJoined = {a, b}
    LateDetached = {}
    Interrupted = {}
PROPERTY JoinReturns
CHECK_DEADLOCK FALSE
