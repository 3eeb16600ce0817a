\* The queue of a layer: three slots, of which the client and the consumer may
\* set the number, and both modes.
CONSTANTS
    NUM_BUFFER_SLOTS = 3
    MinUndequeuedBuffers = 2
    ClientCounts = {0, 3}
    ServerCounts = {2, 3}
    MaxFrames = 3
    Follow = FALSE
SPECIFICATION Spec
INVARIANT BuffersAccounted
INVARIANT FramesAnnounced
INVARIANT ConsumerViewExact
PROPERTY ClientReturns
CHECK_DEADLOCK FALSE
