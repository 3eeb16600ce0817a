\* The queue of a layer: three slots, of which the client and the consumer may
\* set the number, and both modes; on
\* past a second acquisition of the texture's slot.
CONSTANTS
    NUM_BUFFER_SLOTS = 3
    MinUndequeuedBuffers = 2
    ClientCounts = {0, 3}
    ServerCounts = {2, 3}
    MaxFrames = 2
    Follow = TRUE
SPECIFICATION Spec
INVARIANT ConsumerHasBuffer
CHECK_DEADLOCK FALSE
