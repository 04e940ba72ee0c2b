SPECIFICATION Spec
CONSTANTS
    Streams <- HashInDataStreams
    MaxBufferBytes = 100
    MaxResets = 0
INVARIANT
    SplitAsSent
CHECK_DEADLOCK FALSE
