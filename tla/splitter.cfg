SPECIFICATION FairSpec
CONSTANTS
    Streams <- AllStreams
    MaxBufferBytes <- LongestPending
    MaxResets = 1
INVARIANTS
    TypeOK
    ExactlyTheArrivedFrames
    MemoryBounded
    FramesWellCut
PROPERTY
    PushReturns
CHECK_DEADLOCK FALSE
