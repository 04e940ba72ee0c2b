SPECIFICATION FairSpec
CONSTANT Frames <- MCFrames
INVARIANT TypeOK
INVARIANT WholeReportDecoded
INVARIANT NeverSilentlyWrong
INVARIANT WholeFenceListDecoded
INVARIANT FencesAreTheDevices
PROPERTY ParseEnds
\* parseFrame() returns.
CHECK_DEADLOCK FALSE
