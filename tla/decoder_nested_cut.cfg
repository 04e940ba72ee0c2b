SPECIFICATION Spec
CONSTANT Frames <- MCCutFrames
INVARIANT NothingGuessed
CHECK_DEADLOCK FALSE
