SPECIFICATION Spec
CONSTANT Frames <- MCCutLists
INVARIANT CutFenceIsDropped
CHECK_DEADLOCK FALSE
