SPECIFICATION Spec
CONSTANTS
    Frames <- TwoFrames
    Keys = {}
    Merge = 2
    MaxFrames = 3
    MaxKeys = 0
INVARIANTS
    PartsInPlace
CHECK_DEADLOCK FALSE
