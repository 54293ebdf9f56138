SPECIFICATION Spec
CHECK_DEADLOCK FALSE
CONSTANTS
    MaxRecording = 3
    Sizes = {1, 2, 4}
    Cameras = {"a"}
    Cutoffs = {0}
    Limits <- ThreeLimits
INVARIANTS
    OldestFirst
