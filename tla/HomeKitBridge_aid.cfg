SPECIFICATION Spec
CHECK_DEADLOCK FALSE
CONSTANTS
    Cameras = {1, 2}
    MaxExposed = 2
    MaxAid = 4
    MaxTroubles = 2
INVARIANTS
    NeverUsedBefore
