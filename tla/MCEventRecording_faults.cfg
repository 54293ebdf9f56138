SPECIFICATION Spec
CONSTANTS
    c1 = c1
    Cameras = {c1}
    Detections = {"motion"}
    Dur = 1
    Post = 1
    Cooldown = 2
    Workers = 1
    MaxRows = 2
    LastEvent = 2
    MaxTime = 3
    MaxCrashes = 1
    MaxDbErrors = 1
INVARIANTS
    TypeOK
    OneJobPerKey
    ReadyClipExact
    RowsTellTheJob
    ActiveKeyHeld
    ClipsSpaced
PROPERTIES
    Implements
