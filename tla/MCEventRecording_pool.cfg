SPECIFICATION FairSpec
CONSTANTS
    c1 = c1
    Cameras = {c1}
    Detections = {"motion", "person"}
    Dur = 1
    Post = 1
    Cooldown = 2
    Workers = 1
    MaxRows = 2
    LastEvent = 1
    MaxTime = 2
    MaxCrashes = 0
    MaxDbErrors = 0
PROPERTIES
    JobsEnd
