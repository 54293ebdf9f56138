SPECIFICATION DecisionSpec
CHECK_DEADLOCK FALSE
CONSTANTS
    Off = Off
    MaxRecording = 3
    Sizes = {1, 2, 4}
    Cameras = {"a", "b"}
    Cutoffs = {0, 3}
    Limits <- ThreeLimits
    Workers = {1, 2}
    Ids = {1}
    Looks = {1, 2}
    Automations = {101}
    Cooldowns = {0, 1}
    MaxClock = 1
    MaxEvents = 2
    MaxEdits = 1
    Side = 3
    Line <- DoorLine
    Area <- Lawn
    Period = 2
    Grace = 3
    MinDwell = 4
    MaxCycles = 4
    MaxLost = 1
    Objects = {1, 2}
    MaxX = 2
    Width = 2
    MinHits = 2
    MaxMissed = 1
INVARIANTS
    DecisionTypeOK
    CleanupSuffices
    GeometryExact
    GraceBridges
    TracksHold
    RulesFireRightly
