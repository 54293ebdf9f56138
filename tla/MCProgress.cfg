SPECIFICATION ProgressSpec
CHECK_DEADLOCK FALSE
CONSTANTS
    Off = Off
    Starters = {"loop", "pool"}
    MaxAttempts = 2
    MaxStops = 1
    Kinds = {"events", "video", "audio"}
    MaxEdits = 3
    Brokers = {"a", "b"}
    MaxSaves = 2
    MaxConn = 2
    Good = {1, 2}
    MaxLosses = 1
    Parts = {"image"}
    MaxCommands = 2
    MaxStarts = 4
    Uplinks = {"a"}
    MaxMoves = 1
    MaxVersions = 1
    MaxStreams = 2
    MaxDeaths = 2
    MaxTroubles = 1
INVARIANTS
    ProgressTypeOK
    NothingTwice
PROPERTIES
    WorkReturns
    NewCommitNoticed
    RefreshSettles
    ControlSettles
    StatusFollows
