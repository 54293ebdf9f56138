SPECIFICATION Spec
CHECK_DEADLOCK FALSE
SYMMETRY ActorsAlike
CONSTANTS
    Off = Off
    Kinds = {"camera", "design"}
    MaxSha = 2
    Defective = {2}
    Defect = "load"
    NeedsPackage = {2}
    Syncs = {a1, a2}
    Ids = {1, 2}
    Browsers = {a1, a2}
    Names = {n1, n2}
    Threshold = 2
    MaxWrong = 2
    Uplinks = {"a", "b"}
    MaxMoves = 1
    Attempts = {1, 2}
    EditForms = {1}
    MaxPassword = 2
    MaxAttempts = 4
    MaxCameras = 1
    Retain = 2
    MaxVersion = 2
    MaxStamps = 5
    KitCameras = {1, 2}
    MaxExposed = 2
    MaxAid = 4
    Saves = {1, 2}
    Offers = {1}
    MaxUri = 2
    Limit = 4
    MaxChanges = 1
    MaxEvents = 4
    Migrations <- TwoMigrations
    InSchema = {"role"}
    Keys = {1, 2}
    MaxText = 2
    MaxStops = 2
    ImageCallers = {"loop", "page", "api", "mcp"}
    MaxEdits = 1
    MaxRows = 2
    MaxTroubles = 1
INVARIANTS
    TypeOK
    PackagesHold
    SomeoneRemains
    GuessesCount
    EditSurvives
    ProcessesMatch
    HealthIsTold
PROPERTIES
    BackupsHold
    KeepsIdentity
