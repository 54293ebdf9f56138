SPECIFICATION FairSpec
CONSTANTS
    MaxRecording = 2
    Remote <- Older
    Stuck <- Newer
    MaxFailures = 1
    MaxCrashes = 1
    MaxChanges = 2
INVARIANTS
    TypeOK
    OrphansExplained
    DanglingExplained
    ButtonSparesLocked
PROPERTIES
    DueIsDeleted
