SPECIFICATION Spec
CONSTANTS
    MaxRecording = 1
    Remote <- NoRecording
    Stuck <- NoRecording
    MaxFailures = 0
    MaxCrashes = 0
    MaxChanges = 2
PROPERTIES
    LockedSurvives
