SPECIFICATION FairSpec
CONSTANTS
    MaxSegment = 2
    MaxChanges = 2
    MaxFailures = 1
    MaxCrashes = 1
    MaxExits = 1
INVARIANTS
    TypeOK
    
    LossExplained
    RowsMatchStored

    
