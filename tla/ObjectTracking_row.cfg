SPECIFICATION Spec
CHECK_DEADLOCK FALSE
CONSTANTS
    Objects = {1, 2}
    MaxX = 3
    Width = 2
    MinHits = 2
    MaxMissed = 1
    MaxCycles = 4
INVARIANTS
    SurfacedInARow
