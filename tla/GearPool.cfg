CONSTANTS
    MaxLevel = 4
    ArmorTypes = {1, 2}
    WidenStep = 1
    MinCandidates = 2
    MaxPieces = 3
    MaxWindow = 1
SPECIFICATION Spec
INVARIANTS
    TypeOK
    AlwaysSomethingToWear
    DrawIsRight
CHECK_DEADLOCK FALSE
