CONSTANTS
    Kinds = {"aura", "ambush", "bombs", "teleport", "buff"}
    MaxItems = 2
    Hold = 1
    BombsPerTrap = 2
    MaxCrashes = 1
SPECIFICATION Spec
INVARIANTS
    TypeOK
    WaitingTrapsAreKept
    TrapsSpringOnce
    BuffsAreAccounted
PROPERTIES
    TrapsAwaitLanding
CHECK_DEADLOCK FALSE
