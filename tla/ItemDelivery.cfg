CONSTANTS
    Kinds = {"reward", "progressive", "food"}
    FoodTiers = 2
    WeaponSlots = 0
    MaxItems = 3
    MaxFaults = 2
    BadSlotData = FALSE
SPECIFICATION FairSpec
INVARIANTS
    TypeOK
    NoRepeatedReward
    RecordedIsRewarded
    RightTier
    CountsAreSums
PROPERTIES
    EverythingArrives
CHECK_DEADLOCK FALSE
