CONSTANTS
    Kinds = {"reward"}
    FoodTiers = 0
    WeaponSlots = 0
    MaxItems = 2
    MaxFaults = 1
    BadSlotData = TRUE
SPECIFICATION FairSpec
INVARIANTS
    RecordedIsRewarded
CHECK_DEADLOCK FALSE
