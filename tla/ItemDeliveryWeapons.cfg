CONSTANTS
    Kinds = {"reward", "weapon"}
    FoodTiers = 0
    WeaponSlots = 2
    MaxItems = 2
    MaxFaults = 2
    BadSlotData = TRUE
SPECIFICATION FairSpec
INVARIANTS
    NoRepeatedReward
PROPERTIES
    ChosenWeaponsArrive
CHECK_DEADLOCK FALSE
