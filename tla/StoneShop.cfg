CONSTANTS
    Items = {s1, s2}
    Later = {s2}
    Others = {o1}
    Coins = 2
    ScrollHints = 1
    MaxFaults = 2
    MaxMessages = 2
    s1 = s1
    s2 = s2
    o1 = o1
SPECIFICATION Spec
INVARIANTS
    TypeOK
    PaidOnce
    PaidIsSold
    HintsSettle
CHECK_DEADLOCK FALSE
