CONSTANTS
    Characters = {c1, c2}
    Slots = {s1, s2}
    MaxTakeovers = 1
    RefusesPlayed = TRUE
    None = None
SPECIFICATION Spec
INVARIANTS
    OldChecksStayOut
CHECK_DEADLOCK FALSE
