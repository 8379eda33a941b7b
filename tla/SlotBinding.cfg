CONSTANTS
    Characters = {c1, c2}
    Slots = {s1, s2}
    MaxTakeovers = 1
    RefusesPlayed = FALSE
    None = None
SPECIFICATION Spec
INVARIANTS
    TypeOK
    SharedOnlyByRace
    OldChecksStayOut
CHECK_DEADLOCK FALSE
