CONSTANTS
    FirstInterval = 1
    MaxInterval = 10
    HandshakeTimeout = 20
    AnswerTicks = 6
    MaxEvents = 3
    Kinds = {"answers", "refuses", "badTls"}
SPECIFICATION FairSpec
INVARIANTS
    TypeOK
    NoStaleEvents
    OthersStopped
PROPERTIES
    KeepsWorkingScheme
    GetsConnected
CHECK_DEADLOCK FALSE
