CONSTANTS
    Tls = TRUE
    MaxSends = 3
    MaxMessages = 2
SPECIFICATION FairSpec
INVARIANTS
    TypeOK
    OperationsSound
    WrittenInOrder
    NothingStranded
    EndWillBeReported
PROPERTIES
    KeepsContract
    NothingLeftHanging
CHECK_DEADLOCK FALSE
