CONSTANTS
    FirstInterval = 1
    MaxInterval = 10
    HandshakeTimeout = 20
    AnswerTicks = 6
    MaxEvents = 3
    Kinds = {"answers", "silent"}
SPECIFICATION FairSpec
PROPERTY AlternatesUntilOneSucceeds
CHECK_DEADLOCK FALSE
