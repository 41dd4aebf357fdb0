SPECIFICATION FairSpec
CONSTANTS
    Channels = {c1, c2}
    NULL = NULL
    MaxCommands = 3
    MaxPushed = 1
    Careful = TRUE
INVARIANTS
    TypeOK
    AssertionsHold
    CalledOnce
    OwnReply
    NullOnlyAfterFailure
    StatusTruthful
PROPERTIES
    EveryCallbackCalled
    DisconnectCompletes
CHECK_DEADLOCK FALSE
