SPECIFICATION Spec
CONSTANTS
    Channels = {c1}
    NULL = NULL
    MaxCommands = 3
    MaxPushed = 1
    Careful = FALSE
INVARIANTS
    AssertionsHold
CHECK_DEADLOCK FALSE
