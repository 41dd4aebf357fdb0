SPECIFICATION Spec
CONSTANTS
    DiscardAt = 8
    TaskLimit = 5
    Threads = {http}
    Answers <- AllAnswers
    MaxConns = 1
CHECK_DEADLOCK FALSE
INVARIANTS
    TypeOK
    ReplyIsOwn
    ReplyNotStuck
    OnlyDepthRefused
    ExecutedInOrder
    FailureSticks
