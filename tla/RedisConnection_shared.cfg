SPECIFICATION Spec
CONSTANTS
    DiscardAt = 8
    TaskLimit = 5
    Threads = {http, rep}
    Answers <- TwoAnswers
    MaxConns = 0
CHECK_DEADLOCK FALSE
INVARIANT
    ReplyIsOwn
