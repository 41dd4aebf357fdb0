CONSTANTS
    c1 = c1
    c2 = c2
    listener = listener
    Conns = {c1, c2}
    NULL = NULL
    Listener = listener
    Scripts <- MCScripts
    SiteId = 0
    Diaries = {1, 2}
    FileLen = 3
    MaxSend = 2
    MaxRequest = 4
    RecvSize = 3
    SockBuf = 2

SPECIFICATION Spec
CHECK_DEADLOCK FALSE

INVARIANTS
    OnlyWholeHandled
