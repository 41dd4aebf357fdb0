SPECIFICATION FairSpec
CONSTANTS
    Diaries = {1, 2}
    MaxSeqno = 1
    MaxLock = 2
INVARIANT
    VersionsUnique
PROPERTIES
    LockReleased
    Replicated
    ImplementsRegister
