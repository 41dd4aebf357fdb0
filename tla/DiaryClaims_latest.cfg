SPECIFICATION Spec
CONSTANTS
    Diaries = {2}
    MaxSeqno = 2
    MaxLock = 2
INVARIANT
    LatestReadIsLastCommit
