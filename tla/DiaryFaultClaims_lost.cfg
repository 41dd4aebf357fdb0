SPECIFICATION SpecFaults
CONSTANTS
    Diaries = {2}
    MaxSeqno = 1
    MaxLock = 1
    MaxCrashes = 0
INVARIANT
    TakenMeansUpdating
