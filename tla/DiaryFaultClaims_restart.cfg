SPECIFICATION SpecFaults
CONSTANTS
    Diaries = {2}
    MaxSeqno = 2
    MaxLock = 1
    MaxCrashes = 1
INVARIANT
    ConflictsFound
CONSTRAINT
    NoComments
