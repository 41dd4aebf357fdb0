SPECIFICATION SpecFaults
CONSTANTS
    Diaries = {2}
    MaxSeqno = 2
    MaxLock = 1
    MaxCrashes = 1
CONSTRAINT
    FewCommits
INVARIANTS
    TypeOKFaults
    MutualExclusion
    NeverCountedTwice
    OrderedReplicas
    NoEditOverwritten
