SPECIFICATION Spec
CONSTANTS
    Diaries = {2}
    MaxSeqno = 2
    MaxLock = 2
INVARIANTS
    TypeOK
    SingleWriter
    SeqnoConservation
    NoLostUpdate
    SameOrder
    CausalReplication
    Converged
    ReadInBounds
