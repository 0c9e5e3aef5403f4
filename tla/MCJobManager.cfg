SPECIFICATION FairSpec
CONSTANTS
    Job = {j1, j2, j3}
    Call = {c1}
    Worker = {w1, w2}
    MaxRetained = 2
    Idle = Idle
CHECK_DEADLOCK FALSE
INVARIANTS
    TypeOK
    OneHolder
    ActiveJobsRetained
PROPERTIES
    EvictionIsExact
    EnqueuedJobFinishes
    ImplementsLedger
