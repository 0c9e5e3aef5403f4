SPECIFICATION FairSpec
CONSTANTS
    Thread = {t1, t2, t3}
    Workers = 2
    Batches = 2
    None = None
CHECK_DEADLOCK FALSE
INVARIANTS
    TypeOK
    NoQueryOnClosedStorage
    AnswersAgree
    CachedIsComplete
PROPERTIES
    EveryThreadFinishes
