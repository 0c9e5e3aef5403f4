SPECIFICATION Spec
CONSTANTS
    User = {u1, u2}
    Dataset = {d1, d2}
    Request = {r1, r2, r3, r4}
    NoUser = NoUser
    NoDataset = NoDataset
    NoRequest = NoRequest
    MaxCrashes = 1
SYMMETRY Symmetry
CHECK_DEADLOCK FALSE
INVARIANTS
    TypeOK
    RegisteredIsBacked
    NoForeignRead
    AcknowledgedUploadSurvives
    FailedUploadIsWholeOrGone
    DanglingPointerIsExplained
    AcknowledgedDeleteIsFinal
PROPERTIES
    NoReadLosesItsFile
    ImplementsCatalog
