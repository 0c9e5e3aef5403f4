SPECIFICATION Spec
CONSTANTS
    User = {u1}
    Dataset = {d1}
    Request = {r1, r2, r3}
    NoUser = NoUser
    NoDataset = NoDataset
    NoRequest = NoRequest
    MaxCrashes = 1
CHECK_DEADLOCK FALSE
INVARIANTS
    StartupNeverFails
