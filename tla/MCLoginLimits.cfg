SPECIFICATION Spec
CONSTANTS
    Request = {r1, r2, r3}
    Caller = {r1, r2, r3}
    Browser = {b1}
    Address = {b1}
    Account = {ann}
    Members = {ann}
    Email = {ann, nobody}
    Token = {}
    None = None
    MaxConcurrent = 1
    MaxWaiting = 1
    PairLimit = 1
    AddressLimit = 2
    EmailLimit = 2
    Window = 2
    MaxTracked = 4
    IdleTimeout = 2
    Lifetime = 3
    MaxClock = 2
    MaxFaults = 1
    AtMost <- Attempts
SYMMETRY Symmetry
CHECK_DEADLOCK FALSE
INVARIANTS
    TypeOK
    HashingBounded
PROPERTIES
    LockedOutIsRefused
    RefusedOnlyWhenLocked
