SPECIFICATION Spec
CONSTANTS
    Request = {r1, r2, r3}
    Caller = {r1, r2, r3}
    Browser = {b1}
    Address = {b1}
    Account = {ann}
    Members = {ann}
    Email = {ann}
    Token = {1, 2}
    None = None
    MaxConcurrent = 1
    MaxWaiting = 1
    PairLimit = 1
    AddressLimit = 2
    EmailLimit = 2
    Window = 2
    MaxTracked = 4
    IdleTimeout = 2
    Lifetime = 3
    MaxClock = 3
    MaxFaults = 1
    AtMost <- Visits
SYMMETRY Symmetry
CHECK_DEADLOCK FALSE
INVARIANTS
    LogoutIsFinal
PROPERTIES
    ImplementsLedger
