SPECIFICATION Spec

CONSTANTS
    MaxUpload  = 4
    Headroom   = 2
    ChunkBytes = 3
    MaxFile    = 6
    MaxFraming = 4
    MaxMessage = 3
    None       = None

INVARIANTS
    TypeOK
    OneResponse
    CrossingDecides
    LimitsAgree
    TempFileServesOneUpload

CHECK_DEADLOCK FALSE
