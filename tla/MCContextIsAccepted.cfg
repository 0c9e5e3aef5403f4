SPECIFICATION Spec

CONSTANTS
    region = region
    city = city
    day = day
    sales = sales
    a = a
    b = b
    Dimension = {region, city}
    Time = {day}
    Measure = {sales}
    Unknown = Unknown
    Value = {a, b}
    Opaque = Opaque
    Count = {1, 3}
    MaxRows = 2
    MaxContextRows = 4
    MaxGroupBy = 2
    MaxFilters = 1
    None = None
    Dataset = {d1, d2}
    Fresh <- MCFresh
    MaxSeq = 4

INVARIANTS
    ContextIsAccepted

CHECK_DEADLOCK FALSE
