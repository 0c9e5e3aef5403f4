SPECIFICATION Spec

CONSTANTS
    region = region
    city = city
    day = day
    sales = sales
    cost = cost
    a = a
    b = b
    Dimension = {region, city}
    Time = {day}
    Measure = {sales, cost}
    Unknown = Unknown
    Value = {a, b, 2}
    Opaque = Opaque
    Count = {1, 2, 4}
    MaxRows = 3
    MaxContextRows = 4
    MaxGroupBy = 2
    MaxFilters = 2
    None = None
    Sample <- MCSample
    Null = Null
    DaysPerMonth = 2
    DefaultRows = 2
    Tolerance = 1
    DateNamed = {day}
    Questions <- MCQuestions
    Answers <- MCAnswers
    Tables <- MCTables

INVARIANTS
    FastPlansRun
    ClaimsAreTrue
    InsightsAreKept

CHECK_DEADLOCK FALSE
