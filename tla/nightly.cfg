\* Two runs at a time of two visits and their reminders.
SPECIFICATION Spec
CONSTANTS
    Workers = {w1, w2}
    Visits = {v1, v2}
    v1 = v1
    v2 = v2
    DayOf <- ADayApart
    Term = {0, 1}
    Horizon = 2
    Leads = {1}
    BatchSize = 5
    Production = FALSE
    MaxTime = 1
    MaxNumber = 3
    MaxCrashes = 0
    None = None
SYMMETRY Interchangeable
INVARIANTS
    VisitOnBoardOnce
    OutboxIsTrue
PROPERTIES
    JobSeriesSpec
