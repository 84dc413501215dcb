\* One run at a time over two days, one message a drain, fairly: nothing stays pending.
SPECIFICATION FairSpec
CONSTANTS
    Workers = {w1}
    Visits = {v1}
    v1 = v1
    v2 = v2
    DayOf <- ADayApart
    Term = {0, 1}
    Horizon = 2
    Leads = {1}
    BatchSize = 1
    Production = FALSE
    MaxTime = 4
    MaxNumber = 5
    MaxCrashes = 1
    None = None
PROPERTY PendingSettles
