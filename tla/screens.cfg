\* One billing request and one screen at a time: what the checks of each handler guarantee on
\* their own, and what is read while they run.
SPECIFICATION ScreensSpec
CONSTANTS
    Workers = {w1}
    Invoices = {i1, i2}
    Notes = {n1}
    Advances = {}
    Customers = {c1}
    c1 = c1
    c2 = c2
    Targets <- OneRepair
    Totals = {2}
    Amounts = {1}
    MaxDay = 1
    MaxNumber <- TwoInvoices
    NewYear = 2
    None = None
    Registered = {}
    Period = {0}
    LargeBill = 2
SYMMETRY Interchangeable
INVARIANTS
    DatesFollowNumbers
    ShownIsOwed
    PaperFoots
    

    
