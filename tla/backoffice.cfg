\* Every desk of the office, one per behaviour.
SPECIFICATION Spec
CONSTANTS
    Workers = {w1, w2}
    None = None
    a1 = a1
    a2 = a2
    b1 = b1
    b2 = b2
    Grants = {g1}
    Defaults = 3
    TrialEnds = 1
    MaxTime = 2
    Accounts = {u1}
    MaxAccount = 1
    MaxAddress = 2
    Window = 1
    MaxHits = 3
    Address = Address
    Branches = {north}
    Phones = {p1}
    MaxNumber = 2
    SalesLeads = {l1}
    SalesCustomers = {a1, a2}
    ServedLeads = {a1, a2}
    ServedCustomers = {c1}
    Contracts = {k1}
    Bills = {a1, a2}
    Amounts = {2, 4}
    Percents = {18}
    Reverse = {FALSE}
    Vendors <- OneVendor
    Asked = {"194C", "194J"}
    YearLength = 1
    SingleLimit = 3
    AnnualLimit = 4
    AnnualLimitJ = 5
    ShortLimit = 0
    LongLimit = 1
    BillTime = 1
    Parts = {s1}
    Places = {b1, b2}
    Rows = {a1, a2}
    Quantities = {1}
    Levels = {1}
    Shown = 1
    Starts <- TwoStarts
    Terms = {365}
    Cycles = {0, 1}
    Visits = {a1, a2}
    MaxBills = 1
    Dates <- ThreeDates
SYMMETRY Interchangeable
CHECK_DEADLOCK FALSE
INVARIANTS
    TypeOK
    ControlPlaneHolds
    BudgetIsFailures
    LeadsBecomeCustomers
    
    
    StockConserved
    PeriodsAreBillable
