\* Two requests at a time that pay, take advances and spend them, on invoices of two customers.
SPECIFICATION Spec
CONSTANTS
    Workers = {w1, w2}
    Invoices = {i1, i2}
    Notes = {}
    Advances = {a1, a2}
    Customers = {c1, c2}
    c1 = c1
    c2 = c2
    Targets <- TwoRepairs
    Totals = {1}
    Amounts = {1}
    MaxDay = 0
    MaxNumber <- TwoVouchers
    NewYear = 1
    None = None
SYMMETRY InterchangeableCustomers
INVARIANTS
    AdvanceSpentOnce
    NothingOrphaned
PROPERTIES
    AdvanceStaysSpent
    VoucherSeriesSpec
