\* Two requests at a time on the invoice register, billing a contract over 31 March,
\* and crediting what was issued.
SPECIFICATION Spec
CONSTANTS
    Workers = {w1, w2}
    Invoices = {i1, i2}
    Notes = {n1}
    Advances = {}
    Customers = {c1}
    c1 = c1
    c2 = c2
    Targets <- Supplies
    Totals = {1}
    Amounts = {}
    MaxDay = 1
    MaxNumber <- TwoEach
    NewYear = 1
    None = None
SYMMETRY Interchangeable
INVARIANTS
    TypeOK
    NothingBilledTwice
    NumbersUsedOnce
    NumberInYearOfDate
    IssuedIsComplete
PROPERTIES
    NumberKept
    InvoiceSeriesSpec
