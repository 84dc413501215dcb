\* Two requests at a time, an owner and one more person, two tokens, one code.
SPECIFICATION Spec
CONSTANTS
    Workers = {w1, w2}
    Users = {u1, u2}
    Owner = u1
    Visitors = {u2}
    Managers = {w1}
    w1 = w1
    w2 = w2
    u1 = u1
    u2 = u2
    Tokens = {t1, t2}
    MaxCode = 1
    MaxAttempts = 1
    MaxPassword = 1
    None = None
SYMMETRY Interchangeable
INVARIANTS
    SpentOnce
    WithdrawnIsOut
    ChangeEndsOthers
