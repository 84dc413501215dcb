\* Two owners change each other at the team screen; nobody is at the doors.
SPECIFICATION Spec
CONSTANTS
    Workers = {w1, w2}
    Managers = {w1, w2}
    Users = {u1, u2}
    Owner = u1
    Visitors = {}
    u1 = u1
    u2 = u2
    Tokens = {}
    MaxCode = 0
    MaxAttempts = 1
    MaxPassword = 0
    None = None
INVARIANT FirmKeepsOwner
