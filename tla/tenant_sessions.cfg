\* Two requests at a time on two sessions and three tokens, the password replaced once.
SPECIFICATION Spec
CONSTANTS
    Workers = {w1, w2}
    Sessions = {s1, s2}
    Tokens = {t1, t2, t3}
    MaxPassword = 1
    None = None
SYMMETRY Interchangeable
INVARIANTS
    TypeOK
    
    OneTokenPerSession
    SignedOutStaysOut
    
