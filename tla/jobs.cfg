\* Two requests at a time on one job, one of them perhaps the replay of a report.
SPECIFICATION Spec
CONSTANTS
    Workers = {w1, w2}
    Jobs = {j1}
    j1 = j1
    t1 = t1
    t2 = t2
    Technicians = {t1, t2}
    Crews <- SmallCrews
    Reports <- OneReport
    MaxAttempt = 1
    None = None
SYMMETRY Interchangeable
INVARIANTS
    ReportMovesOnce
    
    SignedWasFinished
PROPERTIES
    MovesUnlessOvertaken
