SPECIFICATION RetriesSpec
CONSTANTS
    Sides = {"scans", "mobile"}
    Jobs = {j1, j2}
    Workers = {w1, w2}
    Sweepers = {s1}
    MaxAttempts = 2
    MaxCrashes = 1
    Report = rep
    Edits = {e1, e2}
    Online = Online
    NoEdit = NoEdit
    Slots = {m1, m2}
    PushTries = 2
    MaxPasses = 2
    MaxMishaps = 1
CHECK_DEADLOCK FALSE
SYMMETRY Symmetry
INVARIANTS
    RetriesTypeOK
    AttemptsExclusive
    AttemptsLimited
    EditsKept
