SPECIFICATION Spec
CONSTANTS
    Records = {r1}
    Ops = {o1, o2, o3, o4}
    Web = Web
    NoOp = NoOp
    Devices = {d1, d2}
    Runs = {s1}
    MaxAttempts = 2
    MaxPasses = 3
    PullLimit = 2
    Resolutions = {"kept_local"}
    MaxLosses = 0
    MaxCrashes = 0
    MaxWeb = 1
CHECK_DEADLOCK FALSE
SYMMETRY Symmetry
INVARIANTS
    TypeOK
    InOrder
    Reconciled
