SPECIFICATION Spec
CONSTANTS
    Records = {r1, r2}
    Ops = {o1, o2, o3}
    Web = Web
    NoOp = NoOp
    Devices = {d1}
    Runs = {s1}
    MaxAttempts = 2
    MaxPasses = 2
    PullLimit = 2
    Resolutions = {"kept_local"}
    MaxLosses = 1
    MaxCrashes = 0
    MaxWeb = 0
CHECK_DEADLOCK FALSE
SYMMETRY Symmetry
INVARIANTS
    InFlightOwned
