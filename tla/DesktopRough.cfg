SPECIFICATION Spec
CONSTANTS
    Records = {r1}
    Ops = {o1, o2, o3}
    Web = Web
    NoOp = NoOp
    Devices = {d1}
    Runs = {s1, s2}
    MaxAttempts = 2
    MaxPasses = 2
    PullLimit = 1
    Resolutions = {"kept_local", "kept_server"}
    MaxLosses = 1
    MaxCrashes = 1
    MaxWeb = 0
CHECK_DEADLOCK FALSE
SYMMETRY Symmetry
INVARIANTS
    NothingDropped
PROPERTIES
    UsesLedger
