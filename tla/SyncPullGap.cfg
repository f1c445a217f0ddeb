SPECIFICATION Spec
CONSTANTS
    Records = {r1, r2}
    Ops = {o1, o2}
    Conns = {c1, c2}
    Devices = {d1}
    Web = Web
    NoOp = NoOp
    PullLimit = 1
    MaxBase = 2
    MaxRevision = 4
CHECK_DEADLOCK FALSE
SYMMETRY Symmetry
INVARIANTS
    CursorComplete
