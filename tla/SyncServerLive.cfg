SPECIFICATION FairSpec
CONSTANTS
    Records = {r1, r2}
    Ops = {o1}
    Conns = {c1, c2}
    Devices = {d1}
    Web = Web
    NoOp = NoOp
    PullLimit = 1
    MaxBase = 2
    MaxRevision = 4
CHECK_DEADLOCK FALSE
INVARIANTS
    UniqueRevisions
PROPERTIES
    PushesEnd
    PullSkipsNothing
