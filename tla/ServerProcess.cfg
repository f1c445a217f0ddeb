SPECIFICATION ServerSpec
CONSTANTS
    Sides = {"findings", "gateway", "accounts", "ranges", "gates", "hardware", "presence"}
    Scans = {n1}
    Runs = {r1, r2}
    Engines = {e1, e2}
    Keys = {k1}
    Checks = {v1}
    NoFinding = NoFinding
    Moves = {"MITIGATED"}
    MaxDecisions = 1
    BciCalls = {b1, b2}
    MaxChanges = 2
    People = {p1, p2}
    Codes = {u1, u2, u3}
    AuthReqs = {q1}
    NoUser = NoUser
    MovedTables = {"analyses"}
    OtherTables = {}
    MaxActions = 2
    NumRanges = 5
    Window = 2
    Computations = {w1, w2, w3}
    MaxWorkers = 1
    Uploads = {x1, x2, x3}
    MaxUploads = 1
    HwWorkers = {i1, i2}
    HwJobs = {h1, h2}
    HwMaxAttempts = 2
    BatchSize = 2
    MaxSections = 1
    Sockets = {t1, t2}
    Nicknames = {ann, bob}
    AdminNames = {ann}
    NoName = NoName
    MaxBlocks = 1
    NoSocket = NoSocket
CHECK_DEADLOCK FALSE
SYMMETRY Symmetry
INVARIANTS
    ServerTypeOK
    NeverOverstated
    RoleInStep
    HistoryFollows
    PoolExact
    NoDoubleWork
    NoGhosts
