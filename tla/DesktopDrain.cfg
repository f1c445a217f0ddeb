SPECIFICATION DrainSpec
CONSTANTS
    Records = {1, 2}
    Ops = {1, 2, 3}
    Web = Web
    NoOp = NoOp
    Devices = {d1}
    Runs = {s1}
    MaxAttempts = 2
    MaxPasses = 2
    PullLimit = 2
    Resolutions = {"kept_local"}
    MaxLosses = 2
    MaxCrashes = 0
    MaxWeb = 0
CHECK_DEADLOCK FALSE
PROPERTIES
    QueueDrains
