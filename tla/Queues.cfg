SPECIFICATION QueuesFairSpec
CONSTANTS
    Sides = {"scans", "hardware", "login", "gates", "voice"}
    Jobs = {j1}
    Workers = {w1, w2}
    Sweepers = {s1}
    MaxAttempts = 2
    MaxCrashes = 1
    HwWorkers = {i1, i2}
    HwJobs = {h1}
    HwMaxAttempts = 2
    BatchSize = 2
    MaxSections = 1
    Tickets = {t1}
    Polls = {p1, p2}
    NoTicket = NoTicket
    Computations = {q1, q2}
    MaxWorkers = 1
    Uploads = {u1}
    MaxUploads = 1
    Ears = {e1, e2}
    Voices = {v1}
    Turns = {t9}
    MaxStarts = 1
    NoEar = NoEar
CHECK_DEADLOCK FALSE
PROPERTIES
    JobsEnd
    NobodyWaitsForEver
