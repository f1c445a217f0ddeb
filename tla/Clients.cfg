SPECIFICATION ClientsSpec
CONSTANTS
    Sides = {"session", "mode", "model", "update", "generation", "chat", "meeting", "wizard",
             "console", "login", "passkey", "voice"}
    Accounts = {a1, a2}
    NoAccount = NoAccount
    Logins = {l1, l2}
    Keychain = TRUE
    MaxTries = 2
    MaxForgets = 2
    Reconciles = {r1, r2}
    MaxTimers = 3
    MaxActive = 1
    Downloads = {d1, d2}
    Blocks = 2
    MaxMounts = 1
    MaxLoads = 1
    NoDownload = NoDownload
    MaxVersion = 3
    Calls = {c1, c2}
    Dives = {v1}
    Categories = {k1}
    None = None
    Native = TRUE
    Exchanges = {x1, x2}
    NumProviders = 2
    Panels = {1, 2, 3}
    Later = {3}
    Admins = {1}
    MaxActs = 3
    Assets = {s1}
    Made = made
    NumClasses = 2
    NoAsset = NoAsset
    MaxPolls = 2
    MaxRuns = 2
    Owned = {o1, o2}
    NoOwned = NoOwned
    Clients = {g1, g2}
    Challenges = {ch1, ch2}
    NoChallenge = NoChallenge
    MaxFailures = 2
    MaxSessions = 2
    Tickets = {t1}
    Polls = {b1, b2}
    NoTicket = NoTicket
    Ears = {e1, e2}
    Voices = {u1}
    Turns = {t9}
    MaxStarts = 1
    NoEar = NoEar
CHECK_DEADLOCK FALSE
SYMMETRY Symmetry
INVARIANTS
    ClientsTypeOK
    DebtKept
    AutoServed
    ModelIntact
    UpdateSafe
    SpinnerHonest
    OneVoice
    MeshComplete
    PagesFit
    ChallengeOnce
    OneLoginPerApproval
    VoiceHonest
