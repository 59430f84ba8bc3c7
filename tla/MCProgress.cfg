SPECIFICATION ProgressSpec
CONSTANTS
    Chats = {c1, c2}
    Texts = {1, 2}
    Events = {3}
    MAX_MISSED = 2
    MaxSends = 2
    Calls = {a1, a2}
    Tasks = {t1, t2}
    FileSizes = {0, 3, 6}
    MAX_HTTP_CHUNK = 2
    MAX_UPLOAD_BYTES = 4
    MaxLost = 3
    LoginIds = {l1, l2}
    MaxSubmits = 2
    Pids = {d, c, a, b}
    Self = d
    CodeServer = {c}
    Foreign = {b}
    Threads = {1, 2}
    STALE = 3
    MaxInFlight = 2
    Procs = {p1, p2}
    Nobody = Nobody
    HasProc = FALSE
    Wedges = TRUE
    CloseUnlinks = TRUE
    Windows = {1, 2}
    Versions = {1, 2, 3}
    ProtocolOf <- ProtocolOfBuild
    FirstBuild <- BuildAtFirst
    CONNECT_ATTEMPTS = 2
    MaxFailures = 1
INVARIANTS
    UpgradeIsCareful
PROPERTIES
    KeepsTheStream
    PhoneIsServed
    SilentAgentLeaves
    UploadSucceeds
    SignInEnds
    OnlyTheWayInIsProtected
    BorderIsRight
    DaemonsConverge
    LostSocketIsRebound
    ConvergesOnNewest
CHECK_DEADLOCK FALSE
