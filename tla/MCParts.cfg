SPECIFICATION PartsSpec
CONSTANTS
    Names <- SomeNames
    Placeholder <- FirstName
    NoName = NoName
    MAX_PAST_TITLES = 1
    OPENING_EVENTS = 1
    SLICE_EVENTS = 2
    RECENT_EVENTS = 3
    MaxEvents = 6
    MaxLooks = 5
    MaxClears = 1
    Reqs = {r1, r2}
    Questions = {r2}
    REPLAYED = 2
    MAX_ANNOUNCED = 1
    MaxDeaths = 1
    HomeDir = home
    NamedDirs = {n1, n2}
    Folders = {f1, f2}
    Logins = {ann, bob}
    MaxTurns = 3
    MaxChanges = 3
    SetupHome = home
    SetupNamed = {n1, n2}
    Entries = {e1, e2}
    MaxWrites = 3
    MaxShares = 2
    Files = {1, 2}
    ChunksOf <- ChunksOfFile
    MaxClicks = 3
    MaxBlocks = 4
    MaxPieces = 2
    Sids = {s1, s2}
    MaxEdits = 3
    MaxCrashes = 2
    Kinds = {k1, k2, k3}
    MAX_ATTEMPTS = 2
    MAX_WAIT = 2
    BACKOFF = 1
    MaxTime = 3
    MaxSpent = 3
    Procs = {p1, p2}
    Nobody = Nobody
    HasProc = TRUE
    Wedges = FALSE
    CloseUnlinks = TRUE
INVARIANTS
    UserTitleIsKept
    NamesFollowTheTalk
    TranscriptIsTrue
    PinsAreWhatWaits
    
    ResumesTheWhole
    SharingLosesNothing
    AttachmentGoesOnce
    PanelShowsTheTurn
    AnsweredIsDurable
    RefusedTurnComesBack
    NoStrayKill
    LoneStartSettles
CHECK_DEADLOCK FALSE
