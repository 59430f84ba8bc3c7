SPECIFICATION RecordsSpec
SYMMETRY RecordsSymmetry
CONSTANTS
    N = 4
    login1 = login1
    login2 = login2
    good = good
    s1 = s1
    s2 = s2
    Logins <- MCLogins
    LoginOf <- MCLoginOf
    Sessions <- MCSessions
    WorkingLogins <- MCWorking
    SWITCH_COOLDOWN_MS = 2
    SWITCH_SETTLE_MS = 1
    MIN_WAIT_MS = 2
    MAX_WAIT_MS = 3
    STALL_RETRY_MS = 2
    MAX_ATTEMPTS = 5
    MaxDisturbances = 1
    MAX_TAIL = 2
    ROTATE_THRESHOLD = 2
    MsgIds = {m1, m2}
    NoMsg = NoMsg
    Faults = TRUE
    MaxLogEvents = 6
    MaxRestarts = 2
    REPLAY_LIMIT = 2
    MaxReplayEvents = 4
    MaxConnects = 2
    MaxOpens = 2
    MaxAsked = 2
INVARIANTS
    BlameIsRight
    CutTurnsAreQueued
    SearchIsShort
    ReadsAreExact
    RetryIsRecordedOnce
    FaultCostsOneEvent
    PanelIsExactUnlessRaced
    QuietPanelFollows
PROPERTIES
    SwitchIsJustified
CHECK_DEADLOCK FALSE
