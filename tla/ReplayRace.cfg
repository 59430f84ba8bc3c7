SPECIFICATION ReplaySpec
CONSTANTS
    REPLAY_LIMIT = 4
    MaxReplayEvents = 4
    MaxConnects = 2
    MaxOpens = 1
    MaxAsked = 2
INVARIANTS
    PanelIsExact
CHECK_DEADLOCK FALSE
