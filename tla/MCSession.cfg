SPECIFICATION FairSpec
CONSTANTS
    MAX_ATTEMPTS = 2
    MAX_OVERLOAD_ATTEMPTS = 3
    MAX_LAUNCH_ATTEMPTS = 1
    QueryIds = {q1, q2, q3}
    NoQuery = NoQuery
    MaxPolls = 1
    MaxRestarts = 1
    RetryCap = 3
    Deletes = TRUE
INVARIANTS
    FileMatchesPending
    ResendsBounded
    NoOrphanCli
    HangIsAnnounced
PROPERTIES
    ParkedTurnIsSettled
    SilentTurnIsNoticed
    StatusWatchEnds
CHECK_DEADLOCK FALSE
