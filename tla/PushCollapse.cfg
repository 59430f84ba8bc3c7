SPECIFICATION PermissionsSpec
CONSTANTS
    Reqs = {r1, r2}
    Questions = {r2}
    REPLAYED = 2
    MAX_ANNOUNCED = 2
    MaxDeaths = 1
INVARIANTS EveryNoticeComesDown
CHECK_DEADLOCK FALSE
