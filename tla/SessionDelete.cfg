SPECIFICATION Spec
CONSTANTS
    MAX_ATTEMPTS = 1
    MAX_OVERLOAD_ATTEMPTS = 2
    MAX_LAUNCH_ATTEMPTS = 1
    QueryIds = {q1, q2}
    NoQuery = NoQuery
    MaxPolls = 1
    MaxRestarts = 0
    RetryCap = 1
    Deletes = TRUE
INVARIANT DeletedStaysDown
CHECK_DEADLOCK FALSE
