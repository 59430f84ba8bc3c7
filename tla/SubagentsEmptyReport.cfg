SPECIFICATION SubagentsSpec
CONSTANTS
    Calls = {a1, a2}
    Tasks = {t1, t2}
PROPERTIES
    EndedTaskLeaves
CHECK_DEADLOCK FALSE
