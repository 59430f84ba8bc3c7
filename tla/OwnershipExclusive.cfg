SPECIFICATION Spec
SYMMETRY ProcSymmetry
CONSTANTS
    Procs = {p1, p2}
    Nobody = Nobody
    HasProc = TRUE
    Wedges = FALSE
    CloseUnlinks = FALSE
INVARIANT ExclusiveClaim
CHECK_DEADLOCK FALSE
