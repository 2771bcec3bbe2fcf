SPECIFICATION Spec
CONSTANTS
    None = None
    t1 = t1
    p1 = p1
    Threads = {t1}
    Panes = {p1}
    Drawings <- MCDrawings
    MaxBatches = 3
    MaxQueries = 1
    MaxFailures = 0
    Careful = FALSE
INVARIANT DraftKept
CHECK_DEADLOCK FALSE
