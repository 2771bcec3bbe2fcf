SPECIFICATION Spec
CONSTANTS
    None = None
    t1 = t1
    t2 = t2
    p1 = p1
    p2 = p2
    Threads = {t1, t2}
    Panes = {p1, p2}
    Drawings <- MCDrawings
    MaxBatches = 3
    MaxQueries = 2
    MaxFailures = 1
    Careful = TRUE
SYMMETRY MCSymmetry
CONSTRAINT MCBudget
INVARIANTS ScreenCurrent RepliesExact DrawnInPlace
PROPERTY GivenUpWithCause
CHECK_DEADLOCK FALSE
