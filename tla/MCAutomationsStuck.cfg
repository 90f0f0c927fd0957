SPECIFICATION Spec
CONSTANTS
    m1 = m1
    h1 = h1
    h2 = h2
    None = None
    Handler = {h1, h2}
    Outcome = {"completed"}
    Manual = {m1}
    MaxDue = 1
    MaxRuns = 1
    MaxRevision = 2
    MaxCrashes = 1
SYMMETRY Handlers
INVARIANTS
    RestartFreesReservation
CHECK_DEADLOCK FALSE
