SPECIFICATION Spec
CONSTANTS
    m1 = m1
    h1 = h1
    h2 = h2
    None = None
    Handler = {h1, h2}
    Outcome = {"completed"}
    Manual = {m1}
    MaxDue = 2
    MaxRuns = 1
    MaxRevision = 2
    MaxCrashes = 1
SYMMETRY Handlers
INVARIANTS
    TypeOK
    FinishedIsOver
    OneTurn
PROPERTIES
    OutcomeStays
CHECK_DEADLOCK FALSE
