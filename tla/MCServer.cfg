\* Calls, server requests and the MCP restart of the app-server client, over
\* crashes, aborts, restarts and close.
SPECIFICATION MCSpec
CONSTANTS
    c1 = c1
    c2 = c2
    q1 = q1
    q2 = q2
    None = None
    Call = {c1, c2}
    Token = {q1, q2}
    EnableMcp = TRUE
    MaxPending = 1
    MaxCallbacks = 2
    MaxFaults = 2
INVARIANTS
    TypeOK
    NothingLeftBehind
    AnswersExact
    MaskExact
PROPERTIES
    CallbackFenced
    GenerationContract
    Recovers
CHECK_DEADLOCK FALSE
