SPECIFICATION MCSpec
CONSTANTS
    r1 = r1
    r2 = r2
    t1 = t1
    t2 = t2
    a = a
    b = b
    None = None
    Req = {r1, r2}
    Thread = {t1, t2}
    ThreadOf <- OneChat
    Modes = {"queue"}
    Prepared = {r1, r2}
    Steered = {}
    Cancelled = {r1, r2}
    Budgeted = {r1, r2}
    Account = {a, b}
    MaxQueued = 1
    MaxGen = 1
    MaxStops = 1
SYMMETRY Swap
INVARIANTS
    TypeOK
    QueueKept
PROPERTIES
    StartFence
