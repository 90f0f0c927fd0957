SPECIFICATION MCSpec
CONSTANTS
    r1 = r1
    r2 = r2
    t1 = t1
    t2 = t2
    a = a
    b = b
    None = None
    Req = {r1, r2}
    Thread = {t1, t2}
    ThreadOf <- TwoChats
    Modes = {"queue", "auto"}
    Prepared = {r1}
    Steered = {r1}
    Cancelled = {r1, r2}
    Budgeted = {r1}
    Account = {a}
    MaxQueued = 1
    MaxGen = 2
    MaxStops = 1
INVARIANTS
    NativeTurnOwned
    CompletedIsReal
    LeaseOwned
PROPERTIES
    TurnStartedOnce
    EveryRunEnds
