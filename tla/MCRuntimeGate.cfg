SPECIFICATION Spec
CONSTANTS
    Lease = {l1, l2, l3}
    Owner = {o1, o2, o3}
    NoLease = NoLease
    MaxActiveTurns = 1
    MaxQueuedPrompts = 2
SYMMETRY Symmetry
INVARIANTS
    TypeOK
    AccountingExact
    MutationExclusive
    WorkConserving
    NoLostWakeup
PROPERTIES
    ActiveNeverExpires
CHECK_DEADLOCK FALSE
