CONSTANTS
    Intents = {i1, i2}
    Wallets = {w1}
    Sigs = {p1, d1, d2}
    Deposits = {d1, d2}
    Slots = {0, 1}
    NULL = NULL
    Lifetime = 1
    MaxNow = 1
    RuleSlots = 1
    Watchers = {x1, x2}
    BatchLimit = 2
    MaxPolls = 2
    Tolerance = 1
    MaxFaults = 1
    MaxRollbacks = 1
SPECIFICATION ExecutorSpec
SYMMETRY Symmetry
INVARIANTS
    ExecutorTypeOK
    AtMostOneBroadcast
    ReservedIsUnspent
    LeaseIsExclusive
    OutcomeIsTrue
    SplitStateIsOneSided
CHECK_DEADLOCK FALSE
