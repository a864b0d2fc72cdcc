CONSTANTS
    Intents = {i1}
    Wallets = {w1}
    Sigs = {p1, d1, d2}
    Deposits = {d1, d2}
    Slots = {0}
    NULL = NULL
    Lifetime = 1
    MaxNow = 1
    RuleSlots = 1
    Watchers = {x1, x2}
    BatchLimit = 1
    MaxPolls = 1
    Tolerance = 1
    MaxFaults = 1
    MaxRollbacks = 0
SPECIFICATION StatusSpec
INVARIANT StatusIsCoherent
PROPERTIES
    RevocationIsHonoured
    AttemptEnds
CHECK_DEADLOCK FALSE
