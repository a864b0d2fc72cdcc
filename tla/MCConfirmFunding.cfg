CONSTANTS
    Intents = {i1, i2}
    Wallets = {w1}
    Sigs = {s1, s2}
    Slots = {0, 1}
    NULL = NULL
    Lifetime = 1
    MaxNow = 0
    RuleSlots = 1
    Amount = 2
    Controlled = Controlled
    Payments <- ExactOrExtra
    Calls = {c1, c2}
    MaxFaults = 0
    MaxRollbacks = 1
SPECIFICATION ConfirmSpec
SYMMETRY Symmetry
INVARIANTS
    ConfirmTypeOK
    ReservedIsPaid
    SuccessIsRecorded
    RaceIsDecided
CHECK_DEADLOCK FALSE
