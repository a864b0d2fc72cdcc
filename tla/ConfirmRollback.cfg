CONSTANTS
    Intents = {i1}
    Wallets = {w1}
    Sigs = {s1}
    Slots = {0}
    NULL = NULL
    Lifetime = 1
    MaxNow = 0
    RuleSlots = 1
    Amount = 2
    Controlled = Controlled
    Payments <- ExactOrExtra
    Calls = {c1}
    MaxFaults = 0
    MaxRollbacks = 1
SPECIFICATION ConfirmSpec
INVARIANTS
    ReservedIsFinal
CHECK_DEADLOCK FALSE
