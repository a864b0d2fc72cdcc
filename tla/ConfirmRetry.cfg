CONSTANTS
    Intents = {i1}
    Wallets = {w1}
    Sigs = {s1, s2}
    Slots = {0}
    NULL = NULL
    Lifetime = 1
    MaxNow = 0
    RuleSlots = 1
    Amount = 2
    Controlled = Controlled
    Payments <- ExactOrShort
    Calls = {c1, c2}
    MaxFaults = 2
    MaxRollbacks = 0
SPECIFICATION FairConfirmSpec
PROPERTIES
    FinalPaymentIsReserved
CHECK_DEADLOCK FALSE
