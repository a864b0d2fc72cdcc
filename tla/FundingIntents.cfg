CONSTANTS
    Intents = {i1, i2}
    Sigs = {s1, s2}
    Wallets = {w1}
    Slots = {1}
    NULL = NULL
    Lifetime = 1
    MaxNow = 3
SPECIFICATION FundingSpec
INVARIANTS
    FundingTypeOK
    FundedHasEvidence
    SettledOnce
    RefundOnlyAfterDeadline
PROPERTIES
    TerminalIsFinal
    EvidenceIsFrozen
    CustodyContract
CHECK_DEADLOCK FALSE
