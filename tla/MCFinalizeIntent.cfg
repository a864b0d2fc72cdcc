CONSTANTS
    Intents <- WishIds
    Hashes <- WishHashes
    Proposals <- Wishes
    MaxU64 = 2000000000
    Wallets = {w1, w2}
    Sigs = {s1}
    Slots = {0, 1}
    NULL = NULL
    Lifetime = 1
    MaxNow = 1
    RuleSlots = 1
    Servers = {v1, v2}
    Drafts = {d1, d2}
    Requests = {r1, r2}
    LegacyRules <- LegacyIds
    MaxCrashes = 1
SPECIFICATION FinalizeSpec
SYMMETRY Symmetry
INVARIANTS
    FinalizeTypeOK
    DraftConsumedOnce
    OfferIsBacked
PROPERTIES
    SidecarIsAppendOnly
    OfferIsTimely
CHECK_DEADLOCK FALSE
