CONSTANTS
    Intents <- WishIds
    Hashes <- WishHashes
    Proposals <- Wishes
    MaxU64 = 2000000000
    Wallets = {w1}
    Sigs = {s1}
    Slots = {0, 1}
    NULL = NULL
    Lifetime = 1
    MaxNow = 0
    RuleSlots = 1
    Servers = {v1}
    Drafts = {d1, d2}
    Requests = {r1, r2}
    LegacyRules = {}
    MaxCrashes = 1
SPECIFICATION FinalizeSpec
PROPERTIES
    OfferIsExecutable
CHECK_DEADLOCK FALSE
