CONSTANTS
    NULL = NULL
    U64Max = 7
    DEFAULT_COMPUTE_UNITS = 20
    MIN_UNITS = 1
    MAX_UNITS = 140
    Canonical <- MCCanonical
    Requests = {r1}
    Tasks = {t1, t2}
    Roles = {"risk", "treasury"}
    Operators <- MCOperators
    RoleOf <- MCRoleOf
    Proposals <- MCProposals
    GlobalPolicy <- MCGlobalPolicy
    SessionRules <- MCSessionRules
    Fees = {0, 3}
    Usage <- MCUsage
    Spends = {0, 2}
    Lease = 1
    MaxAge = 1
    Retention = 2
    MaxNow = 2
    MaxCrashes = 1
SYMMETRY TasksAlike
SPECIFICATION ReviewSpec
INVARIANTS
    ReviewTypeOK
    SignedAsReviewed
    SignedAsApproved
    SignedOnce
    RecoveryIsWhole
CHECK_DEADLOCK FALSE
