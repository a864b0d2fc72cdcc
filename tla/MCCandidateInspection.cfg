CONSTANTS
    NULL = NULL
    HalfBits = 4
    SOLEND_WAD = 20
    Hundred = 4
    BPS_WAD = 2
    APR_BPS_SANITY_MAX = 15
    MAX_STALENESS = 1
    MAX_THRESHOLD_BPS = 10
    Candidates <- MCCandidates
    Reserves <- MCReserves
    Chains <- MCChains
    Sources <- MCSources
    Collaterals <- MCCollaterals
    Lag = 1
    MaxSlot = 4
    MaxNow = 1
    MaxChanges = 1
SPECIFICATION InspectionSpec
INVARIANTS
    ReadyIsRight
    RateIsSound
CHECK_DEADLOCK FALSE
