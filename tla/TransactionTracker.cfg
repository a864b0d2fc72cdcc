CONSTANTS
    NULL = NULL
    Sigs = {s1}
    DROPPED_GRACE_BLOCKS = 1
    EXPIRY_TRACKING_BUFFER = 1
    EndpointCount = 1
    WriteEndpoints = {1}
    FailureThreshold = 1
    RecoveryInterval = 1
    MAX_BATCH_SIZE = 1
    MaxRetries = 1
    Validity = 1
    MaxAge = 2
    Lag = 1
    MaxHeight = 4
    MaxForks = 1
    MaxCrashes = 1
SPECIFICATION TrackerSpec
INVARIANTS
    TrackerTypeOK
    FinalizedIsTrue
    EventsAgree
PROPERTIES
    OutcomeIsKept
    TrackingEnds
