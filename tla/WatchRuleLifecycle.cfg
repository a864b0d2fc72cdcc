CONSTANTS
    Intents = {i1, i2}
    Slots = {0, 1, 2}
    RuleSlots = 1
    Executors = {e1, e2}
    NULL = NULL
SPECIFICATION Spec
INVARIANTS
    LeasedAtMostOnce
PROPERTIES
    RetirementIsPermanent
CHECK_DEADLOCK FALSE
