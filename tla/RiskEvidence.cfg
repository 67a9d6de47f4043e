SPECIFICATION EvidenceSpec
CONSTANTS
    MetaThreshold = 1
    HighThreshold = 4
    MediumThreshold = 2
    GuardrailMode = "enforcing"
    JudgeMayClearToLow = TRUE
    MaxScore = 4
    FusionBands <- MCBands
CHECK_DEADLOCK FALSE
INVARIANTS
    SuspicionIsKept
    OutageIsStrictest
PROPERTIES
    Monotone
