SPECIFICATION Spec
CONSTANTS
    q1 = q1
    q2 = q2
    q3 = q3
    q4 = q4
    r1 = r1
    redis = redis
    MetaThreshold = 6
    HighThreshold = 6
    MediumThreshold = 3
    GuardrailMode = "off"
    JudgeMayClearToLow = TRUE
    Requests = {q1, q2, q3, q4}
    Prompts = {"plain", "vetoed"}
    Texts = {"plain", "vetoed"}
    Replicas = {r1}
    Stores = {redis}
    HomeOf <- OneReplica
    TextOf <- MCTextOf
    Evidence <- MCEvidence
    Similarities <- JustOn
    MaxEntries = 2
    Disturbed = {}
    StoreOf <- SharedStore
    Workers = 1
    StoreMayFail = FALSE
    ServeMayFail = FALSE
CHECK_DEADLOCK FALSE
INVARIANTS
    ServedIsNear
