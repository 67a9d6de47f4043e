SPECIFICATION Spec
SYMMETRY MCSymmetry
CONSTANTS
    r1 = r1
    r2 = r2
    key = key
    peer = peer
    Replicas = {r1, r2}
    Callers = {key, peer}
    KeyHolders = {key}
    Override <- MCOverride
    NoOverride = NoOverride
    AuthenticatedRpm = 30
    AnonymousRpm = 60
    BurstSeconds = 1
    TtlFloor = 3
    MaxTracked = 1
    Watched = {key}
    MaxFaults = 3
    MaxTime = 4
INVARIANT WindowBounded
INVARIANT RetryAfterHonest
