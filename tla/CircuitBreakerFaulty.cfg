SPECIFICATION FairSpec
CONSTANTS
    r1 = r1
    r2 = r2
    c1 = c1
    c2 = c2
    c3 = c3
    Replicas = {r1}
    Callers = {c1, c2}
    Home <- MCHomeSingle
    Unchecked = {}
    FailureThreshold = 2
    Cooldown = 2
    MinTtl = 1
    RedisMayFail = TRUE
    ClientAtStart = {TRUE, FALSE}
INVARIANTS
    OpenHasCount
    LocalOpenHasCount
PROPERTIES
    LocalNeverWedged
