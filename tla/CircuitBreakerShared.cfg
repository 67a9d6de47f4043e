SPECIFICATION TickSpec
CONSTANTS
    r1 = r1
    r2 = r2
    c1 = c1
    c2 = c2
    c3 = c3
    Replicas = {r1, r2}
    Callers = {c1, c2, c3}
    Home <- MCHome
    Unchecked = {c2}
    FailureThreshold = 2
    Cooldown = 1
    MinTtl = 1
    RedisMayFail = FALSE
    ClientAtStart = {TRUE}
INVARIANTS
    OpenHasCount
    OpensOnlyAfterStreak
PROPERTIES
    NoCheckedCallWhileCooling
    StaysOpenForCooldown
    NeverWedgedOpen
