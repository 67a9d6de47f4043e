SPECIFICATION FairSpec
CONSTANTS
    t1 = t1
    t2 = t2
    label = label
    head = head
    extra = extra
    Threads = {t1, t2}
    Startup = Startup
    Detectors = {label, head, extra}
    Artifacts <- MCArtifacts
    Worlds <- MCWorlds
CHECK_DEADLOCK FALSE
INVARIANT ColdStartLosesNothing
PROPERTY EveryRequestScored
