SPECIFICATION Spec
CONSTANTS
    t1 = t1
    t2 = t2
    label = label
    head = head
    extra = extra
    Threads = {t1, t2}
    Startup = Startup
    Detectors = {label, head, extra}
    Artifacts <- MCArtifacts
    Worlds <- MCTampered
CHECK_DEADLOCK FALSE
INVARIANT OnlyVerifiedScores
