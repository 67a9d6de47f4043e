SPECIFICATION FairSpec
CONSTANTS
    s1 = s1
    ta = ta
    tb = tb
    past = past
    Calls = {1, 2}
    Inputs <- MCInputs
    ToolSpecs <- MCToolSpecs
    Sessions = {s1}
    Lifetime = 0
    MaxCrashes = 1
    Settings <- MCSettings
    OldLines <- MCOldLines
    Tenants = {ta, tb}
    Unset = Unset
    Everyone = Everyone
    Chunk = 2
    MaxChunks = 2
CHECK_DEADLOCK FALSE
INVARIANTS MigrationSkipsNothing ReadsStayInScope ToldIsTrue AnsweredIsTraceable
PROPERTY StreamsEnd
