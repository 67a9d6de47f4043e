SPECIFICATION Spec
SYMMETRY MCSymmetry
CONSTANTS
    p1 = p1
    p2 = p2
    o1 = o1
    o2 = o2
    admin = admin
    user = user
    Procs = {p1, p2}
    Operators = {o1, o2}
    Keys = {admin, user}
    NoKey = NoKey
    Tenants = {"default", "acme"}
    DefaultTenant = "default"
    TenantOf <- MCTenantOf
    Capabilities = {"GENERAL", "ELEVATED", "INTERNAL"}
    Grants = {"GENERAL"}
    RiskLevels = {"HIGH", "MEDIUM"}
    FirstGrants <- MCFirstGrants
    TenantFiles <- MCTenantFiles
    Candidates <- MCCandidates
    FirstFiles <- MCFirstFiles
    AuthRequired = FALSE
    MaxOps = 2
CHECK_DEADLOCK FALSE
INVARIANT StoresSettled
INVARIANT RollbackTargetExact
INVARIANT DecisionsFromFiles
INVARIANT KeyFileHoldsGrants
PROPERTY NoKeyIsForgotten
