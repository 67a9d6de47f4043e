SPECIFICATION LoopSpec
CONSTANTS
    q1 = q1
    q2 = q2
    odd = odd
    acme = acme
    Requests = {q1, q2, odd}
    Tenants = {acme}
    TenantOf <- MCTenantOf
    Admissible = {q1, q2, odd}
    Chosen <- MCChosen
    Default = "ollama"
    Fallbacks <- MCFallbacks
    Known = {"ollama", "anthropic"}
    Policy <- MCPolicy
    Quota <- MCQuota
    MaxTokens = 1
    PoolSize = 1
    Worlds <- MCWorlds
INVARIANT TypeOK
INVARIANT NotCalledIsTrue
INVARIANT CountsDelivered
PROPERTY KeepsContract
PROPERTY OverrunBounded
PROPERTY EveryRequestAnswered
