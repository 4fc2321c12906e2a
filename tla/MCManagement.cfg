CONSTANTS
    NoPolicy = NoPolicy
    NoRead = NoRead
    Capabilities = {"tools", "parallel_tools", "reasoning"}
    Profile <- Profiles
    Listed <- Catalog
    ScheduleSlots = 2
    AccountPools = {"e"}
    ProviderHost <- FixedHosts
    MaxRouteAttempts = 2
    Versions = {"v1", "v2"}
    Scopes <- AllScopes
    MaxRedirects = 5
    MaxAttempts = 2
    MaxWeight = 3
    LoginVersions = {"v1", "v2"}
    SessionTtl = 1
    MaxLoginTime = 2
    MaxChallenge = 2
    MaxRevisions = 2
    NoSession = NoSession
SPECIFICATION Spec
INVARIANTS
    OnlyContentRefused
    
    
    EtagCurrent
    
CHECK_DEADLOCK FALSE
