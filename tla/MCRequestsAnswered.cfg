CONSTANTS
    Parts = {"attempts", "http", "web", "console"}
    r1 = r1
    r2 = r2
    b1 = b1
    b2 = b2
    e1 = e1
    e2 = e2
    Requests = {r1, r2}
    Bindings = {b1}
    Endpoint <- OneEndpoint
    Limit <- OneLease
    MaxAttempts = 2
    Bootstrap = 1
    Extra = 0
    Grace = 1
    Cooldown = 2
    RetryAfter = {1}
    TimerSlack = 0
    MaxTime = 2
    NoBinding = NoBinding
    Width = 4
    DefaultDenied <- DeniedNetworks
    Exceptionable <- PrivateNetworks
    Metadata <- TheMetadata
    MaxRedirects = 2
    EgressPolicies <- ThePolicies
    Urls <- TheUrls
    Answers <- TheAnswers
    Profiles <- TheProfiles
    Progress = 2
    MaxCalls = 2
    WebCalls = {c1, c2}
    Environments = {1, 2}
    SignatureTTL = 1
    MaxSignatures = 3
    MaxWebTime = 1
    ConsoleCalls = {c1, c2}
    MaxTokenLifetime = 3
    RefreshSkew = 1
    Lifetimes = {1, 2, 3, 4}
    MaxSessions = 3
    MaxConsoleTime = 1
    c1 = c1
    c2 = c2
SPECIFICATION FairAttempts
INVARIANTS
    CallsConfined
    
PROPERTIES
    EveryRequestAnswered
CHECK_DEADLOCK FALSE
