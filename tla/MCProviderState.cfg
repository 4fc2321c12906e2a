SPECIFICATION Spec
CONSTANTS
    Identities = {i1}
    Batches = {a1, a2}
    Passes = {p1, p2}
    WorkerLease = 1
    WorkerLimit = 2
    MaxAccountTime = 2
    MaxClaimId = 3
    MaxIssued = 2
    Stores = {s1, s2}
    BuildCredentials = {c1, c2}
    EgressPolicies = {x1, x2}
    Payloads = {y1, y2}
    MaxBuildTime = 3
    MaxBreaks = 2
    DeviceLifetimes = {2, 5}
    DeviceIntervals = {1, 2}
    SlowDown = 1
    MaxDeviceTime = 6
    r1 = r1
    r2 = r2
    DriverRequests = {r1, r2}
    RouteAdapters <- TwoRoutes
    RequestMode <- Buffered
    MaxRecords = 1
    MaxRouteAttempts = 2
    RequiredCapacity = 1
    DiagnosticCapacity = 1
    BatchSize = 2
    MaxWriteFailures = 1
SYMMETRY Symmetry
INVARIANTS
    
    ContinuityHolds
    EventsAccounted
    
PROPERTY
    LateJobPowerless
    PollsRespectUpstream
CHECK_DEADLOCK FALSE
