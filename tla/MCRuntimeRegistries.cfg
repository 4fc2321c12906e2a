CONSTANTS
    e1 = e1
    b1 = b1
    b2 = b2
    Keys = {e1, b1, b2}
    BindingKeys = {b1, b2}
    Capacity = 2
    MaxTime = 2
    MaxProbeId = 2
    Alpha = 200
    ProbeCapacity = 1
    MaxObservations = 2
    q1 = q1
    q2 = q2
    Targets = {q1, q2}
    QuotaCapacity = 1
    Fallback = 1
    MaxQuotaTime = 3
    MaxQuotaProbeId = 2
    a = a
    b = b
    c = c
    Creds = {a, b, c}
    Procs = {p1, p2}
    Limit <- TwoOnFirst
    Schedule <- EqualPair
    Word = 2
    NoCred = NoCred
SPECIFICATION RegistriesSpec
INVARIANTS
    
    ProbeMetricsTruthful
    BetterTiersExhausted
PROPERTIES
    TicketsDecide
    ImplementsLeasePool
SYMMETRY Symmetry
CHECK_DEADLOCK FALSE
