SPECIFICATION Spec
CONSTANTS
    Deliverers = {d1, d2}
    Waiters = {w1, w2}
    Callers = {k1, k2, k3}
    Targets = {t1, t2}
    MaxFlights = 3
    c1 = c1
    c2 = c2
    c3 = c3
    p1 = p1
    p2 = p2
    Processes = {p1, p2}
    RefreshCallers = {c1, c2, c3}
    ProcessOf <- TwoAndOne
    MaxExpiry = 2
    Calls = {}
    NoCall = NoCall
    NoEvent = NoEvent
    Capacity = 1
INVARIANTS
    SingleFlight
    RefreshesSound
    ReceiverNeverRejects
    AnswerTruthful
PROPERTY
    WaitersAnswered
    ClientAnswered
CHECK_DEADLOCK FALSE
