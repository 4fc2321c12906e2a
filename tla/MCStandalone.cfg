SPECIFICATION Spec
CONSTANTS
    MaxMembers = 5
    MaxWeight = 4
    MaxSlots = 13
    Calls = {c1, c2}
    NoCall = NoCall
    MaxLog = 8
    Models = {m1}
    Workers = {x1, x2}
    MinMisses = 3
    Isolation = 1
    MaxInstant = 1
    MaxVersion = 5
    MaxStart = 1
INVARIANTS
    NeverOverserved
    AcceptsExactlyWellFormed
    RetainedMatchesHistory
    BridgesFaithful
    
    
CHECK_DEADLOCK FALSE
