CONSTANTS
    c1 = c1
    c2 = c2
    Calls = {c1, c2}
    NoCall = NoCall
    MaxToolCalls = 2
    MaxArgumentBytes = 5
    MaxProgressFree = 1
    MaxOutputItems = 4
    Texts <- Arguments
    Reports <- Wholes
    MaxText = 1
    MaxBlocks = 2
SPECIFICATION PartsSpec
INVARIANTS
    ClientCanRead
    ContentPreserved
    
    
CHECK_DEADLOCK FALSE
