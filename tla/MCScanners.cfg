SPECIFICATION TextSpec
CONSTANTS
    Fragments <- MCFragments
    MaxFragments = 5
INVARIANTS
    ReadsAsServer
    ChecksumKeepsTokens
    
    PositionsResolve
CHECK_DEADLOCK FALSE
