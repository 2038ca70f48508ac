CONSTANTS
    p1 = p1
    p2 = p2
    v1 = v1
    v2 = v2
    Paths <- MCPaths
    Values <- MCValues
    NoValue = NoValue
    MaxSets = 2
    MaxFaults = 2
    RpcErrors = TRUE
    CandidateDiscardedOnClose = FALSE

SPECIFICATION Spec

INVARIANT TypeOK

PROPERTY Reconnected
PROPERTY ConfigStoreConverges
