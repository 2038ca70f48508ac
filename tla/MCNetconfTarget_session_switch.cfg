CONSTANTS
    p1 = p1
    p2 = p2
    v1 = v1
    v2 = v2
    Paths <- MCPaths
    Values <- MCValues
    NoValue = NoValue
    MaxSets = 3
    MaxFaults = 2
    RpcErrors = FALSE
    CandidateDiscardedOnClose = TRUE

SPECIFICATION Spec


PROPERTY CommitAppliesOwnRequest
