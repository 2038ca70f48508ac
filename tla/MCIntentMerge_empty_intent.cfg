CONSTANTS
    o1 = o1
    o2 = o2
    o3 = o3
    p1 = p1
    p2 = p2
    v1 = v1
    v2 = v2
    Owners <- MCOwners
    Paths <- MCPaths
    Values <- MCValues
    Priorities <- MCPriorities
    OwnerPriorities <- MCDistinctPriorities
    NoValue = NoValue
    NoRequest = NoRequest
    RunningIntentName = RunningIntentName
    PriorityCount = 2
    PostApplyFailures = FALSE
    RetryUntilSuccess = TRUE
    Request <- MCNoDeleteWithUpdates

SPECIFICATION Spec

INVARIANT AckedIntentInForce
