CONSTANTS
    o1 = o1
    o2 = o2
    o3 = o3
    p1 = p1
    p2 = p2
    v1 = v1
    v2 = v2
    Owners <- MCTwoOwners
    Paths <- MCPaths
    Values <- MCValues
    Priorities <- MCPriorities
    OwnerPriorities <- MCTwoPriorities
    NoValue = NoValue
    NoRequest = NoRequest
    RunningIntentName = RunningIntentName
    PriorityCount = 2
    PostApplyFailures = TRUE
    RetryUntilSuccess = FALSE
    Request <- MCNoDeleteWithUpdates

SPECIFICATION Spec

INVARIANT RetryHeals
