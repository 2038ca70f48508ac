CONSTANTS
    RunningIntentName = "running"
    Owner = "O"
    ReqPriority = 5
    NoValue = NoValue
    TreePaths <- MCTreePaths
    SchemaOf <- MCSchemaOf
    Stores <- MCPresenceStores
    Requests <- MCPresenceRequests

SPECIFICATION Spec

\* the tree is built once per request and then only queried
CHECK_DEADLOCK FALSE

INVARIANT DeltaCorrect
