CONSTANTS
    RunningIntentName = "running"
    Owner = "O"
    ReqPriority = 5
    NoValue = NoValue
    TreePaths <- MCTreePaths
    SchemaOf <- MCSchemaOf
    Stores <- MCFallbackStores
    Requests <- MCFallbackRequests

SPECIFICATION Spec

\* the tree is built once per request and then only queried
CHECK_DEADLOCK FALSE

INVARIANT DeltaCorrect
