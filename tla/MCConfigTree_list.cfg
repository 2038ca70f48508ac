CONSTANTS
    RunningIntentName = "running"
    Owner = "O"
    ReqPriority = 5
    NoValue = NoValue
    TreePaths <- MCTreePaths
    SchemaOf <- MCSchemaOf
    Stores <- MCListStores
    Requests <- MCListRequests

SPECIFICATION Spec

\* the tree is built once per request and then only queried
CHECK_DEADLOCK FALSE

INVARIANT TreeWellFormed
INVARIANT DeltaCorrect
INVARIANT StoreWriteCorrect
