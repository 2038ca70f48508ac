CONSTANTS
    Names <- MCNames
    Priorities <- MCPriorities
    Updates = {u1, u2}
    MaxIntents = 3
    RawIntentPrefix <- MCPrefix
    Sep = "_"
    CharCode <- MCCharCode
    PrioBits = 8
SPECIFICATION Spec
INVARIANT RoundTrip
PROPERTY RawIntentsRefined
