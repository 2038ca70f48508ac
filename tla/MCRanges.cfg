CONSTANTS
    BitSize = 4
    Chars <- MCChars
    MaxLen = 3
    Bounds <- MCBounds
    MaxRanges = 2

SPECIFICATION Spec

\* addRange is only called while the schema's ranges are built; the list
\* then stays as it is
CHECK_DEADLOCK FALSE

INVARIANT AcceptsExactlyAdmitted
