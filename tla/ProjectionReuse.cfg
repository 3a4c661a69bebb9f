SPECIFICATION Spec
CONSTANTS
    Caller = {a1, v1, k1}
    Agent = {a1}
    Hook = {k1}
    Piece = {h1}
    MaxRevision = 2
    MaxMessages = 3
    MaxCaptures = 2
    MaxChars = 2
    MaxText = 5
    Starts = 2
    Events = 2
    Attempts = 2
    Lines = 3
    Nobody = nobody
    Signal = {s1, s2}
    MaxVersion = 2
    MaxTarget = 2
INVARIANT AppendIsFull
CHECK_DEADLOCK FALSE
