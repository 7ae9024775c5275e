SPECIFICATION Spec
CONSTANTS
    Values <- ValuesWithExec
    Garbage <- NoBytes
    Stale <- Fresh
    MaxSent = 2
    MaxLong = 15
    MaxInt = 3
    NoCall = NoCall
    MaxStrays = 5
INVARIANT RepliesAreSent
CHECK_DEADLOCK FALSE
