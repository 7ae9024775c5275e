SPECIFICATION Spec
CONSTANTS
    Values <- FewValues
    Garbage <- NoBytes
    Stale <- UsedBefore
    MaxSent = 2
    MaxLong = 15
    MaxInt = 3
    NoCall = NoCall
    MaxStrays = 5
INVARIANT NothingFromBefore
CHECK_DEADLOCK FALSE
