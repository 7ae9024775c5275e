SPECIFICATION Spec
CONSTANTS
    Values <- ManyValues
    Garbage <- AnyBytes
    Stale <- Fresh
    MaxSent = 2
    MaxLong = 15
    MaxInt = 3
    NoCall = NoCall
    MaxStrays = 5
INVARIANT TypeOK
INVARIANT RepliesAreSent
INVARIANT CutsAreCovered
INVARIANT LoopEnds
INVARIANT EqualMeansSame
INVARIANT Ordered
INVARIANT NumbersAgree
INVARIANT HashesSurvive
INVARIANT MessagesAgree
CHECK_DEADLOCK FALSE
