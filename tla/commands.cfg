SPECIFICATION Spec
CONSTANTS
    Values <- AnyValue
    Stale <- UsedBefore
    MaxLong = 99
    MaxInt = 7
    Pipelines <- AllPipelines
INVARIANT TypeOK
INVARIANT ReadSoFar
INVARIANT WordsReachServer
INVARIANT CallsAreUnderstood
INVARIANT StoredComesBack
INVARIANT PublishedIsRead
INVARIANT OutcomesTold
CHECK_DEADLOCK FALSE
