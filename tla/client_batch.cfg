SPECIFICATION FairSpec
CONSTANTS
    r1 = r1
    r2 = r2
    r3 = r3
    c1 = c1
    c2 = c2
    NoSlot = NoSlot
    AuthCall = AuthCall
    NoCall = NoCall
    MaxStrays = 1
    Requests <- ThreeCalls
    Pipelined <- PipelineR2
    Size <- SizesOfThree
    Slots <- TwoSlots
    Delivery = "batch"
    Configs <- WithPassword
    MaxConfigs = 0
    BusyReconfigure = FALSE
    MaxFaults = 2
INVARIANT TypeOK
INVARIANT ConnectionExclusive
INVARIANT IdleConnectionsClean
INVARIANT RepliesAreOwn
INVARIANT AuthBeforeCommand
INVARIANT ReplyPerCommand
PROPERTY ImplementsService
PROPERTY CallReturns
