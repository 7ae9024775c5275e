SPECIFICATION Spec
CONSTANTS
    r1 = r1
    r2 = r2
    r3 = r3
    c1 = c1
    c2 = c2
    NoSlot = NoSlot
    AuthCall = AuthCall
    NoCall = NoCall
    MaxStrays = 1
    Requests <- TwoCalls
    Pipelined <- SinglesOnly
    Size <- AllSingle
    Slots <- OneSlot
    Delivery = "byte"
    Configs <- OneWithoutPassword
    MaxConfigs = 0
    BusyReconfigure = FALSE
    MaxFaults = 0
INVARIANT RepliesAreOwn
