SPECIFICATION Spec
CONSTANTS
    r1 = r1
    r2 = r2
    r3 = r3
    c1 = c1
    c2 = c2
    NoSlot = NoSlot
    AuthCall = AuthCall
    NoCall = NoCall
    MaxStrays = 1
    Requests <- TwoCalls
    Pipelined <- PipelineR2
    Size <- SizesOfTwo
    Slots <- TwoSlots
    Delivery = "byte"
    Configs <- AnyConfig
    MaxConfigs = 1
    BusyReconfigure = FALSE
    MaxFaults = 1
INVARIANT ConnectionExclusive
INVARIANT AuthBeforeCommand
