SPECIFICATION Spec
CONSTANTS
    rd1 = rd1
    rd2 = rd2
    s1 = s1
    s2 = s2
    k1 = k1
    k2 = k2
    news = news
    Nobody = Nobody
    Readers <- TwoReaders
    Senders <- TwoSenders
    Topics <- OneTopic
    Command <- PsubscribeAndReset
    Consumers <- OneConsumer
    Capacity = 1
    Password = TRUE
    StopWhen = "any"
    MaxStops = 1
    MaxPushes = 0
    MaxFaults = 2
INVARIANT OneConnects
INVARIANT OneReads
INVARIANT StopEndsActivity
CHECK_DEADLOCK FALSE
