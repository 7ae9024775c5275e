SPECIFICATION Spec
CONSTANTS
    rd1 = rd1
    rd2 = rd2
    s1 = s1
    s2 = s2
    k1 = k1
    k2 = k2
    news = news
    Nobody = Nobody
    Readers <- OneReader
    Senders <- OneSender
    Topics <- OneTopic
    Command <- OnePing
    Consumers <- OneConsumer
    Capacity = 1
    Password = TRUE
    StopWhen = "any"
    MaxStops = 0
    MaxPushes = 0
    MaxFaults = 0
INVARIANT RepliesReachReader
CHECK_DEADLOCK FALSE
