SPECIFICATION FairSpec
CONSTANTS
    rd1 = rd1
    rd2 = rd2
    s1 = s1
    s2 = s2
    k1 = k1
    k2 = k2
    news = news
    Nobody = Nobody
    Readers <- OneReader
    Senders <- NoSenders
    Topics <- OneTopic
    Command <- NoCommands
    Consumers <- NoConsumers
    Capacity = 1
    Password = FALSE
    StopWhen = "started"
    MaxStops = 1
    MaxPushes = 0
    MaxFaults = 0
PROPERTY StopReturns
CHECK_DEADLOCK FALSE
