SPECIFICATION FairSpec
CONSTANTS
    rd1 = rd1
    rd2 = rd2
    s1 = s1
    s2 = s2
    k1 = k1
    k2 = k2
    news = news
    Nobody = Nobody
    Readers <- OneReader
    Senders <- TwoSenders
    Topics <- OneTopic
    Command <- SubscribeAndPing
    Consumers <- TwoConsumers
    Capacity = 1
    Password = FALSE
    StopWhen = "any"
    MaxStops = 1
    MaxPushes = 2
    MaxFaults = 2
INVARIANT TypeOK
INVARIANT OneConnects
INVARIANT RunningMeansReader
INVARIANT StopEndsActivity
CHECK_DEADLOCK FALSE
PROPERTY ImplementsFeed
PROPERTY StopReturnsUnlessLeft
PROPERTY ReadReturns
PROPERTY ReaderRecovers
PROPERTY SendReturns
