SPECIFICATION FairSubscriberSpec
CHECK_DEADLOCK FALSE
CONSTANTS
    w1 = w1
    r1 = r1
    r2 = r2
    i1 = i1
    Task = {w1, r1}
    Consumer = {r1}
    NoConsumer = NoConsumer
    Session = {s1}
    RequestId = {i1}
    Connection = {c1}
    Unknown = Unknown
    NoSession = NoSession
    NoRequest = NoRequest
    ClientIds <- OneClientIds
    AgentIds <- OneAgentIds
    Serialized = TRUE
    Chatter = FALSE
    MaxTurns = 2
    MaxChunks = 2
    FeedCapacity = 1
    MaxLog = 5
    MaxMishaps = 1
INVARIANTS
    SubscriberTypeOK
    CopyIsReplay
    CopyShowsNothingElse
    PreloadIsComplete
PROPERTIES
    PreloadReturns
