SPECIFICATION FairForwarderSpec
CONSTANTS
    w1 = w1
    w2 = w2
    i1 = i1
    i2 = i2
    Task = {w1}
    Session = {s1}
    RequestId = {i1, i2}
    Connection = {}
    Unknown = Unknown
    NoSession = NoSession
    NoRequest = NoRequest
    ClientIds <- OneClientIds
    AgentIds <- OneAgentIds
    Serialized = TRUE
    Chatter = FALSE
    MaxTurns = 2
    MaxChunks = 0
    FeedCapacity = 2
    Filters <- TwoHooks
    MaxAttempts = 2
PROPERTIES
    EventuallyReported
    ResponseEndsTurn
