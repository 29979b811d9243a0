SPECIFICATION SubscriberSpec
SYMMETRY EitherConsumer
CHECK_DEADLOCK FALSE
CONSTANTS
    w1 = w1
    r1 = r1
    r2 = r2
    i1 = i1
    Task = {w1, r1, r2}
    Consumer = {r1, r2}
    NoConsumer = NoConsumer
    Session = {s1}
    RequestId = {i1}
    Connection = {c1}
    Unknown = Unknown
    NoSession = NoSession
    NoRequest = NoRequest
    ClientIds <- TwoConsumersClientIds
    AgentIds <- TwoConsumersAgentIds
    Serialized = TRUE
    Chatter = FALSE
    MaxTurns = 1
    MaxChunks = 0
    FeedCapacity = 1
    MaxLog = 3
    MaxMishaps = 0
INVARIANTS
    ReplaysToSameState
