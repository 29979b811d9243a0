SPECIFICATION Spec
CONSTANTS
    w1 = w1
    w2 = w2
    i1 = i1
    i2 = i2
    i3 = i3
    Task = {w1, w2}
    Session = {s1, s2}
    RequestId = {i1, i2, i3}
    Connection = {c1}
    Unknown = Unknown
    NoSession = NoSession
    NoRequest = NoRequest
    ClientIds <- SameIds
    AgentIds <- SameIds
    Serialized = TRUE
    Chatter = TRUE
    MaxTurns = 2
    MaxChunks = 2
    FeedCapacity = 1
INVARIANTS
    PromptsTracked
