SPECIFICATION ServerSpec
CONSTANTS
    w1 = w1
    w2 = w2
    i1 = i1
    i2 = i2
    Main = Main
    Task = {w1, w2, Main}
    Session = {s1, s2}
    RequestId = {i1, i2}
    Connection = {c1, c2}
    Unknown = Unknown
    NoSession = NoSession
    NoRequest = NoRequest
    ClientIds <- TwoClientIds
    AgentIds <- TwoAgentIds
    Serialized = TRUE
    Chatter = FALSE
    MaxTurns = 2
    MaxChunks = 0
    FeedCapacity = 1
    Foreign <- SomeForeign
    MaxLog = 7
    MaxMishaps = 0
    MaxBoots = 1
INVARIANTS
    LiveTurnsAreReplayTurns
CHECK_DEADLOCK FALSE
