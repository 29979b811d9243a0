SPECIFICATION ServerSpec
CONSTANTS
    w1 = w1
    w2 = w2
    i1 = i1
    i2 = i2
    Main = Main
    Task = {w1, Main}
    Session = {s1}
    RequestId = {i1, i2}
    Connection = {c1, c2}
    Unknown = Unknown
    NoSession = NoSession
    NoRequest = NoRequest
    ClientIds <- OneClientIds
    AgentIds <- OneAgentIds
    Serialized = TRUE
    Chatter = FALSE
    MaxTurns = 2
    MaxChunks = 1
    FeedCapacity = 1
    Foreign <- SomeForeign
    MaxLog = 7
    MaxMishaps = 1
    MaxBoots = 2
INVARIANTS
    ServerTypeOK
    TurnsNameLogPrompts
    OutcomesSurvive
    ReplayMatchesLive
CHECK_DEADLOCK FALSE
