SPECIFICATION ForwarderSpec
CONSTANTS
    w1 = w1
    w2 = w2
    i1 = i1
    i2 = i2
    Task = {w1, w2}
    Session = {s1, s2}
    RequestId = {i1, i2}
    Connection = {}
    Unknown = Unknown
    NoSession = NoSession
    NoRequest = NoRequest
    ClientIds <- TwoClientIds
    AgentIds <- NoAgentIds
    Serialized = TRUE
    Chatter = FALSE
    MaxTurns = 2
    MaxChunks = 0
    FeedCapacity = 1
    Filters <- TwoHooks
    MaxAttempts = 2
INVARIANTS
    ForwarderTypeOK
    ReportedOnce
    NoEventMissed
SYMMETRY SessionSymmetry
