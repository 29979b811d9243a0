SPECIFICATION FairDashboardSpec
\* The prompts and the editors are bounded.
CHECK_DEADLOCK FALSE
CONSTANTS
    a1 = a1
    a2 = a2
    Editor = {e1, e2}
    Offered <- TwoOffered
    Unlisted = {a3}
    Alias = {a2}
    Port = {10}
    AutoPort = AutoPort
    Width = 12
    LastPort = 5
    MaxEntries = 2
    MaxPrompts = 2
    MaxLines = 4
CONSTRAINT QuietLaunch
INVARIANTS
    DashboardTypeOK
    AutoPortsDisjoint
    NothingAddedTwice
    LinesWhole
    OwnPane
    PromptsKept
PROPERTIES
    PromptSettles
