SPECIFICATION Spec
SYMMETRY Symmetry
\* Requests are finite in number: the instance stops when all are answered.
CHECK_DEADLOCK FALSE
CONSTANTS
    a1 = a1  a2 = a2  fraud = fraud  scraper = scraper
    NoAgent = NoAgent
    Aliases <- MCAliases
    Ops = {o1, o2, o3, o4, o5}
    Agents <- MCAgents
    Alias <- OwnAlias
    Ephemeral = {a2}
    RecordComplete = TRUE
    SerialPerAgent = TRUE
    MaxFailures = 1
INVARIANTS
    KeyIffActive
    KeyWasDelivered
PROPERTIES
    ZeroDowntime
    RevokedIsFinal
    NoForeignDelete
    ImplementsAgentLifecycle
