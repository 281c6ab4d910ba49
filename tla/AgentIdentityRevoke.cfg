SPECIFICATION Spec
SYMMETRY Symmetry
\* Requests are finite in number: the instance stops when all are answered.
CHECK_DEADLOCK FALSE
CONSTANTS
    a1 = a1  a2 = a2  fraud = fraud  scraper = scraper
    NoAgent = NoAgent
    Aliases <- MCAliases
    Ops = {o1, o2, o3, o4}
    Agents <- OneAgent
    Alias <- OneAlias
    Ephemeral = {}
    RecordComplete = TRUE
    SerialPerAgent = FALSE
    MaxFailures = 0
PROPERTY
    RevokedIsFinal
