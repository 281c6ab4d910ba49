SPECIFICATION Spec
SYMMETRY Symmetry
\* Requests are finite in number: the instance stops when all are answered.
CHECK_DEADLOCK FALSE
CONSTANTS
    a1 = a1  a2 = a2  a3 = a3  read = read  delete = delete
    NoTool = NoTool  NoForm = NoForm
    Agents <- MCAgents
    Frameworks = {"langgraph", "unknown"}
    Supported = {"langgraph"}
    Tools = {read, delete}
    Configured <- MCConfigured
    ApprovalRequired <- MCApprovalRequired
    MaxPerMinute <- MCMaxPerMinute
    ToolAllowlist <- MCToolAllowlist
    Requests = {r1, r2, r3}
    Forms <- MCForms
    ProdMode = TRUE
    Window = 2
    MaxClock = 2
    MaxCrashes = 1
INVARIANTS
    RateBound
    RefusedNeverExecutes
    AnswersAreTrue
    OnlyVettedReachKernel
PROPERTY
    LimitedOnlyWhenFull
