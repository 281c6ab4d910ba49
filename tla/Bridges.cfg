SPECIFICATION BridgesSpec
SYMMETRY Symmetry
\* Requests are bounded in number: an instance stops when they are used up.
CHECK_DEADLOCK FALSE
CONSTANTS
    n1 = n1  n2 = n2  design = design  build = build  tool = tool
    Threads = {t1, t2, t3}
    AgentIds = {a1}  ExecIds = {e1}  Budgets = {1, 2}  TaskIds = {k1}
    StepBound = 4
    FormIds = {i1}  FormObjects = {f1}  Names = {n1, n2}  Defined = {n1, n2}
    FieldSets <- MCFieldSets
    TeamIds = {i2}  TeamObjects = {g1, g2}  RoleIds = {r1, r2}  PhaseNames = {design, build}
    Procedures <- MCProcedures
    WorkBound = 2
    CrewAgents = {p1}  CrewTasks = {q1}  CrewIds = {c1}
    VersionBound = 2
    CrewBound = 2
    SchemaNames = {s1}  FieldNames = {x1}
    SchemaFields <- MCSchemaFields
    DataValues <- MCDataValues
    Lowered <- MCLowered
    ValidationBound = 3
    CustomTools = {tool}  Lookups = {"mcp_complete"}
    Chains <- MCChains
    ToolBound = 2
INVARIANTS
    BridgesTypeOK
    CompletedMeansDone
    LateStepsBounded
    SubmittedIsValid
    UpdatesAreKept
    PhasesCoverTeam
    CrewsAreFresh
    SettledIsKept
    SchemasAgree
    HistoryFollowsCalls
