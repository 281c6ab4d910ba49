SPECIFICATION GateSpec
\* Requests are bounded in number: the instance stops when they are used up.
CHECK_DEADLOCK FALSE
CONSTANTS
    RequestIds = {r1}
    GateAgents = {"policy-creator", "other"}  GateTenants = {"acme"}
    ModelFacts <- MCModelFacts
    OtherModels = {"haiku"}
    AmericanModels = {"gemini-pro", "gpt", "haiku"}
    Fallbacks <- MCFallbacks
    LargeModels = {"gemini-pro"}
    ExceptionModel = "gemini-pro"  ExceptionAgent = "policy-creator"
    TupleBound = 2
INVARIANT
    FlaggedStaysOut
