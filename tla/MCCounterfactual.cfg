SPECIFICATION RunsSpec
CONSTANTS
    o1 = o1
    o2 = o2
    r1 = r1
    None = None
    Rejected = Rejected
    Fragment = Fragment
    Garbled = Garbled
    Orders = {o1, o2}
    Routes = {r1}
    Order <- MCOrder
    Plan <- MCPlan
    TestPaths = {"test"}
    FeatureFields = {"verb"}
    DroppedFields = {"pinned"}
    ForbiddenFields = {"session_id"}
    FieldValues <- MCFieldValues
    ExcludeIfTrue = {"pinned"}
    DecisionSources = {"organic", "counterfactual"}
    DecisionLayers = {"classifier", "middle_default"}
    LocalRungs = {"local", "local-code", "local-small"}
    FrontierRungs = {"frontier"}
    MaxFaults = 1
    SomePlans <- MCPlans
    SomeWorkspaces <- MCWorkspaces
INVARIANT RunsPair
INVARIANT SpendWithinLimit
INVARIANT SplitNeverLeaks
INVARIANT ToolingNeverBlames
INVARIANT ScoreAgrees
CHECK_DEADLOCK FALSE
