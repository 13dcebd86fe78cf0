SPECIFICATION Spec
CONSTANTS
    o1 = o1
    r1 = r1
    r2 = r2
    r3 = r3
    None = None
    Rejected = Rejected
    Fragment = Fragment
    Garbled = Garbled
    Orders = {o1}
    Routes = {r1, r2, r3}
    Order <- MCOrder
    Route <- MCRoute
    Plan <- MCPlan
    TestPaths = {"test"}
    FeatureFields = {"verb"}
    DroppedFields = {"pinned"}
    ForbiddenFields = {"session_id"}
    FieldValues <- MCFieldValues
    ExcludeIfTrue = {"pinned"}
    DecisionSources = {"organic", "counterfactual"}
    DecisionLayers = {"classifier", "middle_default"}
    LocalRungs = {"local", "local-code", "local-small"}
    FrontierRungs = {"frontier"}
    MaxFaults = 0
    SomePlans = {}
    SomeWorkspaces = {}
    Samples <- MCSamples
    MaxReviews = 3
    WilsonZ2 = 4
    WilsonFloor <- MCFloor
INVARIANT AuditStands
INVARIANT WilsonIsScoreTest
INVARIANT LabelsAreOwn
CHECK_DEADLOCK FALSE
