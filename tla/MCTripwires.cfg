SPECIFICATION WiresSpec
CONSTANTS
    Calls <- SmallCalls
    Markers = {"none", "edit", "schema"}
    Outputs = {"o"}
    None = None
    StrikeLimit = 2
    LoopRepeats = 2
    LoopWindow = 3
    NoProgressLimit = 2
    MaxBatch = 2
    MaxEvents = 5
INVARIANTS FirstWireLatched
PROPERTY CountsAsStrikes
