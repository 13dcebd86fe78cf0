SPECIFICATION FairSpec
CONSTANTS
    j1 = j1
    j2 = j2
    r1 = r1
    r2 = r2
    success = success
    failure = failure
    None = None
    Jobs <- MCJobs
    Foreign = {cf1}
    Routes <- MCRoutes
    Organic <- MCOrganic
    Verdicts <- MCVerdicts
    MaxFaults = 3
INVARIANT OneLabelPerRoute
INVARIANT CompletedLabelCounts
PROPERTY ImplementsLabelOnce
PROPERTY Recovers
CHECK_DEADLOCK FALSE
