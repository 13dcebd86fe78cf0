SPECIFICATION FairSpec
CONSTANTS
    j1 = j1
    j2 = j2
    Jobs = {j1, j2}
    Again = j1
    MaxVisits = 1
    Buckets = {"RTG", "MEM"}
    Top = 2
    before = before
    after = after
    Contracts <- MCContracts
    Profiles = {before, after}
    Decisions <- MCDecisions
    Frozen <- MCFrozen
    Measures = {m1}
    MaxEdits = 2
    MaxClock = 1
    MaxFaults = 1
    Torn = Torn
    None = None
INVARIANT HistoryIntact
INVARIANT DeltaHonest
PROPERTY Heals
CHECK_DEADLOCK FALSE
