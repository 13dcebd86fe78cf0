SPECIFICATION Spec
CONSTANTS
    Runners = {r1, r2}
    Cap = 2
    MaxCost = 1
    MaxDriverCost = 1
    MaxEpisodeTurns = 2
    MaxClarifyTurns = 1
    MaxRuns = 2
    Lengths <- EpisodeLengths
INVARIANTS
    BudgetHolds SpawnsBounded
SYMMETRY Sym
CHECK_DEADLOCK FALSE
