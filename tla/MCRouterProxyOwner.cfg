SPECIFICATION FairSpec
CONSTANTS
    Sessions = {s1}
    Requests = {1, 2, 3}
    None = None
    Turns <- FewTurns
    Results <- Edits
    Responses <- Loops
    StrikeLimit = 2
INVARIANT OutcomeOwnership
CHECK_DEADLOCK FALSE
