SPECIFICATION FairSpec
CONSTANTS
    Sessions = {s1}
    Requests = {1, 2, 3}
    None = None
    Turns <- AllTurns
    Results <- Edits
    Responses <- Loops
    StrikeLimit = 2
INVARIANTS
    EscalatedOffLocal PendingConsistent FellOpenStaysOff OneOpenRow FailOpen
PROPERTIES
    ImplementsContract RowsClose
CHECK_DEADLOCK FALSE
