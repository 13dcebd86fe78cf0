SPECIFICATION FairSpec
CONSTANTS
    Models <- Rungs
    FailureThreshold = 2
    Cooldown = 2
    MaxInFlight = 3
    Tokens = {1000, 20001, 26214, 26215, 160001}
INVARIANTS WindowFits HarderNeverCheaper CooldownHonoured
PROPERTY OfferedAgain
CHECK_DEADLOCK FALSE
