SPECIFICATION Spec
CONSTANTS
    Sessions = {s}
    Turns = {1, 2}
    Corpus = {0}
    CorpusTurn <- OneCorpusTurn
    Verdicts <- OnePrivate
    Jobs = {"j"}
    JobRoute <- FirstTurn
    MaxAttach = 1
    MaxReads = 1
    None = None
INVARIANTS Whole EventsExplain FreshVotes
PROPERTIES EveryChangeAudited ImplementsRowLife
CHECK_DEADLOCK FALSE
