\* A model nobody knows and one with a large window, files of the largest size.
SPECIFICATION ContextSpec
CONSTANTS
    Models = {"other", "qwen"}
    Typed <- MCTyped
    Contents <- MCContents
    Extras <- MCExtras
    Answers <- MCAnswers
    Outputs <- MCOutputs
    Results <- MCResults
    MaxFiles = 4
    MaxTurns = 3
    MaxRounds = 3
INVARIANTS
    HistoryIsNewest PrunedToWhatMatters
PROPERTIES
    PoisonIsPermanent
CHECK_DEADLOCK FALSE
