SPECIFICATION FairSpec
CONSTANTS
    Order <- TwoFiles
    Size <- Sizes
    CompareCells = 2
    MaxValue = 1
    Sources <- OneSource
    Seeds <- OneSeed
    Kind = "FULL"
    SeedAnswersNamed = TRUE
    MaxId = 1
    MaxAttempts = 2
    MaxWrites = 1
    MaxInFlight = 2
INVARIANTS
    StagedIsSnapshot
PROPERTIES
    ImplementsStaging
    
CHECK_DEADLOCK FALSE
