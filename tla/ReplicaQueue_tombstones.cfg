\* Remote deletions with failures, lost answers, crashes and an outage.
SPECIFICATION FairSpec
CONSTANTS
    MaxPoint = 1
    MaxTask = 1
    Dests = {1}
    MaxAttempts = 2
    Deletes = TRUE
    Overlap = FALSE
    AnswersLost = TRUE
    MaxCrashes = 2
    MaxOutages = 1
    Parent <- OneChain
INVARIANTS CompletedIsGone 
PROPERTIES TombstonesEnd
\* Users need not send requests, and there may be nothing left to replicate.
CHECK_DEADLOCK FALSE
