\* A FULL with two incrementals, and a second FULL: retries, failures, a crash and an outage.
SPECIFICATION FairSpec
CONSTANTS
    MaxPoint = 4
    MaxTask = 1
    Dests = {1}
    MaxAttempts = 2
    Deletes = FALSE
    Overlap = FALSE
    AnswersLost = FALSE
    MaxCrashes = 1
    MaxOutages = 1
    Parent <- TwoChains
PROPERTIES  RunnableServed
\* Users need not send requests, and there may be nothing left to replicate.
CHECK_DEADLOCK FALSE
