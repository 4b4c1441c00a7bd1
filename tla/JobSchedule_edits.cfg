\* Requests and ticks that do not overlap: any edit, any initial schedule, downtime,
\* a busy VM and one crash; the worker is fair.
SPECIFICATION FairSpec
CONSTANTS
    MaxTime = 5
    Interval = 2
    DailySlots <- Days
    FullSlots <- Fulls
    IncSlots <- Increments
    Edits <- AllEdits
    MaxEdits = 2
    MaxCrashes = 1
    InitJobs <- AnyJob
    Serialized = TRUE
INVARIANTS NoReplay  FullSlotsServed
PROPERTIES DisabledTimeNotReplayed DueSlotsConsumed
\* The clock stops at MaxTime and users need not send requests.
CHECK_DEADLOCK FALSE
