SPECIFICATION FairSpec
CONSTANTS
    Tasks = {t1, t2}
    Runs = {r1}
    MaxPoint = 2
    MaxRequired = 1
    MaxCrashes = 1
INVARIANTS
    
    PurgedFromSavedPlan
PROPERTIES
    PlansWorkedOff
CHECK_DEADLOCK FALSE
