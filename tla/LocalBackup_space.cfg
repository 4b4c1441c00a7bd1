\* Three runs of one job in SPACE_OPTIMIZED mode, made one after the other; no user
\* deletions; the worker is fair.
SPECIFICATION FairSpec
CONSTANTS
    r1 = r1  r2 = r2  r3 = r3  r4 = r4  j1 = j1  j2 = j2  v1 = v1  NoRun = NoRun
    VMs = {v1}
    VMOf <- OneVM
    Runs = {r1, r2, r3}
    Manual = {r1, r2, r3}
    Jobs = {j1}
    JobOf <- OneJob
    MaxIncrementals = 1
    MinimumFullChains = 1
    FullChainsToRetain = 1
    SpaceOptimized = TRUE
    UserDeletes = FALSE
    MaxCrashes = 2
ACTION_CONSTRAINT InOrder
INVARIANTS LatestRestorable NoOrphanIncremental
PROPERTIES RetentionKeepsMinimum EveryRunEnds
