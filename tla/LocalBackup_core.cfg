\* A scheduled and two manual runs, of two jobs of one VM, may overlap; user
\* deletions and one crash.
SPECIFICATION Spec
CONSTANTS
    r1 = r1  r2 = r2  r3 = r3  r4 = r4  j1 = j1  j2 = j2  v1 = v1  NoRun = NoRun
    VMs = {v1}
    VMOf <- OneVM
    Runs = {r1, r2, r3}
    Manual = {r1, r2}
    Jobs = {j1, j2}
    JobOf <- TwoJobs
    MaxIncrementals = 1
    MinimumFullChains = 1
    FullChainsToRetain = 1
    SpaceOptimized = FALSE
    UserDeletes = TRUE
    MaxCrashes = 1
SYMMETRY ManualSymmetry
INVARIANTS PublishedDisksQuiet CatalogMatchesDisk ChainWellFormed OrphanBundleFlagged
PROPERTIES ImplementsStore DeletionNeedsPublication
