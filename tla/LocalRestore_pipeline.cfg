SPECIFICATION FairSpec
CONSTANTS
    o1 = o1
    o2 = o2
    n1 = n1
    r1 = r1
    r2 = r2
    xml = xml
    vda = vda
    Ops <- MCOps
    Names <- MCNames
    Roots <- MCRoots
    Files <- MCFiles
    Disks <- MCDisks
    Foreign = Foreign
    NoDir = NoDir
    NoFile = NoFile
    NoDomain = NoDomain
    NoOp = NoOp
    MaxEdits = 1
    MaxFaults = 1
    MaxKills = 1
INVARIANTS
    TargetIsSource
    FailedLeftNothing
PROPERTIES
    OperationsEnd
    ImplementsService
CHECK_DEADLOCK FALSE
