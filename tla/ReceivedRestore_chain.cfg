SPECIFICATION FairSpec
CONSTANTS
    vda = vda
    n1 = n1
    r1 = r1
    r2 = r2
    MaxOps = 2
    MaxPoint = 2
    Disks <- MCDisks
    Meta = Meta
    Names <- MCNames
    Roots <- MCRoots
    Foreign = Foreign
    NoDir = NoDir
    NoImage = NoImage
    NoDomain = NoDomain
    NoDisk = NoDisk
    MaxEdits = 1
    MaxFaults = 1
    MaxKills = 1
INVARIANTS
    ImagesAreChain
    ReadyIsBound
PROPERTIES
    RestoresEnd
CHECK_DEADLOCK FALSE
