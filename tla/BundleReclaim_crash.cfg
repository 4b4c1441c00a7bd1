SPECIFICATION FairSpec
CONSTANTS
    full = full
    inc = inc
    replica = replica
    vda = vda
    xml = xml
    Local <- MCLocal
    Remote <- MCRemote
    Disks <- MCDisks
    Metadata <- MCMetadata
    NoEntry = NoEntry
    NoBundle = NoBundle
    MaxEdits = 2
    MaxFaults = 2
    MaxKills = 2
    MaxLosses = 1
INVARIANTS
    
    
    PurgedForGood
CHECK_DEADLOCK FALSE

    
