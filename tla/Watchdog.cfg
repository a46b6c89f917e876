CONSTANTS
    top = top
    sub = sub
    file = file
    Root = Root
    Paths = {top, sub, file}
    Directories = {top, sub}
    Parent <- MCParent
    Shard <- MCShard
    LiveWatch = TRUE
    MaxWrites = 2
    MaxReports = 1
    MaxFaults = 1
    MaxQueue = 2
SPECIFICATION FairSpec
INVARIANTS
    WatchTypeOK
    IndexIsCommitted
    ReconcilesDoNotPileUp
PROPERTIES
    CommitsMoveForward
    ReportsAreCommitted
    ReportsEnd
    Converges
CHECK_DEADLOCK TRUE
