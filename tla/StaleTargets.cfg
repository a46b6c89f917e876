CONSTANTS
    top = top
    sub = sub
    file = file
    Root = Root
    Paths = {top, sub, file}
    Directories = {top, sub}
    Parent <- MCParent
    Shard <- MCShard
    LiveWatch = TRUE
    MaxWrites = 4
    MaxReports = 1
    MaxFaults = 0
    MaxQueue = 2
SPECIFICATION SlowEventsSpec
PROPERTIES
    ReportHydratesAncestors
CHECK_DEADLOCK FALSE
