\* Three child slots, two updates, one pending drain.
CONSTANTS
    Clustered = FALSE
    Children = {c1, c2, c3}
    None = None
    MaxRevision = 2
    MaxDrains = 1
SPECIFICATION FairSpec
INVARIANTS
    TypeOK
    ActiveChildServes
    NoChildLeaks
    ActiveTargetIsRunning
PROPERTIES
    CrashStartsRepair
    UpdateAttemptsEnd
    OldChildrenLeave
CHECK_DEADLOCK FALSE
