CONSTANTS
    Keys = {k1, k2}
    Values = {v1}
    Absent = Absent
    NoChange = NoChange
    Hidden = Hidden
    DeltaRetention = 1
    Workers = {w1}
    MaxVersion = 2
    MaxCrashes = 1
    MaxReloads = 1
SPECIFICATION FairSpec
PROPERTIES
    BootCompletes
    RequestsAnswered
    ImplementsVersionedStore
CHECK_DEADLOCK TRUE
