CONSTANTS
    Keys = {k1, k2}
    Values = {v1}
    Absent = Absent
    NoChange = NoChange
    Hidden = Hidden
    DeltaRetention = 1
    Workers = {w1}
    MaxVersion = 1
    MaxCrashes = 0
    MaxReloads = 0
SPECIFICATION Spec
INVARIANTS
    ServingReplicaCoherent
CHECK_DEADLOCK TRUE
