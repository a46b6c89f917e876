CONSTANTS
    Keys = {k1, k2}
    Values = {v1}
    Absent = Absent
    NoChange = NoChange
    DeltaRetention = 2
    Workers = {w1}
    MaxVersion = 3
    MaxCrashes = 0
    MaxReloads = 1
    Hidden = Hidden
SPECIFICATION Spec
SYMMETRY Symmetry
INVARIANTS
    TypeOK
    ReplayMatchesHistory
    RetentionDecidesReplay
    BasedReplicaCoherent
    SyncResponsesFit
    AnsweredVersionHeld
PROPERTIES
    FencedRequestSeesFloor
    VersionGoesBackOnlyAtStart
CHECK_DEADLOCK TRUE
