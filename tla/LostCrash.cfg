CONSTANTS
    Clustered = FALSE
    Children = {c1, c2, c3}
    None = None
    MaxRevision = 1
    MaxDrains = 1
SPECIFICATION Spec
INVARIANTS
    OutageBeingRepaired
CHECK_DEADLOCK FALSE
