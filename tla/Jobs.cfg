\* One server, its runner started twice, and two workers that use the lock too.
SPECIFICATION FairSpec
CONSTANTS
    Servers = {s1}
    Jobs = {job}
    Clients = {c1, c2}
    Names <- MCNames
    Askers <- MCAskers
    Tokens = {1, 2, 3, 4, 5, 6}
    None = None
    MaxTtl = 2
    MaxWait = 1
    MaxExits = 1
    MaxStarts = 2
    JobTtl = 2
INVARIANTS
    JobsTypeOK
    MutualExclusion
    FreshLockHasOwner
    RunsShareNoLease
    ScheduledJobsStay
PROPERTIES
    OnlyOwnerEndsLock
    WaitersAnswered
CHECK_DEADLOCK TRUE
