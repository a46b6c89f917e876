\* Two logins and a logout or a password change, on two workers.
SPECIFICATION FairSpec
CONSTANTS
  Workers = {w1, w2}
  Logins = {l1, l2}
  Others = {o1}
  Challenges = {c1, c2}
  None = None
  MaxExits = 1
CHECK_DEADLOCK FALSE
INVARIANTS
  AuthTypeOK
  ChallengeUsedOnce
  FileHoldsTheSessions
PROPERTY
  IndexFollowsFile
