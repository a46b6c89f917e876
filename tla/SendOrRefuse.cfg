\* The calls and texts of Agent.cfg.
SPECIFICATION FairSpec
CONSTANTS
  Tasks = {t1, t2}
  None = None
  MaxTexts = 2
  MaxRetries = 1
  MaxExecutions = 1
CHECK_DEADLOCK FALSE
INVARIANTS
  SendOrRefuse
