\* Two submissions that may overlap, two texts, one execution, one retry.
SPECIFICATION FairSpec
CONSTANTS
  Tasks = {t1, t2}
  None = None
  MaxTexts = 2
  MaxRetries = 1
  MaxExecutions = 1
CHECK_DEADLOCK FALSE
CONSTRAINT NoOverlap
INVARIANTS
  LoopTypeOK
  BusyIsALock
PROPERTIES
  HistoryKeepsTexts
  StopIsHonoured
