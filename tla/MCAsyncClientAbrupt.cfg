SPECIFICATION FairSpec
CONSTANTS
  Tasks = {t1, t2}
  Kinds = {"stream"}
PROPERTY CancelledCloseIsAbrupt
CHECK_DEADLOCK FALSE
