SPECIFICATION FairSpec
CONSTANTS
  Tasks = {t1, t2, t3}
  Kinds = {"stream", "datagram"}
INVARIANTS TypeOK NeverBusy
PROPERTIES CloseIsFinal 
CHECK_DEADLOCK FALSE
