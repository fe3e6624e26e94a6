SPECIFICATION TransportsSpec
CONSTANTS
  MaxSize = 4
  HighWater = 3
  LowWater = 1
  ReadSizes = {1, 3}
  MaxBytes = 5
  Tasks = {t1, t2, t3}
  Records = 2
  MaxEvents = 4
  Lengths = {1, 2, 3}
  MaxParts = 4
  SC_IOV_MAX = 2
INVARIANTS TransportsTypeOK ReceivedInOrder NobodyIsForgotten  NoneWatchedClosed
PROPERTIES OnlyCancelledIntoLoses EveryoneIsAnswered
CHECK_DEADLOCK FALSE
