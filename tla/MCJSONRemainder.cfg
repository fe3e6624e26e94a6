SPECIFICATION Spec
CONSTANTS
  Limit = 4
  StreamLength = 5
PROPERTY RemainderIsTheRest
CHECK_DEADLOCK FALSE
