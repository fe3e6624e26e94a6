SPECIFICATION FairSpec
CONSTANTS
  Lengths = {0, 1, 2}
  MaxParts = 4
  SC_IOV_MAX = 2
PROPERTY SendEnds
CHECK_DEADLOCK FALSE
