SPECIFICATION Spec
CONSTANTS
  Packets = 2
  Others = {o1}
INVARIANT TimeoutKeepsPackets
CHECK_DEADLOCK FALSE
