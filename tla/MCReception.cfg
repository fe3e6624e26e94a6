SPECIFICATION ReceptionSpec
CONSTANTS
  Values = {"CR", "LF", "X"}
  Separator <- CRLF
  Limit = 5
  StreamLength = 8
  JSONLimit = 4
  JSONLength = 5
  Sizes = {1, 3}
  FixedSize = 2
  FileLimit = 4
  BufferSize = 3
  MaxPackets = 3
  Packets = 2
  Others = {o1}
INVARIANTS PacketsIntact ClientIsReleased
PROPERTIES OnlyLongPacketsRefused 
CHECK_DEADLOCK FALSE
