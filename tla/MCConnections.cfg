SPECIFICATION ConnectionsSpec
CONSTANTS
  Addresses = {a1, a2, a3}
  NoAddress = NoAddress
  Threads = {t1, t2}
  Packets = 2
  Datagrams = 2
  Timeouts = {2, Inf}
  Inf = Inf
  NoThread = NoThread
INVARIANTS ConnectionsTypeOK InTime NothingLost OneSocketLeft
PROPERTIES EverybodyIsLetGo
CHECK_DEADLOCK FALSE
