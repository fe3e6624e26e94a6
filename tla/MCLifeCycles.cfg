SPECIFICATION LifeCyclesSpec
CONSTANTS
  Listeners = {l1, l2}
  Clients = {k1}
  Closers = {c1, c2}
  Stoppers = {s1}
  Backends = {"asyncio", "trio"}
  Threads = {t1, t2, t3}
  Calls = {"serve_forever", "shutdown", "shutdown_timeout", "server_close", "is_serving"}
  MaxRuns = 2
  None = None
  Peers = {p1, p2}
  Backlog = 1
  Owners = {o1, o2}
INVARIANTS LifeCyclesTypeOK  NothingIsLeft OneRun
PROPERTY EveryCallEnds
