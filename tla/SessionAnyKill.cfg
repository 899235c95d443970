CONSTANTS
  Clients = {c1, c2}
  Servers = {s1, s2}
  MaxServers = 1
  MaxSpecific = 1
  Backlog = 1
  Unopenable = {2}
  Commands = {"ok", "bad", "dnz"}
  KillAt <- AnyClientPoint
  CrashAt <- AnyServerPoint
  StickyEof = FALSE
SPECIFICATION Spec
SYMMETRY Symmetry
INVARIANTS TypeOK ConnectedHoldsLock OneListener AnswerIsOwn
PROPERTIES ImplementsFarm
