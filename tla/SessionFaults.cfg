CONSTANTS
  Clients = {c1, c2, c3}
  Servers = {s1, s2}
  MaxServers = 1
  MaxSpecific = 0
  Backlog = 2
  Unopenable = {}
  Commands = {"ok", "dnz"}
  KillAt <- OutsideConnects
  CrashAt <- AnyServerPoint
  StickyEof = TRUE
SPECIFICATION Spec
SYMMETRY Symmetry
INVARIANTS StreamsOfOneClient QueuesInStep
