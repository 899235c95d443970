CONSTANTS
  Clients = {c1, c2}
  Servers = {s1, s2}
  MaxServers = 1
  MaxSpecific = 0
  Backlog = 1
  Unopenable = {}
  Commands = {"ok", "dnz"}
  KillAt <- OutsideConnects
  CrashAt <- AnyServerPoint
  StickyEof = FALSE
SPECIFICATION FairSpec
PROPERTIES EveryRunEnds EveryServerReturns ImplementsFairFarm
