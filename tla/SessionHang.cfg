CONSTANTS
  Clients = {c1, c2}
  Servers = {s1, s2}
  MaxServers = 1
  MaxSpecific = 0
  Backlog = 2
  Unopenable = {}
  Commands = {"ok"}
  KillAt <- BetweenConnects
  CrashAt = {}
  StickyEof = TRUE
SPECIFICATION FairSpec
PROPERTIES EveryRunEnds
