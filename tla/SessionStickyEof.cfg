CONSTANTS
  Clients = {c1, c2}
  Servers = {s1, s2}
  MaxServers = 1
  MaxSpecific = 0
  Backlog = 2
  Unopenable = {}
  Commands = {"ok", "bad"}
  KillAt = {"send"}
  CrashAt = {}
  StickyEof = TRUE
SPECIFICATION Spec
SYMMETRY Symmetry
INVARIANTS AnswerIsOwn
