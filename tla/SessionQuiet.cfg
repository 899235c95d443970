CONSTANTS
  Clients = {c1, c2, c3}
  Servers = {s1, s2, s3}
  MaxServers = 3
  MaxSpecific = 0
  Backlog = 2
  Unopenable = {}
  Commands = {"ok", "bad", "dnz", "clang"}
  KillAt = {}
  CrashAt = {}
  StickyEof = FALSE
SPECIFICATION Spec
SYMMETRY Symmetry
INVARIANTS NoSpuriousFailure 
