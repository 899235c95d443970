SPECIFICATION RSpec
CONSTANTS
  Clients <- MCClients
  Pids = {1, 2}
  Output <- MCOutput
  Outcome <- MCOutcome
  Unsuited = {"object"}
  DoNotZap = {"unwanted"}
  BufferSize = 2
  None = None
INVARIANTS
  TypeOK
  ExitCodeTrue
  TextTrue
  ResetComplete
PROPERTIES
  CommandsEnd
  ResetEnds
CHECK_DEADLOCK FALSE
