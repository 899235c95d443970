\* Edits of two headers, one of whose versions does not compile.
CONSTANTS
  Headers = {"h1", "h2"}
  Mains = {"m1", "m2"}
  Lines <- PlainProject
  Mutable = {}
  CSources = {}
  Macros = {"W"}
  Watched = {"W"}
  Args = {"a1"}
  Times = {0, 1, 2}
  Editable = {"h1", "h2"}
  Broken <- SecondBroken
  MaxFiles = 9
  NoArgs = NoArgs
SPECIFICATION FairSpec
INVARIANT TypeOK
INVARIANT ChangesCaught
INVARIANT NoDanglingInclude
PROPERTY EveryCommandEnds
