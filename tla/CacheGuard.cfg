\* A header included between #ifndef and #endif is edited.
CONSTANTS
  Headers = {"h1", "h2"}
  Mains = {"m1", "m2"}
  Lines <- GuardProject
  Mutable = {}
  CSources = {}
  Macros = {"W"}
  Watched = {"W"}
  Args = {"a1"}
  Times = {0, 1, 2}
  Editable = {"h2"}
  Broken <- NoneBroken
  MaxFiles = 9
  NoArgs = NoArgs
SPECIFICATION Spec
INVARIANT ChangesCaught
