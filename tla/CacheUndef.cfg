\* A main file that undefines the watched macro.
CONSTANTS
  Headers = {"h1"}
  Mains = {"m1", "m2"}
  Lines <- UndefProject
  Mutable = {}
  CSources = {}
  Macros = {"W"}
  Watched = {"W"}
  Args = {"a1"}
  Times = {0, 1}
  Editable = {}
  Broken <- NoneBroken
  MaxFiles = 9
  NoArgs = NoArgs
SPECIFICATION Spec
INVARIANT MacroChangesCaught
