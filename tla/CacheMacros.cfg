\* A watched macro and one that nobody watches, an include between #ifndef and
\* #endif, a mutable header, a source file, and two kinds of arguments.
CONSTANTS
  Headers = {"c1", "h1", "h2", "h3"}
  Mains = {"m1", "m2", "m3"}
  Lines <- MacroProject
  Mutable = {"h3"}
  CSources = {"c1"}
  Macros = {"U", "W"}
  Watched = {"W"}
  Args = {"a1", "a2"}
  Times = {0, 1, 2}
  Editable = {"h1"}
  Broken <- SecondBroken
  MaxFiles = 9
  NoArgs = NoArgs
SPECIFICATION Spec
INVARIANT ResultIsFresh
INVARIANT FailureIsReal
