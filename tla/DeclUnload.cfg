SPECIFICATION USpec
CONSTANTS
  Decls <- MCDecls
  Types = {"t"}
  Files <- MCFiles
  MainFiles = {"m.cc"}
  Implicit = {"i"}
  FileOf <- MCFileOf
  Text <- MCText
  Entity <- MCEntity
  SoftUses <- MCSoftUses
  HardUses <- MCHardUses
  LateUses <- MCLateUses
  Partials <- MCPartials
  MacroLines <- MCMacroLines
  None = None
INVARIANTS
  TypeOK
  NoDanglingReference
  
  OnlyWhatMust
  NoStaleDependents
  MappingLive
  ChainsInOrder
  ContextInOrder
  MacrosInOrder
