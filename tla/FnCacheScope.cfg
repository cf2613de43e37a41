SPECIFICATION Spec
CONSTANTS
  Processes = {p1, p2}
  Names <- MCNames
  Impure <- MCImpure
  Free <- MCFree
  Definitions <- MCDefinitions
  Files <- MCFiles
  Level <- MCLevel
  Failure = "failure"
  MaxStatements = 6
SYMMETRY Symmetry
INVARIANTS
  TypeOK
  ScopeIsPure
  NotForgotten
PROPERTIES
  ImplementsCalls
CHECK_DEADLOCK FALSE
