SPECIFICATION Spec
CONSTANTS
  Processes = {p1}
  Names <- MCNames
  Impure <- MCImpure
  Free <- MCFree
  Definitions <- MCInline
  Files <- MCEditedFiles
  Level <- MCLevel
  Failure = "failure"
  MaxStatements = 6
SYMMETRY Symmetry
PROPERTIES
  ImplementsCalls
CHECK_DEADLOCK FALSE
