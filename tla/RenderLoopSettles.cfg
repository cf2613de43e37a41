\* Three inputs in every mixture of saves, drags and one Run, and one panic.
SPECIFICATION Spec
CONSTANTS
  Blocks = 1
  MaxEdits = 2
  MaxDrags = 2
  MaxRuns = 1
  MaxInputs = 3
  MaxPanics = 1
  Runaway <- MCFirstVersion
  Declaring <- MCDeclaring
  Unlinking <- MCSecondVersion
INVARIANTS
  TypeOK
  OnlyNewestRuns
  SettledPageCurrent
PROPERTIES
  NeverBackwards
  EchoOwnRender
  Settles
CHECK_DEADLOCK FALSE
