SPECIFICATION Spec
CONSTANTS
  Sessions <- MCSessions
  Threads <- MCThreads
  Home <- MCHome
  Schema <- MCSchema
  Keys <- MCKeys
  Bytes <- MCBytes
  Caps = {2}
  Ages = {1}
  MaxClock = 1
  MaxCalls = 4
  MaxCrashes = 1
INVARIANTS
  TypeOK
  NewerStaysUntouched
  PruneFits
PROPERTIES
  RowsAreFinal
CHECK_DEADLOCK FALSE
