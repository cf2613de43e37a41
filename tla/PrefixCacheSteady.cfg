SPECIFICATION Spec
CONSTANTS
  Sources <- MCSources
  Directives <- MCDirectives
  Proses <- MCProses
  Acts <- MCActs
  Widgets <- MCWidgets
  Values <- MCValues
  Docs <- MCSteadyDocs
  ReadsOf <- MCReadsOf
  Draws <- MCDraws
  Seeds <- MCSeeds
  Holds <- MCHolds
  Handles <- MCHandles
  Threads = {t1, t2}
  Seeded = seeded
  None = none
  MaxRenders = 3
SYMMETRY Symmetry
INVARIANTS
  TypeOK
  Transparent
PROPERTIES
  ReplaysDraws
  NoNeedlessRun
CHECK_DEADLOCK FALSE
