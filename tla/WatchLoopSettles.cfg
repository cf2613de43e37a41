SPECIFICATION WatchSpec
CONSTANTS
  Sources = {"_setup", "main", "part"}
  Place <- MCPlace
  Pages = {"main", "part"}
  Embeds <- MCEmbeds
  Bodies <- MCBodies
  Draws = {1, 2}
  MaxSaves = 2
  MaxRemovals = 1
INVARIANTS
  WatchTypeOK
  SettledCurrent
PROPERTIES
  Quiesces
CHECK_DEADLOCK FALSE
