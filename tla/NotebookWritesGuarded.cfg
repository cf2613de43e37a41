\* Two tabs and an editor outside the browser write one notebook.
SPECIFICATION Spec
CONSTANTS
  Tabs = {t1, t2}
  PaneTabs = {t2}
  CellTabs = {t1}
  NoteTabs = {t1}
  t1 = t1
  t2 = t2
  Codes <- CodesXY
  Prose <- ProseP
  Notes <- NotesN
  FirstFile <- FilePX
  MaxLength = 3
  MaxChanges = 1
  MaxRequests = 2
INVARIANT
  TypeOK
PROPERTIES
  GuardedWrites
  AllAnswered
CHECK_DEADLOCK FALSE
