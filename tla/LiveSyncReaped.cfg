\* One tab and a notebook whose code is edited: the mark of a refused patch.
SPECIFICATION Spec
CONSTANTS
  Tabs = {t1}
  t1 = t1
  Docs <- DocsCode
  Codes <- CodesXYZ
  Capacity = 2
  SocketBound = 1
  MaxMessages = 5
  MaxEdits = 1
  SteadyLayout = TRUE
INVARIANTS
  RefusalRemembered
CHECK_DEADLOCK FALSE
