\* One tab, documents that keep their layout: what a tab that keeps up shows.
SPECIFICATION Spec
CONSTANTS
  Tabs = {t1}
  t1 = t1
  Docs <- DocsSteady
  Codes <- CodesXYZ
  Capacity = 2
  SocketBound = 1
  MaxMessages = 5
  MaxEdits = 1
  SteadyLayout = TRUE
INVARIANTS
  TypeOK
PROPERTIES
  ImplementsPageView
  Settles
CHECK_DEADLOCK FALSE
