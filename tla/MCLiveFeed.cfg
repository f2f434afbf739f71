SPECIFICATION Spec
CONSTANTS
  Consoles = {c1, c2}
  Screens = {c1}
  BufferSize = 2
  MaxVersion = 4
INVARIANTS
  TypeOK
  NewestIsComing
PROPERTIES
  ConnectedScreenConverges
CHECK_DEADLOCK FALSE
