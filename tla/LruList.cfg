CONSTANTS
  Node = {a, b, c, d}
  Null = Null
  NrScans = 2
  Targets = {1, 2}
SPECIFICATION Spec
INVARIANTS
  ListsSound
PROPERTIES
  LockReleased
  ShrinkMakesRoom
  ImplementsPool
