SPECIFICATION CSpec
CONSTANTS
  a = a
  b = b
  c = c
  d = d
  Session = {a, b, c, d}
  NoSession = NoSession
  MaxCounter = 6
SYMMETRY SessionSymmetry
INVARIANTS
  CTypeOK
  ListWellFormed
  NoOwnershipCycle
PROPERTIES
  ImplementsListenerSet
