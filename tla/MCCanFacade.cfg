SPECIFICATION Spec
CONSTANTS
  t1 = t1
  t2 = t2
  Types = {t1, t2}
  NoType = NoType
  MaxEntries = 2
  DwordSize = 65536
SYMMETRY TypesSymmetry
INVARIANTS
  FacadeTypeOK
  CheckedOpenIsUsable
  NothingLeftOpen
  DeadUntilReopened
