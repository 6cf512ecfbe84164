CONSTANTS
  p1 = p1
  p2 = p2
  d1 = d1
  d2 = d2
  a = a
  b = b
  t1 = t1
  x = x
  y = y
  Procs = {p1, p2}
  Databases = {d1}
  DbOf <- OneDatabase
  Ids = {a, b}
  Payloads = {x, y}
  Tokens = {t1}
  Name <- OwnName
  MaxAttached = 2
  MaxRow = 2
  MaxAccidents = 1
  LeaseRaces = FALSE
  Faults = {"writer", "sync", "record", "unlink", "damage"}
SPECIFICATION Spec
INVARIANTS TypeOK ReferencedHasFile QueryOnlyRestored
PROPERTIES CurrentNeverVanishes RecoveryCollects
SYMMETRY Symmetry
CHECK_DEADLOCK FALSE
