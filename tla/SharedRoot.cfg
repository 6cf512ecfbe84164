CONSTANTS
  p1 = p1
  p2 = p2
  d1 = d1
  d2 = d2
  a = a
  b = b
  t1 = t1
  x = x
  y = y
  Procs = {p1, p2}
  Databases = {d1, d2}
  DbOf <- OwnDatabase
  Ids = {a}
  Payloads = {x}
  Tokens = {t1}
  Name <- OwnName
  MaxAttached = 1
  MaxRow = 1
  MaxAccidents = 0
  LeaseRaces = FALSE
  Faults = {}
SPECIFICATION Spec
INVARIANT ReferencedHasFile
CHECK_DEADLOCK FALSE
