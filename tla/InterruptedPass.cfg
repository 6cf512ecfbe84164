CONSTANTS
  u1 = u1
  u2 = u2
  h = h
  g = g
  x = x
  Order <- UnitOrder
  Owned = {h, g}
  Unowned = {x}
  Contents = {"c1", "c2"}
  Includes <- IncludeTable
  Forced <- ForcedTable
  Broken <- BrokenTable
  Kinds = {"full"}
  Interrupts = TRUE
  EditsInPass = FALSE
  MaxEdits = 3
  MaxPasses = 4
SPECIFICATION Spec
PROPERTY PassUpdatesUnits
CHECK_DEADLOCK FALSE
