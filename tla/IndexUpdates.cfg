CONSTANTS
  u1 = u1
  u2 = u2
  h = h
  g = g
  x = x
  Order <- UnitOrder
  Owned = {h, g}
  Unowned = {x}
  Contents = {"c1", "c2"}
  Includes <- IncludeTable
  Forced <- ForcedTable
  Broken <- BrokenTable
  Kinds = {"full", "selected", "rebuild"}
  Interrupts = TRUE
  EditsInPass = TRUE
  MaxEdits = 2
  MaxPasses = 3
SPECIFICATION Spec
INVARIANTS TypeOK UnitsCurrent
PROPERTIES HitSound PassCovers
CHECK_DEADLOCK FALSE
