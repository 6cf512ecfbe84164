SPECIFICATION Spec
CONSTANTS
  Rebuilders = {r1, r2}
  Writers = {w1}
  Files = {f1, f2}
  Inodes = {i1, i2, i3, i4, i5}
  NoFile = NoFile
  MayRace = FALSE
  MaxAccidents = 1
  Faults = {"busy", "copy", "replay", "pass", "pending", "discover", "sync", "rename"}
SYMMETRY Symmetry
INVARIANTS TypeOK NoWriteLost TargetWhole NothingLeftBehind
PROPERTY OnlyVerifiedPublished
