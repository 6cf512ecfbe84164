SPECIFICATION Spec
CONSTANTS
  Count = 3
  Workers = {w1, w2}
  h1 = h1
  h2 = h2
  Keys <- MCKeys
  Current <- MCCurrent
  Includes <- MCIncludes
  Digests <- MCDigests
  Bytes <- MCBytes
  NoGrant = NoGrant
  NoRow = NoRow
  MaxQueueItems = 2
  MaxQueueBytes = 2
  MaxRetries = 1
  MaxEdits = 0
  Faults = {"throw", "pch", "parse", "parse_changed", "extract", "changed", "window", "rollback", "writer", "observer", "spawn", "cancel"}
SYMMETRY WorkerSymmetry
INVARIANTS TypeOK NoOvertaking ExtractedOnce ReportMatchesCommit NoRankLost BufferBounded
PROPERTY CommitOrder
CHECK_DEADLOCK FALSE
