SPECIFICATION Spec
CONSTANTS
  Count = 4
  Workers = {w1, w2, w3}
  h1 = h1
  h2 = h2
  Keys <- MCKeys
  Current <- MCCurrent
  Includes <- MCIncludes
  Digests <- MCDigests
  Bytes <- MCBytes
  NoGrant = NoGrant
  NoRow = NoRow
  MaxQueueItems = 2
  MaxQueueBytes = 2
  MaxRetries = 1
  MaxEdits = 0
  Faults = {"parse", "window", "observer", "spawn", "cancel"}
SYMMETRY WorkerSymmetry
INVARIANT HeadersCovered
PROPERTY SerialSpec
