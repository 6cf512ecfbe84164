SPECIFICATION FairSpec
CONSTANTS
  Count = 2
  Workers = {w1, w2}
  h1 = h1
  h2 = h2
  Keys <- OneKey
  Current <- NoneCurrent
  Includes <- AllInclude
  Digests <- MCDigests
  Bytes <- MCBytes
  NoGrant = NoGrant
  NoRow = NoRow
  MaxQueueItems = 1
  MaxQueueBytes = 1
  MaxRetries = 1
  MaxEdits = 0
  Faults = {"throw"}
PROPERTY Termination
CHECK_DEADLOCK FALSE
