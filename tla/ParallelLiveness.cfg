SPECIFICATION FairSpec
CONSTANTS
  Count = 3
  Workers = {w1, w2}
  h1 = h1
  h2 = h2
  Keys <- OneKey
  Current <- NoneCurrent
  Includes <- AllInclude
  Digests <- MCDigests
  Bytes <- MCBytes
  NoGrant = NoGrant
  NoRow = NoRow
  MaxQueueItems = 2
  MaxQueueBytes = 2
  MaxRetries = 1
  MaxEdits = 1
  Faults = {"parse", "window", "writer", "begin", "spawn", "cancel"}
PROPERTIES RowsNeverGoBack Termination
