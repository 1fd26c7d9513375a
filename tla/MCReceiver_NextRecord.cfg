SPECIFICATION FairReceiver
CONSTANTS
  r1 = r1
  r2 = r2
  s1 = s1
  s2 = s2
  Runs = {r1, r2}
  Scenes = {s1, s2}
  Observations <- MCObservations
  None = None
  Conns = {c1, c2, c3}
  Chunks <- MCChunks
  Bad = Bad
  Unhandled = Unhandled
  MaxRecords = 4

PROPERTIES
  NextRecordProcessed
CHECK_DEADLOCK FALSE
