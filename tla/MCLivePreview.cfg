SPECIFICATION FairSpec
CONSTANTS
  r1 = r1
  r2 = r2
  s1 = s1
  Runs = {r1, r2}
  Scenes = {s1}
  Observations <- MCObservations
  None = None
  Conns = {c1, c2, c3}
  Chunks <- MCChunks
  Bad = Bad
  Unhandled = Unhandled
  MaxRecords = 5
  Stop = Stop
  Requests <- MCRequests
  MaxAsked = 10
  MaxResets = 10
INVARIANTS
  PageShowsCurrentRun
  StatusAgrees
PROPERTIES
  UsesWorker
  PageCatchesUp
CHECK_DEADLOCK FALSE
