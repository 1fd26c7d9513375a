SPECIFICATION FairSpec
CONSTANTS
  r1 = r1
  r2 = r2
  s1 = s1
  Runs = {r1, r2}
  Scenes = {s1}
  Observations <- MCObservations
  None = None
  grid_of <- MCGrid
  FrameInterval = 2
  MaxGap = 6
  MaxSegmentFrames = 2
  Stop = Stop
  MaxAsked = 20
  MaxResets = 20
  MaxConnections = 2
INVARIANTS
  TargetsFit
  PictureOfPresentSource
  BetweenNeighbours
PROPERTIES
  PicturesAdvance
  CameraCatchesUp
CHECK_DEADLOCK FALSE
