SPECIFICATION FairSpec
PROPERTIES
  RendererEndEndsProcess
CHECK_DEADLOCK FALSE
