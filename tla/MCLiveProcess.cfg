SPECIFICATION FairSpec
INVARIANTS
  NeverUsedAfterClose
  ReturnsClean
PROPERTIES
  ReturnsUnlessProducerStays
CHECK_DEADLOCK FALSE
