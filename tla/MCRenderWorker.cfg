SPECIFICATION FairSpec
CONSTANTS
  Requests = {r1}
  None = None
  Stop = Stop
  MaxAsked = 4
  MaxResets = 2
INVARIANTS
  TypeOK
  OneJob
  NothingLost
  NoErrorMeansShown
PROPERTIES
  ImplementsLatest
  EventuallyAnswered
  CloseReturns
CHECK_DEADLOCK FALSE
