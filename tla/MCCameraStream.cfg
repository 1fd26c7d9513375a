SPECIFICATION FairSpec
CONSTANTS
  Clients = {c1, c2}
  Limit = 1
  Interval = 2
  SendTimeout = 7
  Dimensions = {TRUE, FALSE}
  MaxSources = 3
INVARIANTS
  PlacesCounted
  NoBacklog
PROPERTIES
  SessionsEnd
