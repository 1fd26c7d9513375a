SPECIFICATION FairSpec
CONSTANTS
  None = None
  Junk = Junk
  Defaults <- MCDefaults
  Maxima <- MCMaxima
  Environments <- MCEnvironments
  Texts <- MCTexts
  MaxDescriptorBytes = 9
  Networks <- MCNetworks
  Devices <- MCDevices
  Interval = 3
  MaxStall = 7
  MaxParts = 2
INVARIANTS
  CadenceKept
PROPERTIES
  OnlyDeviceErrorsEnd
  BackoffFollowsFrames
  NeverStuck
CHECK_DEADLOCK FALSE
