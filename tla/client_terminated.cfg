CONSTANTS
  InCap = 1
  OutCap = 1
  AutoReconnect = FALSE
  PeerSends = {}
  MaxSessions = 1
  MaxSends = 0
SPECIFICATION FairSpec
PROPERTY MantainExitTerminates
CHECK_DEADLOCK FALSE
