CONSTANTS
  InCap = 2
  OutCap = 1
  AutoReconnect = TRUE
  PeerSends = {"frame"}
  MaxSessions = 2
  MaxSends = 1
SPECIFICATION Spec
PROPERTY BreaksWhenReaderExited
CHECK_DEADLOCK FALSE
