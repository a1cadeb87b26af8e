CONSTANTS
  InCap = 3
  OutCap = 2
  AutoReconnect = TRUE
  PeerSends = {"frame", "invalid", "oversized"}
  MaxSessions = 3
  MaxSends = 2

SPECIFICATION FairSpec
INVARIANTS TypeOK SessionsInOrder FlushDropsOld CleanStart IInv
PROPERTIES ImplementsSessions SessionsAreTold SessionEnds ShutdownStopsMantain
CHECK_DEADLOCK FALSE
