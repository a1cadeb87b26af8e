CONSTANTS
  Links = {l1, l2}
  Tokens = {t1}
  None = None
  TransCap = 1
  OutCap = 1
  PeerSends = {"invalid"}
SPECIFICATION FairSpec
PROPERTIES ShutdownEnds RelayedCloseDetaches
CHECK_DEADLOCK FALSE
