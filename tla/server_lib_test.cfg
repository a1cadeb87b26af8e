CONSTANTS
  Links = {l1}
  Tokens = {t1}
  None = None
  TransCap = 2
  OutCap = 2
  PeerSends = {}
SPECIFICATION Spec
INVARIANT DetachedNoMoreThanAttached
CHECK_DEADLOCK FALSE
