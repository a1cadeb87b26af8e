CONSTANTS
  Links = {l1, l2}
  Tokens = {t1}
  None = None
  TransCap = 2
  OutCap = 1
  PeerSends = {"data", "settings", "other", "invalid", "unexpected", "upgrade", "garbage"}
SPECIFICATION Spec
INVARIANTS TypeOK IInv TokenIdentity AttachBeforeDetach NoFrameAfterDetach DetachCompletes
PROPERTY ImplementsRegistry
SYMMETRY Interchangeable
CHECK_DEADLOCK FALSE
