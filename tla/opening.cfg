CONSTANTS
  Links = {l1}
  Tokens = {t1}
  None = None
  TransCap = 2
  OutCap = 4
  PeerSends = {"data", "settings", "upgrade", "garbage"}
  MaxAnswers = 2

SPECIFICATION OpeningFairSpec
INVARIANTS AnswerFirst HandshakeTakesEcho AttachedBeforeData OpeningIInv
PROPERTY HandshakeEnds
CHECK_DEADLOCK FALSE
