SPECIFICATION Spec
CONSTANTS
  Peer = {a, b}
  NoPeer = nobody
  MaxChanges = 3
  MaxKills = 2
PROPERTY CorpseStaysDead
CHECK_DEADLOCK FALSE
