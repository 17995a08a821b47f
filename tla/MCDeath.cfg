SPECIFICATION FairSpec
CONSTANTS
  Peer = {a, b}
  NoPeer = nobody
  MaxChanges = 3
  MaxKills = 2
INVARIANTS TypeOK DeathsAgree
PROPERTY DeathCarriedOut
CHECK_DEADLOCK FALSE
