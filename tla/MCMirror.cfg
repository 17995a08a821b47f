CONSTANTS
  Peer = {a, b}
  Npc = {raider}
  NoPeer = nobody
  MaxEpoch = 3
  MaxFlight = 1
SPECIFICATION FairSpec
CHECK_DEADLOCK FALSE
INVARIANTS
  TypeOK
  AppliedFromNamedOwner
PROPERTIES
  ReleasedIsReelected
  OwnerViewHeals
