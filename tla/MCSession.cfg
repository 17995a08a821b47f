SPECIFICATION FairSpec
CONSTANTS
  Peer = {host, guest}
  Tunnelled = {guest}
  host = host
  guest = guest
  MaxRuns <- OneReturn
  MaxSids = 3
INVARIANTS TypeOK GhostsFaithful
PROPERTY AbandonedEnds
CHECK_DEADLOCK FALSE
