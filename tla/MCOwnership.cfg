CONSTANTS
  Peer = {a, b}
  Npc = {raider}
  NoPeer = nobody
  HeartbeatTimeout = 1
  EngageWindow = 3
  DamageWindow = 3
  MinHold = 2
  DeadFidTtl = 2
  PendingDmgTtl = 1
  WEngage = 10
  WDistance = 1
  WDamage = 30
  DamageNorm = 4
  DamageCeiling = 50
  FlipNum = 13
  FlipDen = 10
  MinAbsDelta = 3
  Amounts = {1, 2}
  MaxHps = {3}
  MaxTime = 6
  MaxEpoch = 4
  MaxDamage = 3
SYMMETRY Symmetry
SPECIFICATION Spec
INVARIANTS
  TypeOK
  EpochsFresh
  TableAnnounced
  PoolConserved
  KilledStaysDead
  SilentOwnerBounded
PROPERTIES
  HandoffOnlyToFighter
  FightingOwnerKept
  ImplementsLease
