SPECIFICATION FairSpec
CONSTANTS
  Peer = {a, b}
  door = door
  twin = twin
  Key = {quest, global, door, twin, raider}
  Slot <- SharedDoor
  Global = {global}
  Lock = {door, twin}
  Actor = {raider}
  Val = {on, off}
  Locked = on
  NoVal = NoVal
  Save <- SameSave
  MaxMoves = 4
INVARIANTS TypeOK CalmConverges
PROPERTY Settles
CHECK_DEADLOCK FALSE
