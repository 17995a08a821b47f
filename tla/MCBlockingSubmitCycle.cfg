CONSTANTS
  Thread = {s, t}
  MaxOps = 2
SPECIFICATION SubmitSpec
CHECK_DEADLOCK FALSE
INVARIANT
  NoLockCycle
