CONSTANTS
  Thread = {s, t}
  MaxOps = 3
SPECIFICATION FairSubmitSpec
CHECK_DEADLOCK FALSE
INVARIANTS
  SubmitTypeOK
  NoWaiterLeaks
PROPERTIES
  ImplementsCall
  Returns
