CONSTANTS
  NoBlock = NoBlock
  a1 = a1
  a2 = a2
  a3 = a3
  b2 = b2
  b3 = b3
  b4 = b4
  Block <- MCBlock
  Parent <- MCParent
  Height <- MCHeight
  Limit = 2
  PruneAfter = 2
  Recursions = 2
  DeleteAfter = 3
  Spv = FALSE
  MaxHandlers = 3
SPECIFICATION Spec
CHECK_DEADLOCK FALSE
INVARIANTS TypeOK ChainIsConfirmed ConfirmedOnce LostWhenPast
PROPERTY ConfirmationsArrive
