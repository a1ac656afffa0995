CONSTANTS
  t1 = t1
  t2 = t2
  t3 = t3
  s1 = s1
  s2 = s2
  Tx <- MCTx
  Slip = {s1, s2}
  Inputs <- MCInputs
  Mine <- MCMine
  Numerator = 1
  Denominator = 2
  PeerBlocks <- MCPeerBlocks
  MaxBad = 0
SPECIFICATION Spec
CHECK_DEADLOCK FALSE
PROPERTY DiscardedAreCollected
