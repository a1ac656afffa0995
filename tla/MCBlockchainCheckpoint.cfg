SPECIFICATION Spec
CONSTANTS
  NoHash <- MCNoHash
  Hash <- HashOfCheckpoint
  Id <- IdOfCheckpoint
  GenesisPeriod = 10
  Slip <- SlipOfCheckpoint
  Parent <- ParentOfCheckpoint
  Burnfee <- BurnfeeOfCheckpoint
  FirstBlock <- FirstOfCheckpoint
  GoldenTicketBlocks <- HashOfCheckpoint
  Ungenerable = {}
  Unsound <- UnsoundOfCheckpoint
  BadTransactions = {}
  Spends <- SpendsOfCheckpoint
  Creates <- CreatesOfCheckpoint
  SlipId <- SlipIdOfCheckpoint
  Amount <- AmountOfCheckpoint
  Reserves <- ReservesOfCheckpoint
  Checkpoint <- CheckpointOfCheckpoint
  PruneAfter = 2
  MaxStakerRecursions = 3
  MinGoldenTicketsNumerator = 1
  MinGoldenTicketsDenominator = 3
  MaxCrashes = 0
INVARIANT LongestChainIsLinked
PROPERTIES AddBlocksTerminates
