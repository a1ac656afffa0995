SPECIFICATION Spec
CONSTANTS
  NoHash <- MCNoHash
  Hash <- HashOfShort
  Id <- IdOfShort
  GenesisPeriod = 10
  Slip <- HashOfShort
  Parent <- ParentOfShort
  Burnfee <- BurnfeeOfShort
  FirstBlock <- FirstOfShort
  GoldenTicketBlocks <- HashOfShort
  Ungenerable = {}
  Unsound <- FirstBad
  BadTransactions = {}
  Spends <- SpendsOfShort
  Creates <- CreatesOfShort
  SlipId <- IdOfShort
  Amount <- AmountOfShort
  Reserves <- ReservesOfShort
  Checkpoint <- NoCheckpointOfShort
  PruneAfter = 2
  MaxStakerRecursions = 3
  MinGoldenTicketsNumerator = 1
  MinGoldenTicketsDenominator = 3
  MaxCrashes = 0
PROPERTIES AddBlocksTerminates
