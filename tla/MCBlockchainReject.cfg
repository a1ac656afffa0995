SPECIFICATION Spec
CONSTANTS
  NoHash <- MCNoHash
  Hash <- HashOfReject
  Id <- IdOfReject
  GenesisPeriod = 10
  Slip <- HashOfReject
  Parent <- ParentOfReject
  Burnfee <- BurnfeeOfReject
  FirstBlock <- FirstOfReject
  GoldenTicketBlocks <- TicketsOfReject
  Ungenerable <- UngenerableOfReject
  Unsound <- UnsoundOfReject
  BadTransactions = {}
  Spends <- SpendsOfReject
  Creates <- CreatesOfReject
  SlipId <- IdOfReject
  Amount <- AmountOfReject
  Reserves <- ReservesOfReject
  Checkpoint <- NoCheckpointOfReject
  PruneAfter = 2
  MaxStakerRecursions = 3
  MinGoldenTicketsNumerator = 1
  MinGoldenTicketsDenominator = 3
  MaxCrashes = 1
INVARIANTS BlocksAreOnDisk LongestChainWins
PROPERTY KeepsLongestChain
