SPECIFICATION Spec
CONSTANTS
  NoHash <- MCNoHash
  Hash <- HashOfWindow
  Id <- IdOfWindow
  GenesisPeriod = 2
  Slip <- SlipOfWindow
  Parent <- ParentOfWindow
  Burnfee <- BurnfeeOfWindow
  FirstBlock <- FirstOfWindow
  GoldenTicketBlocks <- HashOfWindow
  Ungenerable = {}
  Unsound = {}
  BadTransactions = {}
  Spends <- SpendsOfWindow
  Creates <- CreatesOfWindow
  SlipId <- SlipIdOfWindow
  Amount <- AmountOfWindow
  Reserves <- ReservesOfWindow
  Checkpoint <- NoCheckpointOfWindow
  PruneAfter = 1
  MaxStakerRecursions = 3
  MinGoldenTicketsNumerator = 1
  MinGoldenTicketsDenominator = 3
  MaxCrashes = 1
INVARIANTS TypeOK RingIndexesBlocks RingAgreesWithFlags LongestChainIsLinked UtxosetIsReplay HeadIsTip NoStrandedBlock NoPanic GenesisIsServed RestartKeepsHeight
