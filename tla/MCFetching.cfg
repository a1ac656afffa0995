CONSTANTS
  p1 = p1
  p2 = p2
  Above = {2, 3}
  ServedByFirst = {2, 3}
  ServedBySecond = {2}
  AnnouncedByFirst = {3}
  AnnouncedBySecond = {3}
  CorruptedBySecond = {}
  Invalid = {}
  BatchSize = 1
  MaxRetries = 1
  MaxAnnouncements = 2
  MaxFailures = 1
  Static = {p1}
  Root = 1
  Peer <- MCPeer
  Header <- MCHeader
  Id <- MCId
  Parent <- MCParent
  Serves <- MCServes
  Announces <- MCAnnounces
  Corrupts <- MCCorrupts
  HasUrl = {p1, p2}
SPECIFICATION Spec
CHECK_DEADLOCK FALSE
INVARIANTS TypeOK QuotaIsKept FetchingIsInHand
PROPERTIES JoinedBlocksLeaveLists ServedBlocksArrive
