CONSTANTS
  p1 = p1
  p2 = p2
  Above = {2, 3}
  ServedByFirst = {2, 3}
  ServedBySecond = {2}
  AnnouncedByFirst = {2, 3}
  AnnouncedBySecond = {2}
  CorruptedBySecond = {}
  Invalid = {}
  BatchSize = 1
  MaxRetries = 1
  MaxAnnouncements = 1
  MaxFailures = 0
  Static = {p2}
  Root = 1
  Peer <- MCPeer
  Header <- MCHeader
  Id <- MCId
  Parent <- MCParent
  Serves <- MCServes
  Announces <- MCAnnounces
  Corrupts <- MCCorrupts
  HasUrl = {p1, p2}
SPECIFICATION Spec
CHECK_DEADLOCK FALSE
PROPERTY EntriesLeaveForAReason
