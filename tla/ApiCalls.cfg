CONSTANTS
  Call = {c1, c2}
  Peer = {p1}
  All = All
  NoCall = NoCall
  Modules = 1
  MaxDrops = 1
SPECIFICATION Spec
CHECK_DEADLOCK FALSE
INVARIANTS TypeOK AnswersGoForward LatestKeepsItsIndex
PROPERTY ReceivedCallIsSettled
