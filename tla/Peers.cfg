CONSTANTS
  MaxSockets = 2
  MaxFailures = 1
  MaxStale = 1
  MaxPings = 1
SPECIFICATION Spec
CHECK_DEADLOCK FALSE
INVARIANTS TypeOK AddressIsOfThePeer ConnectedHasSocket
PROPERTY ClientConnects
