SPECIFICATION FairSpec
CONSTANTS
  c1 = c1
  c2 = c2
  c3 = c3
  c4 = c4
  Conn = {c1, c2, c3, c4}
  None = None
  MAX_CLIENTS = 3
  BACKLOG = 1
  MAX_UNREAD = 1
INVARIANTS
  ScanIsSound
  IInv
PROPERTIES
  ImplementsMultiplexer
  EveryPeerServed
