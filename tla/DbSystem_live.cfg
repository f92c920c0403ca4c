SPECIFICATION FairSpec
CONSTANTS
  c1 = c1
  c2 = c2
  Client = {c1, c2}
  Old = {c2}
  Cut = Cut
  None = None
  Malformed = Malformed
  Garbage = Garbage
  Absent = Absent
  Torn = Torn
  COUNT_MOD = 4
  MAX_CLIENTS = 1
  WINDOW = 2
  MAY <- KillAndCrash
INVARIANTS
  IInv
  OldAddNothing
PROPERTIES
  EveryClientEnds
CHECK_DEADLOCK FALSE
