SPECIFICATION Spec
CONSTANTS
  c1 = c1
  c2 = c2
  Client = {c1, c2}
  Old = {}
  Cut = Cut
  None = None
  Malformed = Malformed
  Garbage = Garbage
  Absent = Absent
  Torn = Torn
  COUNT_MOD = 4
  MAX_CLIENTS = 2
  WINDOW = 4
  MAY <- SplitOnly
INVARIANTS
  EveryLineIsNext
CHECK_DEADLOCK FALSE
