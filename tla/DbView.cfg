SPECIFICATION Spec
CONSTANTS
  r1 = r1
  r2 = r2
  Run = {r1, r2}
  ann = ann
  bob = bob
  Employee = {ann, bob}
  Malformed = Malformed
  None = None
  Garbage = Garbage
  Absent = Absent
  Torn = Torn
  Unread = Unread
  COUNT_MOD = 4
INVARIANTS
  AloneRunIsAtomic
  AcceptedNeverShorter
  IInv
SYMMETRY Alike
