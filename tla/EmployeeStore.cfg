SPECIFICATION Spec
CONSTANTS
  ann = ann
  bob = bob
  Employee = {ann, bob}
  Garbage = Garbage
  Absent = Absent
  Torn = Torn
  COUNT_MOD = 6
  FAULTS <- AllFaults
INVARIANTS
  HeaderDescribesTable
  LosesAtMostTheLastAdd
  WholeSaveRepairs
  IInv
PROPERTIES
  ImplementsDurableTable
CHECK_DEADLOCK FALSE
