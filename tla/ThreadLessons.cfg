SPECIFICATION FairSpec
CONSTANTS
  THREAD_COUNT = 3
  ROUNDS = 3
  None = None
INVARIANTS
  CountedAtLeast
  PrintsWhatIsDone
  ArgNotOlder
  IInv
PROPERTIES
  ProgramEnds
CHECK_DEADLOCK FALSE
