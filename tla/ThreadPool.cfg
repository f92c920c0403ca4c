SPECIFICATION FairSpec
CONSTANTS
  w1 = w1
  w2 = w2
  w3 = w3
  Worker = {w1, w2, w3}
  Main = Main
  None = None
  N_TASKS = 5
  QUEUE_SIZE = 2
INVARIANTS
  EachTaskOnce
  NoTaskWaitsForASleeper
  DestroyedUnused
  IInv
PROPERTIES
  ImplementsTaskQueue
  DestroyReturns
  QueuedTaskRuns
