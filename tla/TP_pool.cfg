SPECIFICATION FairSpec
CONSTANTS
  Workers = {w1, w2, w3}
  Tasks = {k1, k2, k3}
  WorkerMin = 1
  WorkerMax = 2
  TaskHint = 2
  MaxStarts = 2
  Uses <- AllUses
INVARIANT PoolAccounted
PROPERTIES QueuedRuns ExitHonoured
CHECK_DEADLOCK FALSE
