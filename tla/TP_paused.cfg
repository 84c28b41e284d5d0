SPECIFICATION FairSpec
CONSTANTS
  Workers = {w1, w2}
  Tasks = {k1}
  WorkerMin = 1
  WorkerMax = 1
  TaskHint = 2
  MaxStarts = 1
  Uses <- PauseAndStop
PROPERTY ReqExitReturns
CHECK_DEADLOCK FALSE
