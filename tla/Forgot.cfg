SPECIFICATION Spec
CONSTANTS
  NumWorkers = 1
  Batch = 1
  RxDepth = 2
  MaxTasks = 2
  Contexts = {c1}
  Null = Null
  Preemption = FALSE
  RequeueHead = FALSE
  Booted = TRUE
  SendFaults = FALSE
INVARIANT IdleNeverForgotten
