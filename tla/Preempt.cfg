SPECIFICATION Spec
CONSTANTS
  NumWorkers = 1
  Batch = 2
  RxDepth = 3
  MaxTasks = 3
  Contexts = {c1, c2}
  Null = Null
  Preemption = TRUE
  RequeueHead = FALSE
  Booted = FALSE
  SendFaults = TRUE
SYMMETRY ContextSymmetry
INVARIANT IInv ContextOwned ServesItsSlot
PROPERTY SlotStable
