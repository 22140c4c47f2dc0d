SPECIFICATION Spec
CONSTANTS
  NumWorkers = 2
  Batch = 2
  RxDepth = 3
  MaxTasks = 3
  Contexts = {c1, c2}
  Null = Null
  Preemption = FALSE
  RequeueHead = FALSE
  Booted = TRUE
  SendFaults = FALSE
PROPERTY ImplementsWorkerQueues
SYMMETRY ContextSymmetry
INVARIANT TypeOK SlotHandOff MailboxHandOff QueueLengthExact
