SPECIFICATION FairSpec
CONSTANTS
  NumWorkers = 1
  Batch = 2
  RxDepth = 2
  MaxTasks = 4
  Contexts = {c1}
  Null = Null
  Preemption = FALSE
  RequeueHead = FALSE
  Booted = TRUE
  SendFaults = TRUE
INVARIANT RequestOwned ExactlyOneFate AnsweredBeforeReturned LiveBounded IdleAccounted IdleReportDue
PROPERTY EveryTaskSettled MailboxReturns
