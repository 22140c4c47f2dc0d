SPECIFICATION Spec
CONSTANTS
  NumWorkers = 2
  NumPorts = 2
  Batch = 2
  RxDepth = 2
  MaxTasks = 4
  Fragments = {2}
  Contexts = {c1, c2}
  Null = Null
  Slo <- MCSlo
  HeadFirst <- MCHeadFirst
  Quantum = 1
  MaxTime = 4
SYMMETRY ContextSymmetry
INVARIANT TypeOK Accounted ServesItsSlot ExactlyOneFate ServedByObjective
PROPERTY ImplementsTypedQueues
