SPECIFICATION FairSpec
CONSTANT NumCpus = 8
CHECK_DEADLOCK FALSE
INVARIANT CountExact DeviceAfterQueues LoopsAfterDevice
PROPERTY AllStart
