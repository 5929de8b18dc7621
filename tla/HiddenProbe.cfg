SPECIFICATION Spec
CONSTANTS
  Plans <- SmallPlans
  Runs <- Backward
  Threads = 2
  JobBuffer = 1
  PendingBuffer = 1
  MaxRetries = 1
INVARIANT ProbesDiffer
