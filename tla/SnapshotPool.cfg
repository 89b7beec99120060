\* Three threads, up to four world groups, a generation that wraps after 3.
SPECIFICATION FairPoolSpec
CONSTANTS
  Worker = {w1, w2, w3}
  MaxJobs = 4
  Generations = 3
PROPERTIES ImplementsParallelFor RunReturns ShutDownReturns
\* A pool that was joined is gone.
CHECK_DEADLOCK FALSE
