SPECIFICATION FairSpec
CONSTANTS
  Threads = {t1}
  Handlers = {h1}
  Sweeper = sweeper
  MaxJobs = 1
  MaxTries = 1
  MaxSweeps = 3
  MaxCalls = 3
  MaxFaults = 2
CHECK_DEADLOCK FALSE
PROPERTIES
  EveryPurgeResolves
