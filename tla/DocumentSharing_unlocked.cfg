SPECIFICATION FairSpec
CONSTANTS
  MaxDocs = 3
  Ix <- MCIx
  Versions <- MCVersions
  Chunks <- MCChunksEmpty
  Worker = worker
  Threads = {t1}
  Requests = {"publish", "unpublish", "admin", "purge", "ingest", "share", "unshare"}
  MaxJobs = 1
  MaxTries = 2
  MaxCalls = 2
  FaultAt = {"lock", "sweep", "clear", "scroll"}
  MaxFaults = 1
  MaxCrashes = 1
CHECK_DEADLOCK FALSE
INVARIANTS
  PurgedRowsStayGone
  UnaskedStaysPrivate
PROPERTIES
  EveryOperationEnds
  EveryJobSettles
