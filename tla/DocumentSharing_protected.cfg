SPECIFICATION Spec
CONSTANTS
  MaxDocs = 2
  Ix <- MCIx
  Versions <- MCVersions
  Chunks <- MCChunks
  Worker = worker
  Threads = {t1, t2}
  Requests = {"share", "unshare", "ingest", "purge"}
  MaxJobs = 2
  MaxTries = 2
  MaxCalls = 2
  FaultAt = {"read", "hash", "recheck", "insert", "delete", "clear", "scroll", "upsert", "wipe", "write", "index", "look", "remove", "check", "sweep", "stamp"}
  MaxFaults = 1
  MaxCrashes = 1
CHECK_DEADLOCK FALSE
SYMMETRY ThreadSymmetry
INVARIANTS
  PurgedStaysPurged
  NeverStale
  HonestShare
  LastRequestWins
PROPERTIES
  ImplementsJobLedger
