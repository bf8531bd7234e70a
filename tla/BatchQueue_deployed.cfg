SPECIFICATION FairSpec
CONSTANTS
  NumJobs = 2
  Users = {u1}
  Kinds = {"ingest_upload", "session_end"}
  Workers = {w1}
  MaxAttempts = 2
  MaxConcurrent = 1
  MaxCrashes = 1
INVARIANTS
  ExecutionsBounded
  DoneWasReturned
  CompletedShowsDone
PROPERTIES
  ImplementsLedger
  EveryJobSettles
CHECK_DEADLOCK FALSE
