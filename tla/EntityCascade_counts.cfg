SPECIFICATION Spec
CONSTANTS
  d1 = d1
  d2 = d2
  e1 = e1
  e2 = e2
  Docs = {d1, d2}
  Entities = {e1, e2}
  Mentioned <- MCMentioned
  Rooted = {e2}
  Worker = w
  Threads = {t1, t2}
  Requests = {"share", "unshare", "ingest", "purge", "withdraw", "publish", "unpublish"}
  MaxCalls = 3
  MaxFaults = 1
INVARIANTS OrphanFree MentionedIsShared AskedIsShared NoHiddenPoint
SYMMETRY MCSymmetry
CHECK_DEADLOCK FALSE
