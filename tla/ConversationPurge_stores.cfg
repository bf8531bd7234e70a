SPECIFICATION Spec
CONSTANTS
  Threads = {t1, t2}
  Handlers = {h1}
  Sweeper = sweeper
  MaxJobs = 1
  MaxTries = 1
  MaxSweeps = 1
  MaxCalls = 3
  MaxFaults = 1
CHECK_DEADLOCK FALSE
INVARIANTS
  NoLateWriter
  TombstoneIsTrue
  HonestDelete
  NoOrphanShare
SYMMETRY ProcessSymmetry
