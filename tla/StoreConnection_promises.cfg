\* A statement and two merges of two threads: what returns is not always
\* committed.
SPECIFICATION Spec
CONSTANTS
  Threads = {a, b}
  Ops <- StatementsAndMerges
  Conns = {c1, c2, c3, c4, c5, c6}
  NoConn = NoConn
  MaxCalls = 1
  MaxTotal = 2
  MaxErrors = 1
  MaxDrops = 0
INVARIANT CommitsOnSuccess
CHECK_DEADLOCK FALSE
