\* Statements, transactions and merges of two threads on one connection, with
\* nothing that keeps them apart, refused statements and lost connections.
SPECIFICATION Spec
CONSTANTS
  Threads = {a, b}
  Ops <- Everything
  Conns = {c1, c2, c3, c4, c5, c6}
  NoConn = NoConn
  MaxCalls = 2
  MaxTotal = 3
  MaxErrors = 1
  MaxDrops = 1
SYMMETRY Symmetry
INVARIANTS
  KeptWhenReturned
  AutocommitAtRest
PROPERTY ImplementsAtomicStore
CHECK_DEADLOCK FALSE
