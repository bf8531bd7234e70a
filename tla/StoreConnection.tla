--------------------------- MODULE StoreConnection ---------------------------
(***************************************************************************)
(* The one Postgres connection of the process.                             *)
(*                                                                         *)
(* config.get_metadata_store() builds a single PostgresStore, and every    *)
(* request thread, queue loop, scheduler job and hook callback sends its    *)
(* statements through that object's _conn.  Three ways of using it:        *)
(*                                                                         *)
(*   execute      a statement of its own, committed by autocommit;         *)
(*   transaction  PostgresStore.transaction(): autocommit off, a body of    *)
(*                statements sent through execute, commit or rollback,      *)
(*                autocommit on again;                                      *)
(*   merge        entity_merge.merge_entities, which does the same on a     *)
(*                connection object it has taken out of the store.         *)
(*                                                                         *)
(* Every statement of the store is preceded by _ensure_conn: a SELECT 1    *)
(* that, when it raises, closes the connection and opens another one.      *)
(* What a connection object does with autocommit, errors and a lost server *)
(* is the driver's (psycopg2), modelled from how the code uses it.          *)
(*                                                                         *)
(* No lock keeps the threads apart and nothing keeps the connection for a  *)
(* body that has begun on it.  Two history variables, which no step reads,  *)
(* tell the calls that were left to themselves from those that were not.    *)
(***************************************************************************)
EXTENDS Naturals, FiniteSets

CONSTANTS
  Threads,     \* the threads that share the store
  Ops,         \* the ways they use it, a subset of Uses
  Conns,       \* connection objects; a discarded one is used again
  NoConn,      \* none
  MaxCalls,    \* bound: calls of each thread
  MaxTotal,    \* bound: calls of all of them
  MaxErrors,   \* bound: statements the server refuses
  MaxDrops     \* bound: times the server drops a connection or refuses one

Uses == {"execute", "transaction", "merge"}

ASSUME ThreadsAssumption == IsFiniteSet(Threads) /\ Threads # {}
ASSUME OpsAssumption == Ops \subseteq Uses
\* _conn, and the two a merge may hold for each thread, leave one to open.
ASSUME ConnsAssumption ==
  /\ IsFiniteSet(Conns) /\ NoConn \notin Conns
  /\ Cardinality(Conns) > 2 * Cardinality(Threads) + 1
ASSUME BoundsAssumption ==
  MaxCalls \in Nat /\ MaxTotal \in Nat /\ MaxErrors \in Nat /\ MaxDrops \in Nat

VARIABLES
  conn,      \* PostgresStore._conn
  open,      \* open, broken (the server has dropped it), closed
  auto,      \* the autocommit attribute of each connection
  txn,       \* ready: no transaction; begun; failed: refused a statement
  held,      \* the writes of each connection's transaction
  db,        \* the writes that are committed
  pc,        \* where each thread is in its call
  op,        \* which call that is
  call,      \* how many it has made
  sent,      \* writes of this call that were answered
  outer,     \* the conn of merge_entities
  inner,     \* the conn of _run_phase_a
  phase,     \* outside the try block, in its body, or past an exception in it
  returned,  \* writes of the calls that returned
  raised,    \* writes of the calls that raised
  errors, drops,
  mixed,     \* history: calls that met the body of another, or whose body
             \*   lost its connection
  spoiled    \* history: connections with a mixed body, until they are at rest

vars == <<conn, open, auto, txn, held, db, pc, op, call, sent, outer, inner,
          phase, returned, raised, errors, drops, mixed, spoiled>>

Writes == Threads \X (1..MaxCalls) \X (1..3)

\* A body of two statements is the shortest that can be left half done.  A
\* merge moves relations, re-points projections and deletes the loser: one
\* statement stands for each group.
Length == [transaction |-> 2, merge |-> 3]

-----------------------------------------------------------------------------
(* The driver.  A connection in autocommit has no transaction; one that is  *)
(* not begins a transaction with the next statement, whoever sends it, and  *)
(* a statement that is refused spoils it for all that follow.               *)

Answers(c) == open[c] = "open" /\ txn[c] # "failed"

Began(c) == [txn EXCEPT ![c] = IF auto[c] THEN "ready" ELSE "begun"]

\* autocommit can be assigned only between transactions.
Settable(c) == open[c] # "closed" /\ txn[c] = "ready"

\* commit() tells the server only of a transaction that has begun; one that
\* was refused a statement is rolled back, and nothing is raised.
CommitRaises(c) ==
  open[c] = "closed" \/ (open[c] = "broken" /\ txn[c] # "ready")

OnConnectLeft == FALSE
OnConnect == TRUE    \* conn.autocommit = True

Forget(c) ==
  /\ held' = [held EXCEPT ![c] = {}]
  /\ txn' = [txn EXCEPT ![c] = "ready"]

-----------------------------------------------------------------------------

Init ==
  /\ conn = CHOOSE c \in Conns : TRUE
  /\ open = [c \in Conns |-> IF c = conn THEN "open" ELSE "closed"]
  /\ auto = [c \in Conns |-> OnConnect]
  /\ txn = [c \in Conns |-> "ready"]
  /\ held = [c \in Conns |-> {}]
  /\ db = {}
  /\ pc = [t \in Threads |-> "idle"]
  /\ op = [t \in Threads |-> "execute"]
  /\ call = [t \in Threads |-> 0]
  /\ sent = [t \in Threads |-> {}]
  /\ outer = [t \in Threads |-> NoConn]
  /\ inner = [t \in Threads |-> NoConn]
  /\ phase = [t \in Threads |-> "outside"]
  /\ returned = {} /\ raised = {}
  /\ errors = 0 /\ drops = 0
  /\ mixed = {} /\ spoiled = {}

Goto(t, s) == pc' = [pc EXCEPT ![t] = s]

\* The call is over: what it wrote is filed under how it ended.
Finish(t, writes, ok) ==
  /\ Goto(t, "idle")
  /\ returned' = IF ok THEN returned \cup writes ELSE returned
  /\ raised' = IF ok THEN raised ELSE raised \cup writes
  /\ op' = [op EXCEPT ![t] = "execute"]
  /\ sent' = [sent EXCEPT ![t] = {}]
  /\ outer' = [outer EXCEPT ![t] = NoConn]
  /\ inner' = [inner EXCEPT ![t] = NoConn]
  /\ phase' = [phase EXCEPT ![t] = "outside"]

Continue(t, s) ==
  /\ Goto(t, s)
  /\ UNCHANGED <<op, sent, outer, inner, phase, returned, raised>>

\* Only the body and the commit are inside the try block.
Raise(t) ==
  IF phase[t] = "outside"
    THEN Finish(t, sent[t], FALSE)
    ELSE /\ Goto(t, "rollback")
         /\ phase' = [phase EXCEPT ![t] = "failed"]
         /\ UNCHANGED <<op, sent, outer, inner, returned, raised>>

\* transaction() looks _conn up each time it names it; a merge does not.
Mine(t) == IF op[t] = "merge" THEN outer[t] ELSE conn

Made == {c \in Threads \X (1..MaxCalls) : c[2] <= call[c[1]]}

Begin(t, o) ==
  /\ pc[t] = "idle" /\ call[t] < MaxCalls /\ Cardinality(Made) < MaxTotal
  /\ call' = [call EXCEPT ![t] = @ + 1]
  /\ op' = [op EXCEPT ![t] = o]
  /\ outer' = [outer EXCEPT ![t] = IF o = "merge" THEN conn ELSE NoConn]
  /\ Goto(t, IF o = "merge" THEN "off" ELSE "probe")
  /\ UNCHANGED <<conn, open, auto, txn, held, db, sent, inner, phase,
                 returned, raised, errors, drops>>

-----------------------------------------------------------------------------
(* _ensure_conn, in front of every statement of the store.                  *)

AfterProbe(t) ==
  CASE op[t] = "transaction" /\ phase[t] = "outside" -> "check"
    [] op[t] = "merge" /\ inner[t] = NoConn -> "look"
    [] op[t] = "merge" /\ Cardinality(sent[t]) = Length.merge -> "commit"
    [] OTHER -> "statement"

\* SELECT 1 is a statement like another: it can begin a transaction.
Probe(t) ==
  /\ pc[t] = "probe"
  /\ \/ Answers(conn) /\ txn' = Began(conn) /\ Continue(t, AfterProbe(t))
     \/ ~Answers(conn) /\ Continue(t, "close") /\ UNCHANGED txn
  /\ UNCHANGED <<conn, open, auto, held, db, call, errors, drops>>

\* Not necessarily the connection whose SELECT 1 has failed.
Close(t) ==
  /\ pc[t] = "close"
  /\ open' = [open EXCEPT ![conn] = "closed"]
  /\ Forget(conn)
  /\ Continue(t, "connect")
  /\ UNCHANGED <<conn, auto, db, call, errors, drops>>

Unused(c) == c # conn /\ \A t \in Threads : c \notin {outer[t], inner[t]}

Connect(t) ==
  /\ pc[t] = "connect"
  /\ \/ /\ conn' = CHOOSE c \in Conns : Unused(c)
        /\ open' = [open EXCEPT ![conn'] = "open"]
        /\ auto' = [auto EXCEPT ![conn'] = OnConnect]
        /\ Forget(conn')
        /\ Continue(t, AfterProbe(t))
        /\ UNCHANGED drops
     \/ /\ drops < MaxDrops /\ drops' = drops + 1
        /\ Raise(t)
        /\ UNCHANGED <<conn, open, auto, txn, held>>
  /\ UNCHANGED <<db, call, errors>>

-----------------------------------------------------------------------------
(* transaction() and merge_entities.                                        *)

Check(t) ==
  /\ pc[t] = "check"
  /\ IF auto[conn] THEN Continue(t, "off") ELSE Raise(t)
  /\ UNCHANGED <<conn, open, auto, txn, held, db, call, errors, drops>>

SwitchOffSkipped(t) ==
  /\ pc[t] = "off"
  /\ phase' = [phase EXCEPT ![t] = "body"]
  /\ Goto(t, "probe")
  /\ UNCHANGED <<conn, open, auto, txn, held, db, op, call, sent, outer, inner,
                 returned, raised, errors, drops>>

SwitchOff(t) ==
  /\ pc[t] = "off"
  /\ IF Settable(Mine(t))
       THEN /\ auto' = [auto EXCEPT ![Mine(t)] = FALSE]
            /\ phase' = [phase EXCEPT ![t] = "body"]
            /\ Goto(t, "probe")
            /\ UNCHANGED <<op, sent, outer, inner, returned, raised>>
       ELSE Raise(t) /\ UNCHANGED auto
  /\ UNCHANGED <<conn, open, txn, held, db, call, errors, drops>>

\* _run_phase_a takes the connection out of the store again.
Look(t) ==
  /\ pc[t] = "look"
  /\ inner' = [inner EXCEPT ![t] = conn]
  /\ Goto(t, "probe")
  /\ UNCHANGED <<conn, open, auto, txn, held, db, op, call, sent, outer, phase,
                 returned, raised, errors, drops>>

\* A merge re-points the projections through the store, with the rest it
\* uses the cursor of that connection.
Target(t) ==
  IF op[t] = "merge" /\ Cardinality(sent[t]) # 1 THEN inner[t] ELSE conn

Write(t) == <<t, call[t], Cardinality(sent[t]) + 1>>

\* The last look of a merge at its winner is a statement of the store.
Following(t, n) ==
  CASE op[t] = "transaction" /\ n = Length.transaction -> "commit"
    [] op[t] = "merge" /\ n = 2                        -> "statement"
    [] OTHER                                           -> "probe"

AfterWrite(t, writes) ==
  IF op[t] = "execute"
    THEN Finish(t, writes, TRUE)
    ELSE /\ Goto(t, Following(t, Cardinality(writes)))
         /\ sent' = [sent EXCEPT ![t] = writes]
         /\ UNCHANGED <<op, outer, inner, phase, returned, raised>>

Answered(t) ==
  /\ pc[t] = "statement" /\ Answers(Target(t))
  /\ txn' = Began(Target(t))
  /\ IF auto[Target(t)]
       THEN db' = db \cup {Write(t)} /\ UNCHANGED held
       ELSE /\ held' = [held EXCEPT ![Target(t)] = @ \cup {Write(t)}]
            /\ UNCHANGED db
  /\ AfterWrite(t, sent[t] \cup {Write(t)})
  /\ UNCHANGED <<conn, open, auto, call, errors, drops>>

\* What a transaction that is refused a statement held is lost already.
Refused(t) ==
  /\ pc[t] = "statement" /\ Answers(Target(t))
  /\ errors < MaxErrors /\ errors' = errors + 1
  /\ IF auto[Target(t)]
       THEN UNCHANGED <<txn, held>>
       ELSE /\ txn' = [txn EXCEPT ![Target(t)] = "failed"]
            /\ held' = [held EXCEPT ![Target(t)] = {}]
  /\ Raise(t)
  /\ UNCHANGED <<conn, open, auto, db, call, drops>>

Unanswered(t) ==
  /\ pc[t] = "statement" /\ ~Answers(Target(t))
  /\ Raise(t)
  /\ UNCHANGED <<conn, open, auto, txn, held, db, call, errors, drops>>

\* The body itself refuses: a collision, an entity that is not there.
BodyRaises(t) ==
  /\ pc[t] = "statement" /\ phase[t] = "body"
  /\ errors < MaxErrors /\ errors' = errors + 1
  /\ Raise(t)
  /\ UNCHANGED <<conn, open, auto, txn, held, db, call, drops>>

Commit(t) ==
  /\ pc[t] = "commit"
  /\ IF CommitRaises(Mine(t))
       THEN Raise(t) /\ UNCHANGED <<db, held, txn>>
       ELSE /\ db' = db \cup held[Mine(t)]
            /\ Forget(Mine(t))
            /\ Continue(t, "restore")
  /\ UNCHANGED <<conn, open, auto, call, errors, drops>>

RollbackSkipped(t) ==
  /\ pc[t] = "rollback"
  /\ Continue(t, "restore")
  /\ UNCHANGED <<conn, open, auto, txn, held, db, call, errors, drops>>

\* What a rollback raises is swallowed, or raised after the finally block.
Rollback(t) ==
  /\ pc[t] = "rollback"
  /\ IF open[Mine(t)] = "open" THEN Forget(Mine(t)) ELSE UNCHANGED <<held, txn>>
  /\ Continue(t, "restore")
  /\ UNCHANGED <<conn, open, auto, db, call, errors, drops>>

\* The finally block.
Restore(t) ==
  /\ pc[t] = "restore"
  /\ IF Settable(Mine(t))
       THEN /\ auto' = [auto EXCEPT ![Mine(t)] = TRUE]
            /\ Finish(t, sent[t], phase[t] = "body")
       ELSE Finish(t, sent[t], FALSE) /\ UNCHANGED auto
  /\ UNCHANGED <<conn, open, txn, held, db, call, errors, drops>>

-----------------------------------------------------------------------------

\* The server goes away: the driver finds out with the next statement.
Drop(c) ==
  /\ drops < MaxDrops /\ drops' = drops + 1
  /\ open[c] = "open"
  /\ open' = [open EXCEPT ![c] = "broken"]
  /\ held' = [held EXCEPT ![c] = {}]
  /\ UNCHANGED <<conn, auto, txn, db, pc, op, call, sent, outer, inner, phase,
                 returned, raised, errors>>

Step(t) ==
  \/ \E o \in Ops : Begin(t, o)
  \/ Probe(t) \/ Close(t) \/ Connect(t)
  \/ Check(t) \/ SwitchOff(t) \/ Look(t)
  \/ Answered(t) \/ Refused(t) \/ Unanswered(t) \/ BodyRaises(t)
  \/ Commit(t) \/ Rollback(t) \/ Restore(t)

-----------------------------------------------------------------------------
(* History.                                                                 *)

\* Between switching autocommit off and the end of the call.
Inside(t) == phase[t] # "outside"
Others(t) == {u \in Threads \ {t} : Inside(u)}
Quiet     == \A t \in Threads : ~Inside(t)

Current(t) == <<t, call[t]>>
AtRest(c)  == auto[c] /\ txn[c] = "ready"

\* A body begins on a connection that is lost, or no longer the store's.
Adrift(t) == pc[t] = "off" /\ (Mine(t) # conn \/ open[conn] # "open")

\* The threads whose calls are mixed by the next step of t: whoever is inside
\* when t uses the connection (even SELECT 1 begins a transaction), and t when
\* its own step then joins another, or a state that others have left behind.
Met(t) ==
  CASE pc[t] \in {"idle", "check", "look"} -> {}
    [] pc[t] \in {"probe", "close", "connect"} -> Others(t)
    [] OTHER -> Others(t) \cup
         {u \in {t} : Others(t) # {} \/ conn \in spoiled \/ Adrift(t)}

Notes(met) ==
  /\ mixed' = mixed \cup {Current(u) : u \in met}
  /\ spoiled' =
       IF Quiet' THEN IF AtRest(conn)' THEN spoiled \ {conn'} ELSE spoiled
       ELSE IF (\E t \in Threads : Inside(t) /\ Current(t) \in mixed)'
              THEN spoiled \cup {conn'} ELSE spoiled

-----------------------------------------------------------------------------

Next ==
  \/ \E t \in Threads : Step(t) /\ Notes(Met(t))
  \/ \E c \in Conns : Drop(c) /\ Notes({t \in Threads : Inside(t) /\ c = conn})

Spec == Init /\ [][Next]_vars

-----------------------------------------------------------------------------

\* Every variable has its type, and what a connection holds is a write.
TypeOK ==
  /\ conn \in Conns
  /\ open \in [Conns -> {"open", "broken", "closed"}]
  /\ auto \in [Conns -> BOOLEAN]
  /\ txn \in [Conns -> {"ready", "begun", "failed"}]
  /\ held \in [Conns -> SUBSET Writes]
  /\ db \in SUBSET Writes
  /\ pc \in [Threads -> {"idle", "probe", "close", "connect", "check", "off",
                         "look", "statement", "commit", "rollback", "restore"}]
  /\ op \in [Threads -> Uses]
  /\ call \in [Threads -> 0..MaxCalls]
  /\ sent \in [Threads -> SUBSET Writes]
  /\ outer \in [Threads -> Conns \cup {NoConn}]
  /\ inner \in [Threads -> Conns \cup {NoConn}]
  /\ phase \in [Threads -> {"outside", "body", "failed"}]
  /\ returned \in SUBSET Writes /\ raised \in SUBSET Writes
  /\ errors \in 0..MaxErrors /\ drops \in 0..MaxDrops
  /\ mixed \subseteq Threads \X (1..MaxCalls) /\ spoiled \subseteq Conns

\* The call of a write was left to itself.
Alone(w) == <<w[1], w[2]>> \notin mixed

\* What a call left to itself has written is in the database when it returns,
\* and stays there, over reconnects and whatever the other threads do before
\* and afterwards: execute "commits", transaction() commits on clean exit.
KeptWhenReturned == \A w \in returned : Alone(w) => w \in db

\* A call left to itself that raises has written nothing: its body is undone
\* as a whole, and nothing of it is committed by anyone later.
UndoneWhenRaised == \A w \in raised : Alone(w) => w \notin db

\* When no body is open and the connection is alive, transaction() and a merge
\* have put autocommit back unless a transaction was left open, which it was
\* only if bodies were mixed on this connection: otherwise the next execute
\* commits.
AutocommitAtRest ==
  Quiet /\ open[conn] = "open" =>
    /\ auto[conn] \/ txn[conn] # "ready"
    /\ conn \notin spoiled => AtRest(conn)

\* What the store promises its callers.
Store == INSTANCE AtomicStore WITH
           Bodies <- {Length.transaction, Length.merge}, excused <- mixed

\* Every call that was left to itself takes effect as a whole, in one step, or
\* not at all: PostgresStore.execute, transaction() and merge_entities are the
\* calls of AtomicStore, each committed between its first statement and its
\* return.
ImplementsAtomicStore == Store!Spec

\* metadata_store.py:41 and postgres_store.py:104: what execute, and a body on
\* clean exit, have written is committed; here when every call is over.
CommitsOnSuccess == (\A t \in Threads : pc[t] = "idle") => returned \subseteq db

=============================================================================
