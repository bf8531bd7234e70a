----------------------- MODULE StoreConnectionProofs -----------------------
(***************************************************************************)
(* Proofs about StoreConnection, for any number of threads, calls, refused *)
(* statements and lost connections, whoever uses the connection when: what *)
(* a call that was left to itself has returned for is kept, what it has    *)
(* raised for is undone, autocommit comes back, and so the store           *)
(* implements AtomicStore.                                                 *)
(*                                                                         *)
(* The argument: a body that is not mixed is the only one, on a live        *)
(* connection that holds exactly its writes (InBody), because every step    *)
(* that could take this from it, by whichever thread, mixes the call.  It   *)
(* begins on a connection in autocommit, because one that is not is either  *)
(* in use or spoiled (Rest).                                                *)
(***************************************************************************)
EXTENDS StoreConnection, FiniteSetTheorems, FunctionTheorems, TLAPS

USE ThreadsAssumption, OpsAssumption, ConnsAssumption, BoundsAssumption

-----------------------------------------------------------------------------
(***************************************************************************)
(* The parts of the inductive invariant                                    *)
(***************************************************************************)
\* The writes of a call so far, numbered in the order of its statements.
Prefix(t, n) == {<<t, call[t], k>> : k \in 1 .. n}
Numbered(t) ==
  /\ IsFiniteSet(sent[t]) /\ Cardinality(sent[t]) \in 0 .. 3
  /\ sent[t] = Prefix(t, Cardinality(sent[t]))

\* How many there are, where a call is; a body that is committed is complete.
Committed(t) == pc[t] = "restore" /\ phase[t] = "body"
Counted(t) ==
  /\ op[t] = "transaction" => Cardinality(sent[t]) <= 2
  /\ pc[t] = "statement" => Cardinality(sent[t]) <= 2
  /\ op[t] = "transaction" /\ pc[t] \in {"probe", "close", "connect", "statement"}
       => Cardinality(sent[t]) <= 1
  /\ pc[t] = "commit" \/ Committed(t)
       => Cardinality(sent[t]) = IF op[t] = "merge" THEN 3 ELSE 2

\* Where each kind of call can be, before its body, in it and past an exception.
Shape(t) ==
  /\ pc[t] = "idle" => op[t] = "execute"
  /\ pc[t] # "idle" => call[t] >= 1
  /\ op[t] = "execute" =>
       /\ pc[t] \in {"idle", "probe", "close", "connect", "statement"}
       /\ phase[t] = "outside"
  /\ op[t] # "merge" => outer[t] = NoConn /\ inner[t] = NoConn
  /\ op[t] = "merge" => outer[t] \in Conns
  /\ op[t] = "transaction" /\ phase[t] = "outside" =>
       pc[t] \in {"probe", "close", "connect", "check", "off"}
  /\ op[t] = "merge" /\ phase[t] = "outside" => pc[t] = "off"
  /\ phase[t] = "outside" => sent[t] = {} /\ inner[t] = NoConn
  /\ phase[t] = "body" =>
       pc[t] \in {"probe", "close", "connect", "look", "statement", "commit", "restore"}
  /\ phase[t] = "failed" => pc[t] \in {"rollback", "restore"}
  /\ pc[t] = "look" => op[t] = "merge" /\ inner[t] = NoConn
  /\ op[t] = "merge" /\ inner[t] = NoConn =>
       sent[t] = {} /\ pc[t] \notin {"statement", "commit"}

Control(t) == Numbered(t) /\ Counted(t) /\ Shape(t)

\* Transactions are of connections out of autocommit, and hold what is written;
\* one that has not begun is about to, or about to be over.
AutoReady  == \A c \in Conns : auto[c] => txn[c] = "ready"
BegunHolds == \A c \in Conns : txn[c] # "begun" => held[c] = {}
InUse ==
  open[conn] = "open" /\ ~auto[conn] /\ txn[conn] = "ready" =>
    \E t \in Threads : Inside(t) /\ Mine(t) = conn

\* A mixed body spoils the connection; one that is not spoiled is in autocommit
\* when nobody is inside.
Spoilt == \A t \in Threads : Inside(t) /\ Current(t) \in mixed => conn \in spoiled
Rest   == Quiet /\ open[conn] = "open" /\ conn \notin spoiled => auto[conn]

\* A body that is not mixed has the connection to itself.
Pure(t) == Inside(t) /\ Current(t) \notin mixed
InBody(t) == Pure(t) =>
  /\ Others(t) = {}
  /\ Mine(t) = conn /\ inner[t] \in {NoConn, conn}
  /\ open[conn] = "open" /\ ~auto[conn] /\ pc[t] \notin {"close", "connect"}
  /\ phase[t] = "body" /\ pc[t] # "restore" => txn[conn] # "failed" /\ held[conn] = sent[t]
  /\ phase[t] = "failed" => held[conn] \subseteq sent[t]
  /\ pc[t] = "restore" => txn[conn] = "ready"
  /\ IF Committed(t) THEN sent[t] \subseteq db ELSE sent[t] \cap db = {}

\* No transaction holds a write of a call that was left to itself, but of one
\* that is in its body.
HeldPure ==
  \A c \in Conns : \A w \in held[c] :
    Alone(w) => c = conn /\ Pure(w[1]) /\ w[2] = call[w[1]]

\* Writes belong to calls made; those of a call that is not over are among what
\* it has sent, and are not filed yet.
Past(w) ==
  /\ w[2] <= call[w[1]]
  /\ w[2] = call[w[1]] /\ pc[w[1]] # "idle" => w \in sent[w[1]]
Written == (\A w \in db : Past(w)) /\ \A c \in Conns : \A w \in held[c] : Past(w)
Filed ==
  \A w \in returned \cup raised :
    w[2] <= call[w[1]] /\ (w[2] = call[w[1]] => pc[w[1]] = "idle")

IInv == /\ TypeOK /\ \A t \in Threads : Control(t)
        /\ AutoReady /\ BegunHolds /\ InUse
        /\ Spoilt /\ Rest /\ (\A t \in Threads : InBody(t)) /\ HeldPure
        /\ Written /\ Filed /\ KeptWhenReturned /\ UndoneWhenRaised

-----------------------------------------------------------------------------
(***************************************************************************)
(* Facts about the operators                                               *)
(***************************************************************************)
\* A write has a thread, a call and a number.
LEMMA WriteParts ==
    ASSUME NEW w \in Writes
    PROVE  w[1] \in Threads /\ w[2] \in 1 .. MaxCalls /\ w[3] \in 1 .. 3
  BY DEF Writes

\* The next write of a call is new to it.
LEMMA NextWrite ==
    ASSUME TypeOK, NEW t \in Threads, Control(t), pc[t] = "statement"
    PROVE  /\ call[t] \in 1 .. MaxCalls
           /\ Write(t) \in Writes /\ Write(t) \notin sent[t]
           /\ Write(t) = <<t, call[t], Cardinality(sent[t]) + 1>>
           /\ Cardinality(sent[t]) \in 0 .. 2
           /\ IsFiniteSet(sent[t] \cup {Write(t)})
           /\ Cardinality(sent[t] \cup {Write(t)}) = Cardinality(sent[t]) + 1
           /\ sent[t] \cup {Write(t)} = Prefix(t, Cardinality(sent[t]) + 1)
  <1> DEFINE n == Cardinality(sent[t])
  <1>0. call[t] \in 1 .. MaxCalls
    <2>1. call[t] \in 0 .. MaxCalls /\ call[t] >= 1
      BY DEF TypeOK, Control, Shape
    <2> QED
      BY <2>1
  <1>1. n \in 0 .. 2 /\ IsFiniteSet(sent[t]) /\ sent[t] = Prefix(t, n)
    BY DEF Control, Numbered, Counted
  <1>2. Write(t) = <<t, call[t], n + 1>>
    BY DEF Write
  <1>3. Write(t) \in Writes
    BY <1>0, <1>1, <1>2 DEF Writes
  <1>4. Write(t) \notin sent[t]
    BY <1>1, <1>2 DEF Prefix
  <1>5. sent[t] \cup {Write(t)} = Prefix(t, n + 1)
    <2>1. 1 .. (n + 1) = (1 .. n) \cup {n + 1}
      BY <1>1
    <2> QED
      BY <2>1, <1>1, <1>2 DEF Prefix
  <1>6. IsFiniteSet(sent[t] \cup {Write(t)}) /\ Cardinality(sent[t] \cup {Write(t)}) = n + 1
    BY <1>1, <1>4, FS_AddElement
  <1> QED
    BY <1>0, <1>1, <1>2, <1>3, <1>4, <1>5, <1>6

\* What the threads hold is not more than there are of them.
LEMMA HeldByThreads ==
    ASSUME NEW S, NEW f \in [Threads -> S]
    PROVE  /\ IsFiniteSet({f[t] : t \in Threads})
           /\ Cardinality({f[t] : t \in Threads}) <= Cardinality(Threads)
  <1>1. f \in Surjection(Threads, {f[t] : t \in Threads})
    BY DEF Surjection
  <1> QED
    BY <1>1, FS_Surjection

\* There is a connection object to open, whatever the merges hold.
LEMMA Spare ==
    ASSUME TypeOK
    PROVE  (CHOOSE c \in Conns : Unused(c)) \in Conns
  <1> DEFINE A == {outer[t] : t \in Threads}
             B == {inner[t] : t \in Threads}
             T == Cardinality(Threads)
  <1>1. IsFiniteSet(A) /\ Cardinality(A) <= T /\ IsFiniteSet(B) /\ Cardinality(B) <= T
    <2>1. outer \in [Threads -> Conns \cup {NoConn}] /\ inner \in [Threads -> Conns \cup {NoConn}]
      BY DEF TypeOK
    <2>2. IsFiniteSet(A) /\ Cardinality(A) <= T
      BY ONLY <2>1, HeldByThreads
    <2>3. IsFiniteSet(B) /\ Cardinality(B) <= T
      BY ONLY <2>1, HeldByThreads
    <2> QED
      BY <2>2, <2>3
  <1>2. T \in Nat /\ Cardinality(A) \in Nat /\ Cardinality(B) \in Nat /\ Cardinality(Conns) \in Nat
    BY <1>1, FS_CardinalityType
  <1>3. IsFiniteSet(A \cup B) /\ Cardinality(A \cup B) <= 2 * T
    <2>1. /\ IsFiniteSet(A \cup B) /\ IsFiniteSet(A \cap B)
          /\ Cardinality(A \cup B) = Cardinality(A) + Cardinality(B) - Cardinality(A \cap B)
      BY <1>1, FS_Union, FS_Intersection
    <2>2. Cardinality(A \cap B) \in Nat
      BY <2>1, FS_CardinalityType
    <2> HIDE DEF A, B, T
    <2> QED
      BY <1>1, <1>2, <2>1, <2>2
  <1> DEFINE U == (A \cup B) \cup {conn}
  <1>4. IsFiniteSet(U) /\ Cardinality(U) <= 2 * T + 1
    <2>1. IsFiniteSet(U) /\ (Cardinality(U) = Cardinality(A \cup B) \/ Cardinality(U) = Cardinality(A \cup B) + 1)
      BY <1>3, FS_AddElement
    <2>2. Cardinality(A \cup B) \in Nat
      BY <1>3, FS_CardinalityType
    <2> HIDE DEF A, B, T, U
    <2> QED
      BY <1>2, <1>3, <2>1, <2>2
  <1>5. ~(Conns \subseteq U)
    <2>1. ASSUME Conns \subseteq U PROVE FALSE
      <3>1. Cardinality(Conns) <= Cardinality(U) /\ Cardinality(U) \in Nat
        BY <1>4, <2>1, FS_Subset, FS_CardinalityType
      <3> HIDE DEF U
      <3> QED
        BY <1>2, <1>4, <3>1
    <2> QED
      BY <2>1
  <1>6. PICK c \in Conns : c \notin U
    BY <1>5
  <1>7. Unused(c)
    BY <1>6 DEF Unused
  <1> QED
    BY <1>7

\* Where a call goes on when the connection answers, or has been replaced.
LEMMA Probed ==
    ASSUME NEW t \in Threads, Control(t)
    PROVE  /\ op[t] = "execute" => AfterProbe(t) = "statement"
           /\ op[t] = "transaction" =>
                AfterProbe(t) = IF phase[t] = "outside" THEN "check" ELSE "statement"
           /\ op[t] = "merge" =>
                AfterProbe(t) = IF inner[t] = NoConn THEN "look"
                                ELSE IF Cardinality(sent[t]) = 3 THEN "commit" ELSE "statement"
  <1>1. op[t] = "execute" => AfterProbe(t) = "statement"
    BY DEF AfterProbe
  <1>2. CASE op[t] = "transaction"
    BY <1>2 DEF AfterProbe
  <1>3. CASE op[t] = "merge"
    <2>1. Length.merge = 3
      BY DEF Length
    <2>2. CASE inner[t] = NoConn
      <3>1. Cardinality(sent[t]) = 0
        BY <1>3, <2>2, FS_EmptySet DEF Control, Shape
      <3> QED
        BY <1>3, <2>1, <2>2, <3>1 DEF AfterProbe
    <2>3. CASE inner[t] # NoConn
      BY <1>3, <2>1, <2>3 DEF AfterProbe
    <2> QED
      BY <1>3, <2>2, <2>3
  <1> QED
    BY <1>1, <1>2, <1>3

\* Where a call goes on after a write.
LEMMA Followed ==
    ASSUME NEW t \in Threads, NEW n \in 0 .. 3
    PROVE  /\ op[t] = "transaction" => Following(t, n) = IF n = 2 THEN "commit" ELSE "probe"
           /\ op[t] = "merge" => Following(t, n) = IF n = 2 THEN "statement" ELSE "probe"
  BY DEF Following, Length

\* What a call has sent is of that call.
LEMMA OfCall ==
    ASSUME NEW t \in Threads, Control(t)
    PROVE  \A w \in sent[t] : w[1] = t /\ w[2] = call[t]
  BY DEF Control, Numbered, Prefix

\* What is written or filed is a write.
LEMMA Parts ==
    ASSUME TypeOK
    PROVE  /\ \A w \in db \cup returned \cup raised : w[1] \in Threads /\ w[2] \in 1 .. MaxCalls
           /\ \A c \in Conns : \A w \in held[c] : w[1] \in Threads /\ w[2] \in 1 .. MaxCalls
           /\ \A t \in Threads : call[t] \in 0 .. MaxCalls
  <1>1. \A w \in db \cup returned \cup raised : w \in Writes
    BY DEF TypeOK
  <1>2. \A c \in Conns : \A w \in held[c] : w \in Writes
    BY DEF TypeOK
  <1>3. \A t \in Threads : call[t] \in 0 .. MaxCalls
    BY DEF TypeOK
  <1> QED
    BY <1>1, <1>2, <1>3, WriteParts

-----------------------------------------------------------------------------
(***************************************************************************)
(* The threads                                                             *)
(***************************************************************************)
\* What the invariant knows of a thread.
Row(t) == <<pc[t], op[t], call[t], sent[t], outer[t], inner[t], phase[t]>>

\* A step of one thread leaves the others where they are.
LEMMA OthersStand ==
    ASSUME TypeOK, NEW t \in Threads, NEW u \in Threads, u # t, Step(t)
    PROVE  Row(u)' = Row(u)
  <1> USE DEF Row
  <1>1. ASSUME NEW W, NEW ok, Finish(t, W, ok), call' = call
        PROVE  Row(u)' = Row(u)
    BY <1>1 DEF Finish, Goto, TypeOK
  <1>2. ASSUME NEW s, Continue(t, s), call' = call
        PROVE  Row(u)' = Row(u)
    BY <1>2 DEF Continue, Goto, TypeOK
  <1>3. ASSUME Raise(t), call' = call
        PROVE  Row(u)' = Row(u)
    BY <1>1, <1>3 DEF Raise, Goto, TypeOK
  <1>4. ASSUME NEW o \in Ops, Begin(t, o)
        PROVE  Row(u)' = Row(u)
    BY <1>4 DEF Begin, Goto, TypeOK
  <1>5. CASE Probe(t) \/ Close(t) \/ Connect(t) \/ Check(t)
    BY <1>2, <1>3, <1>5 DEF Probe, Close, Connect, Check
  <1>6. CASE SwitchOff(t) \/ Look(t)
    BY <1>3, <1>6 DEF SwitchOff, Look, Goto, TypeOK
  <1>7. CASE Answered(t)
    BY <1>1, <1>7 DEF Answered, AfterWrite, Goto, TypeOK
  <1>8. CASE Refused(t) \/ Unanswered(t) \/ BodyRaises(t)
    BY <1>3, <1>8 DEF Refused, Unanswered, BodyRaises
  <1>9. CASE Commit(t) \/ Rollback(t) \/ Restore(t)
    BY <1>1, <1>2, <1>3, <1>9 DEF Commit, Rollback, Restore
  <1> QED
    BY <1>4, <1>5, <1>6, <1>7, <1>8, <1>9 DEF Step

\* A thread that stays where it is keeps its part of the invariant.
LEMMA ControlStands ==
    ASSUME NEW u \in Threads, Control(u), Row(u)' = Row(u)
    PROVE  Control(u)'
  <1>1. /\ pc'[u] = pc[u] /\ op'[u] = op[u] /\ call'[u] = call[u] /\ sent'[u] = sent[u]
        /\ outer'[u] = outer[u] /\ inner'[u] = inner[u] /\ phase'[u] = phase[u]
    BY DEF Row
  <1>2. Numbered(u)'
    BY <1>1 DEF Control, Numbered, Prefix
  <1>3. Counted(u)'
    BY <1>1 DEF Control, Counted, Committed
  <1>4. Shape(u)'
    BY <1>1 DEF Control, Shape
  <1> QED
    BY <1>2, <1>3, <1>4 DEF Control

\* So does one that goes on without a write, if its new place fits.
LEMMA ControlMoves ==
    ASSUME NEW t \in Threads, Control(t), sent'[t] = sent[t], call'[t] = call[t], op'[t] = op[t],
           pc'[t] # "statement" \/ Cardinality(sent[t]) <= 2,
           op[t] = "transaction" /\ pc'[t] \in {"probe", "close", "connect", "statement"}
             => Cardinality(sent[t]) <= 1,
           pc'[t] = "commit" \/ (pc'[t] = "restore" /\ phase'[t] = "body")
             => Cardinality(sent[t]) = IF op[t] = "merge" THEN 3 ELSE 2,
           Shape(t)'
    PROVE  Control(t)'
  <1>1. Numbered(t)'
    BY DEF Control, Numbered, Prefix
  <1>2. Counted(t)'
    BY DEF Control, Counted, Committed
  <1> QED
    BY <1>1, <1>2 DEF Control

\* A thread with no call has the least to show.
LEMMA ControlEnds ==
    ASSUME TypeOK, NEW t \in Threads, NEW W, NEW ok, Finish(t, W, ok), call' = call
    PROVE  Control(t)' /\ pc'[t] = "idle" /\ phase'[t] = "outside"
  <1>1. /\ pc'[t] = "idle" /\ op'[t] = "execute" /\ sent'[t] = {}
        /\ outer'[t] = NoConn /\ inner'[t] = NoConn /\ phase'[t] = "outside"
    BY DEF Finish, Goto, TypeOK
  <1>2. Cardinality({}) = 0 /\ IsFiniteSet({}) /\ 1 .. 0 = {}
    BY FS_EmptySet
  <1>3. Numbered(t)'
    BY <1>1, <1>2 DEF Numbered, Prefix
  <1>4. Counted(t)'
    BY <1>1, <1>2 DEF Counted, Committed
  <1>5. Shape(t)'
    BY <1>1 DEF Shape
  <1> QED
    BY <1>1, <1>3, <1>4, <1>5 DEF Control

\* An exception ends a call, or sends its body to the rollback.
LEMMA ControlRaises ==
    ASSUME TypeOK, NEW t \in Threads, Control(t), Raise(t), pc[t] # "idle", call' = call
    PROVE  Control(t)' /\ pc'[t] \in {"idle", "rollback"} /\ phase'[t] # "body"
  <1>1. CASE phase[t] = "outside"
    BY <1>1, ControlEnds DEF Raise
  <1>2. CASE phase[t] # "outside"
    <2>1. /\ pc'[t] = "rollback" /\ phase'[t] = "failed" /\ UNCHANGED <<op, sent, outer, inner>>
      BY <1>2 DEF Raise, Goto, TypeOK
    <2>2. Shape(t)'
      BY <1>2, <2>1 DEF Control, Shape
    <2> QED
      BY <2>1, <2>2, ControlMoves
  <1> QED
    BY <1>1, <1>2

\* Every step keeps where a call can be.
LEMMA ControlKept ==
    ASSUME TypeOK, NEW t \in Threads, Control(t), Step(t)
    PROVE  Control(t)'
  <1>g. Cardinality({}) = 0
    BY FS_EmptySet
  <1>n. IsFiniteSet(sent[t]) /\ Cardinality(sent[t]) \in 0 .. 3
    BY DEF Control, Numbered
  <1>o. op[t] \in Uses /\ phase[t] \in {"outside", "body", "failed"} /\ call[t] \in 0 .. MaxCalls
    BY DEF TypeOK
  <1>1. ASSUME NEW o \in Ops, Begin(t, o) PROVE Control(t)'
    <2>1. /\ pc[t] = "idle" /\ op[t] = "execute" /\ sent[t] = {} /\ phase[t] = "outside"
          /\ inner[t] = NoConn /\ conn \in Conns /\ o \in Uses
      BY <1>1 DEF Begin, Control, Shape, TypeOK
    <2>2. /\ call'[t] = call[t] + 1 /\ op'[t] = o /\ sent'[t] = {} /\ phase'[t] = "outside" /\ inner'[t] = NoConn
          /\ outer'[t] = (IF o = "merge" THEN conn ELSE NoConn)
          /\ pc'[t] = IF o = "merge" THEN "off" ELSE "probe"
      BY <1>1, <2>1 DEF Begin, Goto, TypeOK
    <2>3. Numbered(t)'
      <3>1. IsFiniteSet({}) /\ 1 .. 0 = {}
        BY FS_EmptySet
      <3> QED
        BY <1>g, <2>2, <3>1 DEF Numbered, Prefix
    <2>4. Counted(t)'
      BY <1>g, <2>2 DEF Counted, Committed
    <2>5. Shape(t)'
      BY <1>o, <2>1, <2>2 DEF Shape, Uses
    <2> QED
      BY <2>3, <2>4, <2>5 DEF Control
  <1>a. /\ op[t] = "execute" => AfterProbe(t) = "statement" /\ Cardinality(sent[t]) = 0
        /\ op[t] = "transaction" => AfterProbe(t) = IF phase[t] = "outside" THEN "check" ELSE "statement"
        /\ op[t] = "merge" => AfterProbe(t) = IF inner[t] = NoConn THEN "look"
                                ELSE IF Cardinality(sent[t]) = 3 THEN "commit" ELSE "statement"
    BY <1>g, Probed DEF Control, Shape
  <1>2. ASSUME pc[t] \in {"probe", "connect"}, Continue(t, AfterProbe(t)), call' = call
        PROVE  Control(t)'
    <2>1. /\ pc'[t] = AfterProbe(t)
          /\ UNCHANGED <<op, sent, outer, inner, phase>>
      BY <1>2 DEF Continue, Goto, TypeOK
    <2>2. Shape(t)'
      BY <1>2, <1>a, <1>o, <2>1 DEF Control, Shape, Uses
    <2>3. op[t] = "transaction" => Cardinality(sent[t]) <= 1
      BY <1>2 DEF Control, Counted
    <2> QED
      BY <1>2, <1>a, <1>n, <1>o, <2>1, <2>2, <2>3, ControlMoves DEF Uses
  <1>3. ASSUME NEW s \in {"close", "connect"}, pc[t] \in {"probe", "close"}, Continue(t, s), call' = call
        PROVE  Control(t)'
    <2>1. pc'[t] = s /\ UNCHANGED <<op, sent, outer, inner, phase>>
      BY <1>3 DEF Continue, Goto, TypeOK
    <2>2. Shape(t)'
      BY <1>3, <1>o, <2>1 DEF Control, Shape, Uses
    <2>3. op[t] = "transaction" => Cardinality(sent[t]) <= 1
      BY <1>3 DEF Control, Counted
    <2> QED
      BY <1>3, <2>1, <2>2, <2>3, ControlMoves
  <1>4. CASE Probe(t) \/ Close(t) \/ Connect(t)
    BY <1>2, <1>3, <1>4, ControlRaises DEF Probe, Close, Connect
  <1>5. CASE Check(t)
    <2>1. CASE auto[conn]
      <3>1. pc[t] = "check" /\ pc'[t] = "off" /\ call' = call /\ UNCHANGED <<op, sent, outer, inner, phase>>
        BY <1>5, <2>1 DEF Check, Continue, Goto, TypeOK
      <3>2. Shape(t)'
        BY <1>o, <3>1 DEF Control, Shape, Uses
      <3> QED
        BY <3>1, <3>2, ControlMoves
    <2> QED
      BY <1>5, <2>1, ControlRaises DEF Check
  <1>6. CASE SwitchOff(t)
    <2>0. pc[t] = "off" /\ call' = call
      BY <1>6 DEF SwitchOff
    <2>1. phase[t] = "outside" /\ sent[t] = {} /\ op[t] \in {"transaction", "merge"}
      BY <1>o, <2>0 DEF Control, Shape, Uses
    <2>2. CASE Settable(Mine(t))
      <3>1. pc'[t] = "probe" /\ phase'[t] = "body" /\ UNCHANGED <<op, sent, outer, inner>>
        BY <1>6, <2>2 DEF SwitchOff, Goto, TypeOK
      <3>2. Shape(t)'
        BY <1>o, <2>0, <2>1, <3>1 DEF Control, Shape, Uses
      <3>3. Cardinality(sent[t]) = 0 /\ sent'[t] = sent[t] /\ op'[t] = op[t]
        BY <1>g, <2>1, <3>1
      <3> QED
        BY <2>0, <3>1, <3>2, <3>3, ControlMoves
    <2> QED
      BY <1>6, <2>0, <2>2, ControlRaises DEF SwitchOff
  <1>7. CASE Look(t)
    <2>1. /\ pc[t] = "look" /\ pc'[t] = "probe" /\ inner'[t] = conn /\ call' = call
          /\ UNCHANGED <<op, sent, outer, phase>> /\ conn \in Conns
      BY <1>7 DEF Look, Goto, TypeOK
    <2>2. Shape(t)' /\ op[t] = "merge"
      BY <1>o, <2>1 DEF Control, Shape, Uses
    <2> QED
      BY <2>1, <2>2, ControlMoves
  <1>8. CASE Answered(t)
    <2>0. pc[t] = "statement" /\ call' = call /\ AfterWrite(t, sent[t] \cup {Write(t)})
      BY <1>8 DEF Answered
    <2>1. CASE op[t] = "execute"
      BY <2>0, <2>1, ControlEnds DEF AfterWrite
    <2>2. CASE op[t] # "execute"
      <3> DEFINE n == Cardinality(sent[t]) + 1
      <3>1. /\ IsFiniteSet(sent[t] \cup {Write(t)}) /\ n \in 1 .. 3
            /\ Cardinality(sent[t] \cup {Write(t)}) = n /\ sent[t] \cup {Write(t)} = Prefix(t, n)
        <4>1. Cardinality(sent[t]) \in 0 .. 2
          BY <2>0, NextWrite
        <4>2. n \in 1 .. 3
          BY <4>1
        <4> QED
          BY <2>0, <4>2, NextWrite
      <3>2. /\ pc'[t] = Following(t, n) /\ sent'[t] = sent[t] \cup {Write(t)}
            /\ UNCHANGED <<op, outer, inner, phase>>
        BY <2>0, <2>2, <3>1 DEF AfterWrite, Goto, TypeOK
      <3>3. op[t] = "transaction" => n <= 2
        <4>1. op[t] = "transaction" => Cardinality(sent[t]) <= 1
          BY <2>0 DEF Control, Counted
        <4> QED
          BY <1>n, <4>1
      <3> HIDE DEF n
      <3>4. /\ op[t] = "transaction" => pc'[t] = IF n = 2 THEN "commit" ELSE "probe"
            /\ op[t] = "merge" => pc'[t] = IF n = 2 THEN "statement" ELSE "probe"
        BY <3>1, <3>2, Followed
      <3>5. op[t] \in {"transaction", "merge"} /\ phase[t] = "body"
        BY <1>o, <2>0, <2>2 DEF Control, Shape, Uses
      <3>6. Numbered(t)'
        <4>1. sent'[t] = {<<t, call'[t], k>> : k \in 1 .. n}
          BY <2>0, <3>1, <3>2 DEF Prefix
        <4>2. IsFiniteSet(sent'[t]) /\ Cardinality(sent'[t]) = n /\ n \in 0 .. 3
          BY <3>1, <3>2
        <4> QED
          BY <4>1, <4>2 DEF Numbered, Prefix
      <3>7. Counted(t)'
        BY <3>1, <3>2, <3>3, <3>4, <3>5 DEF Counted, Committed
      <3>8. Shape(t)'
        BY <2>0, <3>2, <3>4, <3>5 DEF Control, Shape
      <3> QED
        BY <3>6, <3>7, <3>8 DEF Control
    <2> QED
      BY <2>1, <2>2
  <1>9. CASE Refused(t) \/ Unanswered(t) \/ BodyRaises(t)
    BY <1>9, ControlRaises DEF Refused, Unanswered, BodyRaises
  <1>10. ASSUME pc[t] \in {"commit", "rollback"}, Continue(t, "restore"), call' = call
         PROVE  Control(t)'
    <2>1. pc'[t] = "restore" /\ UNCHANGED <<op, sent, outer, inner, phase>>
      BY <1>10 DEF Continue, Goto, TypeOK
    <2>2. Shape(t)'
      BY <1>10, <1>o, <2>1 DEF Control, Shape, Uses
    <2>3. phase[t] = "body" => pc[t] = "commit"
      BY <1>10 DEF Control, Shape
    <2>4. pc[t] = "commit" => Cardinality(sent[t]) = IF op[t] = "merge" THEN 3 ELSE 2
      BY DEF Control, Counted
    <2> QED
      BY <1>10, <2>1, <2>2, <2>3, <2>4, ControlMoves
  <1>11. CASE Commit(t) \/ Rollback(t)
    BY <1>10, <1>11, ControlRaises DEF Commit, Rollback
  <1>12. CASE Restore(t)
    BY <1>12, ControlEnds DEF Restore
  <1> QED
    BY <1>1, <1>4, <1>5, <1>6, <1>7, <1>8, <1>9, <1>11, <1>12 DEF Step

-----------------------------------------------------------------------------
(***************************************************************************)
(* Types                                                                   *)
(***************************************************************************)
History == mixed \subseteq Threads \X (1..MaxCalls) /\ spoiled \subseteq Conns

\* The end of a call and an exception keep the types of what they change.
LEMMA EndTyped ==
    ASSUME TypeOK, NEW t \in Threads, Raise(t) \/ \E ok \in BOOLEAN : Finish(t, sent[t], ok)
    PROVE  /\ pc' \in [Threads -> {"idle", "probe", "close", "connect", "check", "off",
                                   "look", "statement", "commit", "rollback", "restore"}]
           /\ op' \in [Threads -> Uses] /\ sent' \in [Threads -> SUBSET Writes]
           /\ outer' \in [Threads -> Conns \cup {NoConn}] /\ inner' \in [Threads -> Conns \cup {NoConn}]
           /\ phase' \in [Threads -> {"outside", "body", "failed"}]
           /\ returned' \in SUBSET Writes /\ raised' \in SUBSET Writes
  <1>1. ASSUME NEW ok \in BOOLEAN, Finish(t, sent[t], ok)
        PROVE  /\ pc' \in [Threads -> {"idle", "probe", "close", "connect", "check", "off",
                                       "look", "statement", "commit", "rollback", "restore"}]
               /\ op' \in [Threads -> Uses] /\ sent' \in [Threads -> SUBSET Writes]
               /\ outer' \in [Threads -> Conns \cup {NoConn}] /\ inner' \in [Threads -> Conns \cup {NoConn}]
               /\ phase' \in [Threads -> {"outside", "body", "failed"}]
               /\ returned' \in SUBSET Writes /\ raised' \in SUBSET Writes
    BY <1>1 DEF Finish, Goto, TypeOK, Uses
  <1>2. CASE Raise(t) /\ phase[t] = "outside"
    BY <1>1, <1>2 DEF Raise
  <1>3. CASE Raise(t) /\ phase[t] # "outside"
    BY <1>3 DEF Raise, Goto, TypeOK
  <1> QED
    BY <1>1, <1>2, <1>3

\* Every step keeps the types.
LEMMA Typed ==
    ASSUME TypeOK, NEW t \in Threads, Control(t), Step(t), History'
    PROVE  TypeOK'
  <1>a. AfterProbe(t) \in {"check", "look", "commit", "statement"}
    BY Probed DEF TypeOK, Uses
  <1>1. ASSUME NEW o \in Ops, Begin(t, o) PROVE TypeOK'
    BY <1>1 DEF Begin, Goto, TypeOK, History
  <1>2. CASE Probe(t)
    BY <1>2, <1>a DEF Probe, Continue, Goto, Began, TypeOK, History
  <1>3. CASE Close(t)
    BY <1>3 DEF Close, Continue, Goto, Forget, TypeOK, History
  <1>4. CASE Connect(t)
    <2>1. CASE Raise(t)
      <3>1. drops' \in 0 .. MaxDrops
        BY <1>4 DEF Connect, TypeOK
      <3>2. CASE UNCHANGED <<conn, open, auto, txn, held>>
        BY <1>4, <2>1, <3>1, <3>2, EndTyped DEF Connect, TypeOK, History
      <3>3. CASE conn' = (CHOOSE c \in Conns : Unused(c)) /\ Continue(t, AfterProbe(t))
        BY <1>a, <2>1, <3>3 DEF Continue, Raise, Finish, Goto, TypeOK
      <3> QED
        BY <1>4, <3>2, <3>3 DEF Connect
    <2>2. CASE ~Raise(t)
      <3>1. conn' \in Conns
        BY <1>4, <2>2, Spare DEF Connect
      <3>2. /\ open' = [open EXCEPT ![conn'] = "open"] /\ auto' = [auto EXCEPT ![conn'] = TRUE]
            /\ Forget(conn') /\ Continue(t, AfterProbe(t)) /\ UNCHANGED <<drops, db, call, errors>>
        BY <1>4, <2>2 DEF Connect, OnConnect
      <3> QED
        BY <1>a, <3>1, <3>2 DEF Continue, Goto, Forget, TypeOK, History
    <2> QED
      BY <2>1, <2>2
  <1>5. CASE Check(t)
    <2>1. CASE auto[conn]
      BY <1>5, <2>1 DEF Check, Continue, Goto, TypeOK, History
    <2>2. CASE ~auto[conn]
      BY <1>5, <2>2, EndTyped DEF Check, TypeOK, History
    <2> QED
      BY <2>1, <2>2
  <1>6. CASE SwitchOff(t)
    <2>1. CASE Settable(Mine(t))
      BY <1>6, <2>1 DEF SwitchOff, Goto, TypeOK, History
    <2>2. CASE ~Settable(Mine(t))
      BY <1>6, <2>2, EndTyped DEF SwitchOff, TypeOK, History
    <2> QED
      BY <2>1, <2>2
  <1>7. CASE Look(t)
    BY <1>7 DEF Look, Goto, TypeOK, History
  <1>8. CASE Answered(t)
    <2>1. pc[t] = "statement" /\ Write(t) \in Writes
      BY <1>8, NextWrite DEF Answered
    <2>2. /\ txn' \in [Conns -> {"ready", "begun", "failed"}] /\ db' \in SUBSET Writes
          /\ held' \in [Conns -> SUBSET Writes]
      <3>1. txn' \in [Conns -> {"ready", "begun", "failed"}]
        BY <1>8 DEF Answered, Began, TypeOK
      <3>2. db' \in SUBSET Writes
        BY <1>8, <2>1 DEF Answered, TypeOK
      <3>3. CASE auto[Target(t)]
        BY <1>8, <3>1, <3>2, <3>3 DEF Answered, TypeOK
      <3>4. CASE ~auto[Target(t)]
        <4>1. held' = [held EXCEPT ![Target(t)] = @ \cup {Write(t)}]
          BY <1>8, <3>4 DEF Answered
        <4> QED
          BY <2>1, <3>1, <3>2, <4>1 DEF TypeOK
      <3> QED
        BY <3>3, <3>4
    <2>3. sent[t] \cup {Write(t)} \in SUBSET Writes
      BY <2>1 DEF TypeOK
    <2>4. CASE op[t] = "execute"
      BY <1>8, <2>2, <2>3, <2>4 DEF Answered, AfterWrite, Finish, Goto, TypeOK, Uses, History
    <2>5. CASE op[t] # "execute"
      <3>1. Following(t, Cardinality(sent[t] \cup {Write(t)})) \in {"commit", "statement", "probe"}
        BY DEF Following
      <3> QED
        BY <1>8, <2>2, <2>3, <2>5, <3>1 DEF Answered, AfterWrite, Goto, TypeOK, History
    <2> QED
      BY <2>4, <2>5
  <1>9. CASE Refused(t)
    <2>1. /\ txn' \in [Conns -> {"ready", "begun", "failed"}] /\ held' \in [Conns -> SUBSET Writes]
          /\ errors' \in 0 .. MaxErrors
      BY <1>9 DEF Refused, TypeOK
    <2> QED
      BY <1>9, <2>1, EndTyped DEF Refused, TypeOK, History
  <1>10. CASE Unanswered(t)
    BY <1>10, EndTyped DEF Unanswered, TypeOK, History
  <1>11. CASE BodyRaises(t)
    <2>1. errors' \in 0 .. MaxErrors
      BY <1>11 DEF BodyRaises, TypeOK
    <2> QED
      BY <1>11, <2>1, EndTyped DEF BodyRaises, TypeOK, History
  <1>m. Mine(t) \in Conns \/ Mine(t) = NoConn
    BY DEF Mine, TypeOK
  <1>12. CASE Commit(t)
    <2>0. Mine(t) \in Conns
      BY <1>12 DEF Commit, Mine, Control, Shape, TypeOK
    <2>1. CASE CommitRaises(Mine(t))
      BY <1>12, <2>1, EndTyped DEF Commit, TypeOK, History
    <2>2. CASE ~CommitRaises(Mine(t))
      BY <1>12, <2>0, <2>2 DEF Commit, Forget, Continue, Goto, TypeOK, History
    <2> QED
      BY <2>1, <2>2
  <1>13. CASE Rollback(t)
    BY <1>13 DEF Rollback, Forget, Continue, Goto, TypeOK, History
  <1>14. CASE Restore(t)
    <2>1. \E ok \in BOOLEAN : Finish(t, sent[t], ok)
      BY <1>14 DEF Restore
    <2>2. auto' \in [Conns -> BOOLEAN]
      BY <1>14 DEF Restore, TypeOK
    <2> QED
      BY <1>14, <2>1, <2>2, EndTyped DEF Restore, TypeOK, History
  <1> QED
    BY <1>1, <1>2, <1>3, <1>4, <1>5, <1>6, <1>7, <1>8, <1>9, <1>10, <1>11, <1>12, <1>13, <1>14 DEF Step

\* The history names calls that have begun, and connections.
LEMMA HistoryTyped ==
    ASSUME TypeOK, \A t \in Threads : Control(t), conn' \in Conns,
           NEW met \in SUBSET {t \in Threads : pc[t] # "idle"}, Notes(met)
    PROVE  History'
  <1>1. \A t \in met : Current(t) \in Threads \X (1..MaxCalls)
    <2> SUFFICES ASSUME NEW t \in met
                 PROVE  Current(t) \in Threads \X (1..MaxCalls)
      OBVIOUS
    <2>1. call[t] \in 0 .. MaxCalls /\ call[t] >= 1 /\ t \in Threads
      BY DEF TypeOK, Control, Shape
    <2> QED
      BY <2>1 DEF Current
  <1>2. mixed' \subseteq Threads \X (1..MaxCalls)
    BY <1>1 DEF Notes, TypeOK
  <1>3. spoiled' \subseteq Conns
    BY DEF Notes, TypeOK
  <1> QED
    BY <1>2, <1>3 DEF History

\* Only a thread in a call meets others, and only inside is a call met.
LEMMA Meeting ==
    ASSUME NEW t \in Threads, \A u \in Threads : Control(u)
    PROVE  Met(t) \subseteq {u \in Threads : pc[u] # "idle"}
  <1>1. \A u \in Threads : Inside(u) => pc[u] # "idle"
    BY DEF Inside, Control, Shape
  <1>2. CASE pc[t] = "idle"
    BY <1>2 DEF Met
  <1>3. CASE pc[t] # "idle"
    <2>1. Met(t) \subseteq Others(t) \cup {t}
      BY DEF Met
    <2> QED
      BY <1>1, <1>3, <2>1 DEF Others
  <1> QED
    BY <1>2, <1>3

-----------------------------------------------------------------------------
(***************************************************************************)
(* The connections                                                         *)
(***************************************************************************)
\* The connection a body works on is one.
LEMMA MineIsOne ==
    ASSUME TypeOK, NEW t \in Threads, Control(t), Inside(t) \/ pc[t] \in {"off", "commit", "rollback", "restore"}
    PROVE  Mine(t) \in Conns
  BY DEF TypeOK, Control, Shape, Mine, Inside

\* A transaction that has not begun holds nothing, and in autocommit there is none.
LEMMA ConnsKept ==
    ASSUME TypeOK, AutoReady, BegunHolds, NEW t \in Threads, Control(t), Step(t)
    PROVE  AutoReady' /\ BegunHolds'
  <1> USE DEF AutoReady, BegunHolds, TypeOK
  <1>0. ASSUME UNCHANGED <<auto, txn, held>> PROVE AutoReady' /\ BegunHolds'
    BY <1>0
  <1>1. CASE (\E o \in Ops : Begin(t, o)) \/ Check(t) \/ Look(t) \/ Unanswered(t) \/ BodyRaises(t)
    BY <1>0, <1>1 DEF Begin, Check, Look, Unanswered, BodyRaises
  <1>2. CASE Probe(t)
    BY <1>2 DEF Probe, Began
  <1>3. CASE Close(t)
    BY <1>3 DEF Close, Forget
  <1>4. CASE Connect(t)
    BY <1>4 DEF Connect, Forget
  <1>5. CASE SwitchOff(t)
    BY <1>5 DEF SwitchOff
  <1>6. CASE Answered(t)
    <2>1. CASE auto[Target(t)]
      BY <1>6, <2>1 DEF Answered, Began
    <2>2. CASE ~auto[Target(t)]
      BY <1>6, <2>2 DEF Answered, Began
    <2> QED
      BY <2>1, <2>2
  <1>7. CASE Refused(t)
    BY <1>7 DEF Refused
  <1>8. CASE Commit(t)
    BY <1>8 DEF Commit, Forget
  <1>9. CASE Rollback(t)
    BY <1>9 DEF Rollback, Forget
  <1>10. CASE Restore(t)
    BY <1>10 DEF Restore, Settable
  <1> QED
    BY <1>1, <1>2, <1>3, <1>4, <1>5, <1>6, <1>7, <1>8, <1>9, <1>10 DEF Step

\* A call that is inside stays there, with the connection it has, until it has
\* been through its finally block.
LEMMA StaysInside ==
    ASSUME TypeOK, NEW t \in Threads, Control(t), Step(t), ~Restore(t), Inside(t) \/ (SwitchOff(t) /\ Settable(Mine(t)))
    PROVE  phase'[t] # "outside" /\ op'[t] = op[t] /\ outer'[t] = outer[t] /\ call'[t] = call[t]
  <1> USE DEF TypeOK
  <1>1. CASE SwitchOff(t) /\ Settable(Mine(t))
    BY <1>1 DEF SwitchOff
  <1> SUFFICES ASSUME Inside(t)
               PROVE  phase'[t] # "outside" /\ op'[t] = op[t] /\ outer'[t] = outer[t] /\ call'[t] = call[t]
    BY <1>1
  <1>2. pc[t] \notin {"idle", "check", "off"} /\ op[t] # "execute" /\ phase[t] \in {"body", "failed"}
    BY DEF Inside, Control, Shape
  <1>3. ASSUME Raise(t), call' = call
        PROVE  phase'[t] # "outside" /\ op'[t] = op[t] /\ outer'[t] = outer[t] /\ call'[t] = call[t]
    BY <1>2, <1>3 DEF Raise
  <1>4. ASSUME NEW s, Continue(t, s), call' = call
        PROVE  phase'[t] # "outside" /\ op'[t] = op[t] /\ outer'[t] = outer[t] /\ call'[t] = call[t]
    BY <1>2, <1>4 DEF Continue
  <1>5. CASE Probe(t) \/ Close(t) \/ Connect(t)
    BY <1>3, <1>4, <1>5 DEF Probe, Close, Connect
  <1>6. CASE Look(t)
    BY <1>2, <1>6 DEF Look
  <1>7. CASE Answered(t)
    BY <1>2, <1>7 DEF Answered, AfterWrite
  <1>8. CASE Refused(t) \/ Unanswered(t) \/ BodyRaises(t)
    BY <1>3, <1>8 DEF Refused, Unanswered, BodyRaises
  <1>9. CASE Commit(t) \/ Rollback(t)
    BY <1>3, <1>4, <1>9 DEF Commit, Rollback
  <1> QED
    BY <1>2, <1>5, <1>6, <1>7, <1>8, <1>9 DEF Step, Begin, Check, SwitchOff

\* A connection out of autocommit with no transaction has a body about to use it,
\* or about to put autocommit back.
LEMMA InUseKept ==
    ASSUME TypeOK, AutoReady, InUse, NEW t \in Threads, Control(t), Step(t)
    PROVE  InUse'
  <1> SUFFICES ASSUME open'[conn'] = "open", ~auto'[conn'], txn'[conn'] = "ready"
               PROVE  \E u \in Threads : phase'[u] # "outside" /\ (IF op'[u] = "merge" THEN outer'[u] ELSE conn') = conn'
    BY DEF InUse, Inside, Mine
  <1> DEFINE G == \E u \in Threads : phase'[u] # "outside" /\ (IF op'[u] = "merge" THEN outer'[u] ELSE conn') = conn'
  <1>t. conn \in Conns
    BY DEF TypeOK
  <1>a. ASSUME ~Restore(t), conn' = conn, Mine(t) = conn, Inside(t) \/ (SwitchOff(t) /\ Settable(Mine(t)))
        PROVE  G
    BY <1>a, StaysInside DEF Mine
  <1>b. ASSUME conn' = conn, open[conn] = "open", ~auto[conn], txn[conn] = "ready"
        PROVE  G
    <2>1. PICK u \in Threads : Inside(u) /\ Mine(u) = conn
      BY <1>b DEF InUse
    <2>2. CASE u # t
      <3>1. Row(u)' = Row(u)
        BY <2>2, OthersStand
      <3> QED
        BY <1>b, <2>1, <3>1 DEF Row, Inside, Mine
    <2>3. CASE u = t /\ Restore(t)
      BY <1>b, <1>t, <2>1, <2>3 DEF Restore, Settable, TypeOK
    <2>4. CASE u = t /\ ~Restore(t)
      BY <1>a, <1>b, <2>1, <2>4
    <2> QED
      BY <2>2, <2>3, <2>4
  <1>1. CASE UNCHANGED <<conn, open, auto, txn>>
    BY <1>1, <1>b
  <1>2. CASE Probe(t)
    <2>1. UNCHANGED <<conn, open, auto>> /\ (txn' = txn \/ txn' = [txn EXCEPT ![conn] = IF auto[conn] THEN "ready" ELSE "begun"])
      BY <1>2 DEF Probe, Began
    <2> QED
      BY <1>b, <1>t, <2>1 DEF TypeOK
  <1>3. CASE Close(t)
    BY <1>3, <1>t DEF Close, TypeOK
  <1>4. CASE Connect(t)
    <2>1. CASE auto' = [auto EXCEPT ![conn'] = TRUE]
      <3>1. conn' \in Conns
        BY <1>4, Spare DEF Connect, TypeOK
      <3> QED
        BY <2>1, <3>1 DEF TypeOK
    <2> QED
      BY <1>1, <1>4, <2>1 DEF Connect, OnConnect
  <1>5. CASE SwitchOff(t) /\ Settable(Mine(t))
    <2>1. CASE Mine(t) = conn
      BY <1>a, <1>5, <2>1 DEF SwitchOff, Restore
    <2>2. CASE Mine(t) # conn
      BY <1>b, <1>5, <1>t, <2>2 DEF SwitchOff, TypeOK
    <2> QED
      BY <2>1, <2>2
  <1>6. CASE Answered(t)
    <2>1. UNCHANGED <<conn, open, auto>> /\ txn' = [txn EXCEPT ![Target(t)] = IF auto[Target(t)] THEN "ready" ELSE "begun"]
      BY <1>6 DEF Answered, Began
    <2> QED
      BY <1>b, <1>t, <2>1 DEF TypeOK
  <1>7. CASE Refused(t)
    <2>1. UNCHANGED <<conn, open, auto>> /\ (txn' = txn \/ txn' = [txn EXCEPT ![Target(t)] = "failed"])
      BY <1>7 DEF Refused
    <2> QED
      BY <1>b, <1>t, <2>1 DEF TypeOK
  <1>8. CASE Commit(t) \/ Rollback(t)
    <2>1. UNCHANGED <<conn, open, auto>> /\ (txn' = txn \/ txn' = [txn EXCEPT ![Mine(t)] = "ready"])
          /\ ~Restore(t) /\ Inside(t)
      <3>1. pc[t] \in {"commit", "rollback"} /\ op[t] \in Uses
        BY <1>8 DEF Commit, Rollback, TypeOK
      <3>2. Inside(t)
        BY <3>1 DEF Inside, Control, Shape, Uses
      <3> QED
        BY <1>8, <3>1, <3>2 DEF Commit, Rollback, Forget, Restore
    <2>2. CASE Mine(t) = conn
      BY <1>a, <2>1, <2>2
    <2>3. CASE Mine(t) # conn
      BY <1>b, <1>t, <2>1, <2>3 DEF TypeOK
    <2> QED
      BY <2>2, <2>3
  <1>9. CASE Restore(t)
    <2>1. UNCHANGED <<conn, open, txn>> /\ (auto' = auto \/ auto' = [auto EXCEPT ![Mine(t)] = TRUE])
      BY <1>9 DEF Restore
    <2> QED
      BY <1>b, <1>t, <2>1 DEF TypeOK
  <1> QED
    BY <1>1, <1>2, <1>3, <1>4, <1>5, <1>6, <1>7, <1>8, <1>9
    DEF Step, Begin, Check, SwitchOff, Look, Unanswered, BodyRaises

-----------------------------------------------------------------------------
(***************************************************************************)
(* Bodies that are not mixed                                               *)
(***************************************************************************)
\* A mixed body spoils the connection.
LEMMA SpoiltKept ==
    ASSUME NEW met, Notes(met)
    PROVE  Spoilt'
  <1> SUFFICES ASSUME NEW t \in Threads, (Inside(t) /\ Current(t) \in mixed)'
               PROVE  conn' \in spoiled'
    BY DEF Spoilt
  <1>1. ~Quiet'
    BY DEF Quiet
  <1> QED
    BY <1>1 DEF Notes

\* Only switching autocommit off takes a thread inside.
LEMMA GoesInside ==
    ASSUME TypeOK, NEW t \in Threads, Control(t), Step(t), ~Inside(t), Inside(t)'
    PROVE  SwitchOff(t) /\ Settable(Mine(t))
  <1> USE DEF TypeOK, Inside
  <1>1. ASSUME NEW W, NEW ok, Finish(t, W, ok) PROVE ~Inside(t)'
    BY <1>1 DEF Finish
  <1>2. ASSUME NEW s, Continue(t, s) PROVE ~Inside(t)'
    BY <1>2 DEF Continue
  <1>3. ASSUME Raise(t) PROVE ~Inside(t)'
    BY <1>1, <1>3 DEF Raise
  <1>4. CASE (\E o \in Ops : Begin(t, o)) \/ Look(t)
    BY <1>4 DEF Begin, Look
  <1>5. CASE Probe(t) \/ Close(t) \/ Connect(t) \/ Check(t)
    BY <1>2, <1>3, <1>5 DEF Probe, Close, Connect, Check
  <1>6. CASE Answered(t)
    BY <1>1, <1>6 DEF Answered, AfterWrite
  <1>7. CASE Refused(t) \/ Unanswered(t) \/ BodyRaises(t)
    BY <1>3, <1>7 DEF Refused, Unanswered, BodyRaises
  <1>8. CASE Commit(t) \/ Rollback(t) \/ Restore(t)
    BY <1>1, <1>2, <1>3, <1>8 DEF Commit, Rollback, Restore
  <1>9. CASE SwitchOff(t)
    BY <1>3, <1>9 DEF SwitchOff
  <1> QED
    BY <1>4, <1>5, <1>6, <1>7, <1>8, <1>9 DEF Step

\* Where nobody is inside, the connection is in autocommit if it is not spoiled.
LEMMA RestKept ==
    ASSUME IInv, NEW t \in Threads, Step(t), Notes(Met(t))
    PROVE  Rest'
  <1> USE DEF IInv
  <1> SUFFICES ASSUME Quiet', open'[conn'] = "open", conn' \notin spoiled', ~auto'[conn']
               PROVE  FALSE
    BY DEF Rest
  <1>1. conn' \notin spoiled
    BY DEF Notes, AtRest
  <1>t. conn \in Conns
    BY DEF TypeOK
  <1>2. CASE Restore(t)
    <2>1. conn' = conn /\ Inside(t) /\ pc[t] = "restore"
      <3>1. pc[t] = "restore" /\ op[t] \in Uses /\ conn' = conn
        BY <1>2 DEF Restore, TypeOK
      <3> QED
        BY <3>1 DEF Inside, Control, Shape, Uses
    <2>2. Pure(t)
      BY <1>1, <2>1 DEF Spoilt, Pure
    <2>3. Mine(t) = conn /\ open[conn] = "open" /\ txn[conn] = "ready"
      BY <2>1, <2>2 DEF InBody
    <2> QED
      BY <1>2, <1>t, <2>1, <2>3 DEF Restore, Settable, TypeOK
  <1>3. CASE ~Restore(t)
    <2>1. ~Inside(t) /\ ~(SwitchOff(t) /\ Settable(Mine(t)))
      BY <1>3, StaysInside DEF Quiet, Inside
    <2>2. Quiet
      <3>1. \A u \in Threads : u # t => phase'[u] = phase[u]
        BY OthersStand DEF Row
      <3> QED
        BY <2>1, <3>1 DEF Quiet, Inside
    <2>3. CASE UNCHANGED <<conn, open, auto>>
      BY <1>1, <2>2, <2>3 DEF Rest
    <2>4. CASE Close(t)
      BY <2>4, <1>t DEF Close, TypeOK
    <2>5. CASE Connect(t)
      <3>1. CASE auto' = [auto EXCEPT ![conn'] = TRUE]
        <4>1. conn' \in Conns
          BY <2>5, Spare DEF Connect, TypeOK
        <4> QED
          BY <3>1, <4>1 DEF TypeOK
      <3> QED
        BY <2>3, <2>5, <3>1 DEF Connect, OnConnect
    <2> QED
      BY <1>3, <2>1, <2>3, <2>4, <2>5
      DEF Step, Begin, Probe, Check, SwitchOff, Look, Answered, Refused, Unanswered, BodyRaises, Commit, Rollback
  <1> QED
    BY <1>2, <1>3

\* Whatever another thread does to the connection mixes a body.
LEMMA Bystander ==
    ASSUME IInv, NEW t \in Threads, NEW u \in Threads, u # t, Step(t), Notes(Met(t)),
           Inside(u), Current(u) \notin mixed'
    PROVE  /\ Pure(u) /\ Pure(u)' /\ ~Inside(t) /\ ~Inside(t)'
           /\ UNCHANGED <<conn, open, auto, txn, held, db>>
  <1> USE DEF IInv
  <1>1. Row(u)' = Row(u)
    BY OthersStand
  <1>2. Pure(u) /\ Pure(u)'
    <2>1. mixed \subseteq mixed'
      BY DEF Notes
    <2> QED
      BY <1>1, <2>1 DEF Pure, Row, Inside, Current
  <1>3. u \in Others(t) /\ u \notin Met(t)
    BY DEF Others, Notes
  <1>4. ~Inside(t)
    BY <1>2 DEF InBody, Others
  <1>5. pc[t] \in {"idle", "check", "look"}
    BY <1>3 DEF Met
  <1>6. pc[t] # "look"
    BY <1>4 DEF Inside, Control, Shape
  <1>7. (\E o \in Ops : Begin(t, o)) \/ Check(t)
    BY <1>5, <1>6 DEF Step, Probe, Close, Connect, Check, SwitchOff, Look, Answered, Refused, Unanswered,
       BodyRaises, Commit, Rollback, Restore
  <1>8. UNCHANGED <<conn, open, auto, txn, held, db>>
    BY <1>7 DEF Begin, Check
  <1>9. ~Inside(t)'
    BY <1>4, <1>5, <1>6, GoesInside DEF SwitchOff
  <1> QED
    BY <1>2, <1>4, <1>8, <1>9

\* A body begins on a connection that is its own, or is mixed from the start.
LEMMA InBodyBegins ==
    ASSUME IInv, NEW t \in Threads, Step(t), Notes(Met(t)), ~Inside(t)
    PROVE  InBody(t)'
  <1> USE DEF IInv
  <1> SUFFICES ASSUME Pure(t)'
               PROVE  InBody(t)'
    BY DEF InBody
  <1>1. SwitchOff(t) /\ Settable(Mine(t)) /\ pc[t] = "off"
    BY GoesInside DEF Pure, SwitchOff
  <1>2. /\ auto' = [auto EXCEPT ![Mine(t)] = FALSE] /\ phase' = [phase EXCEPT ![t] = "body"]
        /\ pc' = [pc EXCEPT ![t] = "probe"]
        /\ UNCHANGED <<conn, open, txn, held, db, op, call, sent, outer, inner>>
    BY <1>1 DEF SwitchOff, Goto
  <1>3. t \notin Met(t)
    BY <1>2 DEF Pure, Notes, Current
  <1>4. Others(t) = {} /\ conn \notin spoiled /\ Mine(t) = conn /\ open[conn] = "open"
    BY <1>1, <1>3 DEF Met, Adrift
  <1>5. Quiet
    BY <1>4 DEF Quiet, Others
  <1>6. conn \in Conns /\ auto[conn] /\ txn[conn] = "ready" /\ held[conn] = {}
    BY <1>4, <1>5 DEF Rest, AutoReady, BegunHolds, TypeOK
  <1>7. sent[t] = {} /\ inner[t] = NoConn
    BY DEF Inside, Control, Shape
  <1>8. Others(t)' = {}
    <2>1. \A u \in Threads : u # t => phase'[u] = phase[u]
      BY <1>2 DEF TypeOK
    <2> QED
      BY <1>4, <2>1 DEF Others, Inside
  <1>9. Mine(t)' = conn' /\ inner'[t] = NoConn
    BY <1>2, <1>4, <1>7 DEF Mine
  <1>10. pc'[t] = "probe" /\ phase'[t] = "body" /\ open'[conn'] = "open" /\ ~auto'[conn']
         /\ txn'[conn'] = "ready" /\ held'[conn'] = {} /\ sent'[t] = {}
    BY <1>2, <1>4, <1>6, <1>7 DEF TypeOK
  <1> QED
    BY <1>8, <1>9, <1>10 DEF InBody, Committed

\* What a step leaves to be shown of a body that was not mixed.
LEMMA InBodyGoesOn ==
    ASSUME IInv, NEW t \in Threads, Step(t), Pure(t)
    PROVE  InBody(t)'
  <1> USE DEF IInv
  <1>1. /\ Others(t) = {} /\ Mine(t) = conn /\ inner[t] \in {NoConn, conn} /\ conn \in Conns
        /\ open[conn] = "open" /\ ~auto[conn] /\ pc[t] \notin {"close", "connect"} /\ Inside(t)
    BY DEF InBody, Pure, TypeOK
  <1>2. /\ pc[t] \notin {"idle", "check", "off"} /\ op[t] \in {"transaction", "merge"}
        /\ phase[t] = "body" => pc[t] \in {"probe", "look", "statement", "commit", "restore"}
        /\ phase[t] = "failed" => pc[t] \in {"rollback", "restore"}
        /\ phase[t] \in {"body", "failed"}
    BY <1>1 DEF Inside, Control, Shape, TypeOK, Uses
  <1>3. Others(t)' = {}
    <2>1. \A u \in Threads : u # t => phase'[u] = phase[u]
      BY OthersStand DEF Row
    <2> QED
      BY <1>1, <2>1 DEF Others, Inside
  <1>4. /\ phase[t] = "body" /\ pc[t] # "restore" => txn[conn] # "failed" /\ held[conn] = sent[t]
        /\ pc[t] = "restore" => txn[conn] = "ready"
        /\ phase[t] = "failed" => held[conn] \subseteq sent[t]
        /\ ~Committed(t) => sent[t] \cap db = {}
        /\ Committed(t) => sent[t] \subseteq db
    BY DEF InBody
  <1>k. conn \notin {NoConn}
    BY <1>1
  <1>5. ASSUME ~Restore(t), UNCHANGED conn PROVE Mine(t)' = conn'
    BY <1>1, <1>5, StaysInside DEF Mine
  <1>6. CASE Probe(t)
    <2>0. pc[t] = "probe"
      BY <1>6 DEF Probe
    <2>1. phase[t] = "body" /\ Answers(conn) /\ sent[t] \cap db = {} /\ held[conn] = sent[t]
      BY <1>1, <1>2, <1>4, <2>0 DEF Answers, Committed
    <2>2. /\ txn' = [txn EXCEPT ![conn] = IF auto[conn] THEN "ready" ELSE "begun"]
          /\ pc' = [pc EXCEPT ![t] = AfterProbe(t)]
          /\ UNCHANGED <<conn, open, auto, held, db, op, sent, outer, inner, phase>>
      BY <1>6, <2>1 DEF Probe, Began, Continue, Goto
    <2>3. AfterProbe(t) \in {"look", "statement", "commit"}
      BY <1>2, <2>1, Probed
    <2>4. pc'[t] = AfterProbe(t) /\ txn'[conn] = "begun"
      BY <1>1, <2>2 DEF TypeOK
    <2>5. Mine(t)' = conn'
      BY <1>5, <2>0, <2>2 DEF Restore
    <2> QED
      BY <1>1, <1>3, <2>1, <2>2, <2>3, <2>4, <2>5 DEF InBody, Committed
  <1>7. CASE Look(t)
    <2>1. /\ pc[t] = "look" /\ pc' = [pc EXCEPT ![t] = "probe"] /\ inner' = [inner EXCEPT ![t] = conn]
          /\ UNCHANGED <<conn, open, auto, txn, held, db, op, sent, outer, phase>>
      BY <1>7 DEF Look, Goto
    <2>2. phase[t] = "body" /\ ~Committed(t)
      BY <1>2, <2>1 DEF Committed
    <2>3. pc'[t] = "probe" /\ inner'[t] = conn
      BY <2>1 DEF TypeOK
    <2>4. Mine(t)' = conn'
      BY <1>5, <2>1 DEF Restore
    <2> QED
      BY <1>1, <1>3, <1>4, <2>1, <2>2, <2>3, <2>4 DEF InBody, Committed
  <1>8. CASE pc[t] = "statement"
    <2>1. phase[t] = "body" /\ ~Committed(t) /\ txn[conn] # "failed" /\ held[conn] = sent[t] /\ sent[t] \cap db = {}
      BY <1>2, <1>4, <1>8 DEF Committed
    <2>2. Target(t) = conn /\ Answers(conn)
      <3>1. op[t] = "merge" => inner[t] # NoConn
        BY <1>8 DEF Control, Shape
      <3> QED
        BY <1>1, <2>1, <3>1 DEF Target, Answers
    <2>3. CASE Answered(t)
      <3>1. /\ held' = [held EXCEPT ![conn] = @ \cup {Write(t)}] /\ sent' = [sent EXCEPT ![t] = @ \cup {Write(t)}]
            /\ txn' = [txn EXCEPT ![conn] = "begun"]
            /\ pc' = [pc EXCEPT ![t] = Following(t, Cardinality(sent[t] \cup {Write(t)}))]
            /\ UNCHANGED <<conn, open, auto, db, op, outer, inner, phase>>
        BY <1>1, <1>2, <2>2, <2>3 DEF Answered, AfterWrite, Began, Goto
      <3>2. Following(t, Cardinality(sent[t] \cup {Write(t)})) \in {"probe", "statement", "commit"}
        BY DEF Following
      <3>3. Write(t) \notin db
        <4>1. Write(t) \notin sent[t]
          BY <1>8, NextWrite
        <4>2. Write(t)[1] = t /\ Write(t)[2] = call[t]
          BY DEF Write
        <4> QED
          BY <1>8, <4>1, <4>2 DEF Written, Past
      <3>4. /\ pc'[t] \in {"probe", "statement", "commit"} /\ txn'[conn] = "begun"
            /\ held'[conn] = sent[t] \cup {Write(t)} /\ sent'[t] = sent[t] \cup {Write(t)}
        BY <1>1, <2>1, <3>1, <3>2 DEF TypeOK
      <3>5. Mine(t)' = conn'
        BY <1>5, <1>8, <3>1 DEF Restore
      <3> QED
        BY <1>1, <1>3, <2>1, <3>1, <3>3, <3>4, <3>5 DEF InBody, Committed
    <2>4. CASE Refused(t) \/ BodyRaises(t)
      <3>1. /\ pc' = [pc EXCEPT ![t] = "rollback"] /\ phase' = [phase EXCEPT ![t] = "failed"]
            /\ UNCHANGED <<conn, open, auto, db, op, sent, outer, inner>>
            /\ held' = held \/ held' = [held EXCEPT ![conn] = {}]
        <4>1. Raise(t) /\ UNCHANGED <<conn, open, auto, db>>
          BY <2>4 DEF Refused, BodyRaises
        <4>2. held' = held \/ held' = [held EXCEPT ![conn] = {}]
          BY <2>2, <2>4 DEF Refused, BodyRaises
        <4> QED
          BY <2>1, <4>1, <4>2 DEF Raise, Goto
      <3>2. pc'[t] = "rollback" /\ phase'[t] = "failed" /\ held'[conn] \subseteq sent[t]
        BY <1>1, <2>1, <3>1 DEF TypeOK
      <3>3. Mine(t)' = conn'
        BY <1>5, <1>8, <3>1 DEF Restore
      <3> QED
        BY <1>1, <1>3, <2>1, <3>1, <3>2, <3>3 DEF InBody, Committed
    <2> QED
      BY <1>8, <2>2, <2>3, <2>4 DEF Step, Begin, Probe, Close, Connect, Check, SwitchOff, Look, Unanswered,
         Commit, Rollback, Restore
  <1>9. CASE Commit(t)
    <2>0. pc[t] = "commit"
      BY <1>9 DEF Commit
    <2>1. phase[t] = "body" /\ held[conn] = sent[t]
      BY <1>2, <1>4, <2>0
    <2>2. /\ db' = db \cup held[conn] /\ txn' = [txn EXCEPT ![conn] = "ready"]
          /\ pc' = [pc EXCEPT ![t] = "restore"] /\ UNCHANGED <<conn, open, auto, op, sent, outer, inner, phase>>
      BY <1>1, <1>9 DEF Commit, CommitRaises, Forget, Continue, Goto
    <2>3. pc'[t] = "restore" /\ txn'[conn] = "ready"
      BY <1>1, <2>2 DEF TypeOK
    <2>4. Mine(t)' = conn'
      BY <1>5, <2>0, <2>2 DEF Restore
    <2> QED
      BY <1>1, <1>3, <2>1, <2>2, <2>3, <2>4 DEF InBody, Committed
  <1>10. CASE Rollback(t)
    <2>0. pc[t] = "rollback"
      BY <1>10 DEF Rollback
    <2>1. phase[t] = "failed" /\ sent[t] \cap db = {}
      BY <1>2, <1>4, <2>0 DEF Committed
    <2>2. /\ held' = [held EXCEPT ![conn] = {}] /\ txn' = [txn EXCEPT ![conn] = "ready"]
          /\ pc' = [pc EXCEPT ![t] = "restore"] /\ UNCHANGED <<conn, open, auto, db, op, sent, outer, inner, phase>>
      BY <1>1, <1>10 DEF Rollback, Forget, Continue, Goto
    <2>3. pc'[t] = "restore" /\ txn'[conn] = "ready" /\ held'[conn] = {}
      BY <1>1, <2>2 DEF TypeOK
    <2>4. Mine(t)' = conn'
      BY <1>5, <2>0, <2>2 DEF Restore
    <2> QED
      BY <1>1, <1>3, <2>1, <2>2, <2>3, <2>4 DEF InBody, Committed
  <1>11. CASE Restore(t)
    <2>1. phase'[t] = "outside"
      BY <1>11 DEF Restore, Finish, TypeOK
    <2> QED
      BY <2>1 DEF InBody, Pure, Inside
  <1>12. pc[t] \in {"probe", "look", "statement", "commit", "rollback", "restore"}
    BY <1>2
  <1> QED
    BY <1>6, <1>7, <1>8, <1>9, <1>10, <1>11, <1>12
    DEF Step, Begin, Close, Connect, Check, SwitchOff, Answered, Refused, Unanswered, BodyRaises

\* A body that is not mixed has the connection to itself.
LEMMA InBodyKept ==
    ASSUME IInv, NEW t \in Threads, Step(t), Notes(Met(t)), NEW u \in Threads
    PROVE  InBody(u)'
  <1> USE DEF IInv
  <1> SUFFICES ASSUME Pure(u)'
               PROVE  InBody(u)'
    BY DEF InBody
  <1>m. mixed \subseteq mixed'
    BY DEF Notes
  <1>1. CASE u = t /\ ~Inside(t)
    BY <1>1, InBodyBegins
  <1>2. CASE u = t /\ Inside(t)
    <2>1. ~Restore(t)
      BY <1>2 DEF Pure, Inside, Restore, Finish, TypeOK
    <2>2. Pure(t)
      BY <1>2, <1>m, <2>1, StaysInside DEF Pure, Current
    <2> QED
      BY <1>2, <2>2, InBodyGoesOn
  <1>3. CASE u # t
    <2>1. Row(u)' = Row(u)
      BY <1>3, OthersStand
    <2>2. Inside(u) /\ Current(u) \notin mixed'
      BY <2>1 DEF Pure, Row, Inside, Current
    <2>3. /\ Pure(u) /\ ~Inside(t) /\ ~Inside(t)' /\ UNCHANGED <<conn, open, auto, txn, held, db>>
      BY <1>3, <2>2, Bystander
    <2>4. Others(u)' = {}
      <3>1. \A v \in Threads : v # t => phase'[v] = phase[v]
        BY OthersStand DEF Row
      <3> QED
        BY <2>3, <3>1 DEF Others, Inside, InBody
    <2>5. /\ pc'[u] = pc[u] /\ op'[u] = op[u] /\ sent'[u] = sent[u]
          /\ outer'[u] = outer[u] /\ inner'[u] = inner[u] /\ phase'[u] = phase[u]
      BY <2>1 DEF Row
    <2> QED
      BY <2>3, <2>4, <2>5 DEF InBody, Mine, Committed
  <1> QED
    BY <1>1, <1>2, <1>3

\* Only a statement that is answered adds to a transaction.
LEMMA HeldGrows ==
    ASSUME TypeOK, NEW t \in Threads, Step(t), NEW c \in Conns, NEW w \in held'[c], w \notin held[c]
    PROVE  Answered(t) /\ ~auto[Target(t)] /\ c = Target(t) /\ w = Write(t)
  <1> USE DEF TypeOK
  <1>1. CASE Answered(t)
    <2>1. ~auto[Target(t)]
      BY <1>1 DEF Answered
    <2>2. held' = [held EXCEPT ![Target(t)] = @ \cup {Write(t)}]
      BY <1>1, <2>1 DEF Answered
    <2> QED
      BY <1>1, <2>1, <2>2
  <1>2. CASE ~Answered(t)
    <2>1. ASSUME NEW k, held' = held \/ held' = [held EXCEPT ![k] = {}]
          PROVE  FALSE
      BY <2>1
    <2>2. CASE held' = held
      BY <2>2
    <2>3. CASE Close(t) \/ Connect(t) \/ Commit(t) \/ Rollback(t)
      BY <2>1, <2>3 DEF Close, Connect, Commit, Rollback, Forget
    <2>4. CASE Refused(t)
      BY <2>1, <2>4 DEF Refused
    <2> QED
      BY <1>2, <2>2, <2>3, <2>4 DEF Step, Begin, Probe, Check, SwitchOff, Look, Unanswered, BodyRaises, Restore
  <1> QED
    BY <1>1, <1>2

\* No transaction holds a write of a call left to itself but of its own body.
LEMMA HeldPureKept ==
    ASSUME IInv, NEW t \in Threads, Step(t), Notes(Met(t))
    PROVE  HeldPure'
  <1> USE DEF IInv
  <1>m. mixed \subseteq mixed'
    BY DEF Notes
  <1>s. ASSUME Pure(t), ~Restore(t), Current(t) \notin mixed'
        PROVE  Pure(t)' /\ conn' = conn /\ call'[t] = call[t]
    <2>1. Pure(t)' /\ call'[t] = call[t]
      BY <1>s, StaysInside DEF Pure, Inside, Current
    <2>2. pc[t] # "connect"
      BY <1>s DEF InBody
    <2> QED
      BY <2>1, <2>2 DEF Step, Begin, Probe, Close, Connect, Check, SwitchOff, Look, Answered, Refused,
         Unanswered, BodyRaises, Commit, Rollback, Restore
  <1> SUFFICES ASSUME NEW c \in Conns, NEW w \in held'[c], <<w[1], w[2]>> \notin mixed'
               PROVE  c = conn' /\ Pure(w[1])' /\ w[2] = call'[w[1]]
    BY DEF HeldPure, Alone
  <1>1. CASE w \in held[c]
    <2>1. c = conn /\ Pure(w[1]) /\ w[2] = call[w[1]] /\ w[1] \in Threads
      BY <1>1, <1>m, Parts DEF HeldPure, Alone
    <2>2. CASE w[1] # t
      <3>1. Inside(w[1]) /\ Current(w[1]) \notin mixed'
        BY <2>1 DEF Pure, Current
      <3>2. Pure(w[1])' /\ conn' = conn
        BY <2>1, <2>2, <3>1, Bystander
      <3>3. call'[w[1]] = call[w[1]]
        BY <2>1, <2>2, OthersStand DEF Row
      <3> QED
        BY <2>1, <3>2, <3>3
    <2>3. CASE w[1] = t
      <3>1. ~Restore(t)
        BY <1>1, <2>1, <2>3 DEF Restore, InBody, BegunHolds
      <3> QED
        BY <1>s, <2>1, <2>3, <3>1 DEF Current
    <2> QED
      BY <2>2, <2>3
  <1>2. CASE w \notin held[c]
    <2>1. Answered(t) /\ ~auto[Target(t)] /\ c = Target(t) /\ w = Write(t)
      BY <1>2, HeldGrows
    <2>2. pc[t] = "statement" /\ w[1] = t /\ w[2] = call[t]
      BY <2>1, NextWrite DEF Answered
    <2>3. Current(t) \notin mixed' /\ t \notin Met(t)
      BY <2>2 DEF Current, Notes
    <2>4. Others(t) = {} /\ conn \notin spoiled
      BY <2>2, <2>3 DEF Met
    <2>5. Inside(t)
      <3>1. ASSUME ~Inside(t) PROVE FALSE
        <4>1. Quiet
          BY <2>4, <3>1 DEF Quiet, Others
        <4>2. op[t] = "execute"
          BY <2>2, <3>1 DEF Inside, Control, Shape, TypeOK, Uses
        <4>3. Target(t) = conn /\ open[conn] = "open"
          BY <2>1, <4>2 DEF Target, Answered, Answers
        <4> QED
          BY <2>1, <2>4, <4>1, <4>3 DEF Rest
      <3> QED
        BY <3>1
    <2>6. Pure(t)
      BY <1>m, <2>3, <2>5 DEF Pure
    <2>7. Target(t) = conn
      <3>1. op[t] = "merge" => inner[t] # NoConn
        BY <2>2 DEF Control, Shape
      <3> QED
        BY <2>6, <3>1 DEF Target, InBody
    <2> QED
      BY <1>s, <2>1, <2>2, <2>3, <2>6, <2>7 DEF Restore
  <1> QED
    BY <1>1, <1>2

-----------------------------------------------------------------------------
(***************************************************************************)
(* What is written and what is filed                                       *)
(***************************************************************************)
\* A call keeps what it has sent until it is over.
LEMMA SentGrows ==
    ASSUME TypeOK, NEW t \in Threads, Control(t), Step(t)
    PROVE  \/ (\E o \in Ops : Begin(t, o)) /\ pc[t] = "idle" /\ call'[t] = call[t] + 1
           \/ pc[t] # "idle" /\ call' = call /\ (pc'[t] = "idle" \/ sent[t] \subseteq sent'[t])
  <1> DEFINE G == call' = call /\ (pc'[t] = "idle" \/ sent[t] \subseteq sent'[t])
  <1>1. ASSUME NEW W, NEW ok, Finish(t, W, ok), call' = call PROVE G
    BY <1>1 DEF Finish, Goto, TypeOK
  <1>2. ASSUME NEW s, Continue(t, s), call' = call PROVE G
    BY <1>2 DEF Continue
  <1>3. ASSUME Raise(t), call' = call PROVE G
    BY <1>1, <1>3 DEF Raise
  <1>4. CASE \E o \in Ops : Begin(t, o)
    BY <1>4 DEF Begin, TypeOK
  <1>5. CASE Probe(t) \/ Close(t) \/ Connect(t) \/ Check(t)
    BY <1>2, <1>3, <1>5 DEF Probe, Close, Connect, Check
  <1>6. CASE SwitchOff(t) \/ Look(t)
    BY <1>3, <1>6 DEF SwitchOff, Look
  <1>7. CASE Answered(t)
    <2>1. CASE op[t] = "execute"
      BY <1>1, <1>7, <2>1 DEF Answered, AfterWrite
    <2>2. CASE op[t] # "execute"
      BY <1>7, <2>2 DEF Answered, AfterWrite, TypeOK
    <2> QED
      BY <1>7, <2>1, <2>2 DEF Answered
  <1>8. CASE Refused(t) \/ Unanswered(t) \/ BodyRaises(t)
    BY <1>3, <1>8 DEF Refused, Unanswered, BodyRaises
  <1>9. CASE Commit(t) \/ Rollback(t) \/ Restore(t)
    BY <1>1, <1>2, <1>3, <1>9 DEF Commit, Rollback, Restore
  <1> QED
    BY <1>4, <1>5, <1>6, <1>7, <1>8, <1>9 DEF Step

\* A statement in autocommit and a commit are all that adds to the database.
LEMMA DbGrows ==
    ASSUME TypeOK, NEW t \in Threads, Step(t)
    PROVE  /\ db \subseteq db'
           /\ \A w \in db' \ db :
                \/ Answered(t) /\ auto[Target(t)] /\ w = Write(t)
                \/ Commit(t) /\ w \in held[Mine(t)]
  <1>1. CASE db' = db
    BY <1>1
  <1>2. CASE Answered(t)
    BY <1>2 DEF Answered
  <1>3. CASE Commit(t)
    BY <1>3 DEF Commit
  <1> QED
    BY <1>1, <1>2, <1>3
    DEF Step, Begin, Probe, Close, Connect, Check, SwitchOff, Look, Refused, Unanswered, BodyRaises, Rollback, Restore

\* How the writes of a call are filed.
LEMMA Filing ==
    ASSUME TypeOK, NEW t \in Threads, Control(t), Step(t)
    PROVE  /\ returned \subseteq returned' /\ raised \subseteq raised'
           /\ \A w \in returned' \ returned :
                \/ Answered(t) /\ op[t] = "execute" /\ w = Write(t) /\ pc'[t] = "idle"
                \/ Restore(t) /\ phase[t] = "body" /\ w \in sent[t] /\ pc'[t] = "idle"
           /\ \A w \in raised' \ raised :
                Restore(t) /\ ~(phase[t] = "body" /\ Settable(Mine(t))) /\ w \in sent[t] /\ pc'[t] = "idle"
  <1>1. CASE UNCHANGED <<returned, raised>>
    BY <1>1
  <1>2. CASE Raise(t) /\ pc[t] # "idle"
    <2>1. CASE phase[t] = "outside"
      <3>1. sent[t] = {}
        BY <2>1 DEF Control, Shape
      <3> QED
        BY <1>1, <1>2, <2>1, <3>1 DEF Raise, Finish
    <2> QED
      BY <1>1, <1>2, <2>1 DEF Raise
  <1>3. CASE Restore(t)
    <2>1. pc'[t] = "idle"
      BY <1>3 DEF Restore, Finish, Goto, TypeOK
    <2> QED
      BY <1>3, <2>1 DEF Restore, Finish
  <1>4. CASE Answered(t)
    <2>1. CASE op[t] = "execute"
      <3>1. sent[t] = {}
        BY <2>1 DEF Control, Shape
      <3>2. Finish(t, {Write(t)}, TRUE)
        BY <1>4, <2>1, <3>1 DEF Answered, AfterWrite
      <3> QED
        BY <1>4, <2>1, <3>2 DEF Finish, Goto, TypeOK
    <2>2. CASE op[t] # "execute"
      BY <1>1, <1>4, <2>2 DEF Answered, AfterWrite
    <2> QED
      BY <2>1, <2>2
  <1>5. CASE \E s : Continue(t, s)
    BY <1>1, <1>5 DEF Continue
  <1> QED
    BY <1>1, <1>2, <1>3, <1>4, <1>5
    DEF Step, Begin, Probe, Close, Connect, Check, SwitchOff, Look, Refused, Unanswered, BodyRaises, Commit, Rollback

\* What is written is of calls made.
LEMMA WrittenKept ==
    ASSUME IInv, NEW t \in Threads, Step(t)
    PROVE  Written'
  <1> USE DEF IInv
  <1>1. ASSUME NEW w, w[1] \in Threads, w[2] \in 1 .. MaxCalls, Past(w)
        PROVE  Past(w)'
    <2>1. CASE w[1] # t
      BY <1>1, <2>1, OthersStand DEF Row, Past
    <2>2. CASE w[1] = t
      <3>0. call[t] \in Nat
        BY DEF TypeOK
      <3>1. CASE pc[t] = "idle" /\ call'[t] = call[t] + 1
        BY <1>1, <2>2, <3>0, <3>1 DEF Past
      <3>2. CASE pc[t] # "idle" /\ call' = call /\ (pc'[t] = "idle" \/ sent[t] \subseteq sent'[t])
        BY <1>1, <2>2, <3>2 DEF Past
      <3> QED
        BY <3>1, <3>2, SentGrows
    <2> QED
      BY <2>1, <2>2
  <1>2. ASSUME NEW w, Answered(t), w = Write(t)
        PROVE  Past(w)'
    <2>1. w[1] = t /\ w[2] = call[t] /\ call[t] \in 0 .. MaxCalls
      BY <1>2 DEF Write, TypeOK
    <2>2. call' = call /\ pc[t] = "statement"
      BY <1>2 DEF Answered
    <2>3. pc'[t] = "idle" \/ w \in sent'[t]
      <3>1. CASE op[t] = "execute"
        BY <1>2, <3>1 DEF Answered, AfterWrite, Finish, Goto, TypeOK
      <3>2. CASE op[t] # "execute"
        BY <1>2, <3>2 DEF Answered, AfterWrite, TypeOK
      <3> QED
        BY <3>1, <3>2
    <2> QED
      BY <2>1, <2>2, <2>3 DEF Past
  <1>3. ASSUME NEW w \in db' PROVE Past(w)'
    <2>1. CASE w \in db
      <3>1. w[1] \in Threads /\ w[2] \in 1 .. MaxCalls /\ Past(w)
        BY <2>1, Parts DEF Written
      <3> QED
        BY <1>1, <3>1
    <2>2. CASE Answered(t) /\ w = Write(t)
      BY <1>2, <2>2
    <2>3. CASE Commit(t) /\ w \in held[Mine(t)]
      <3>1. Mine(t) \in Conns
        BY <2>3, MineIsOne DEF Commit
      <3>2. w[1] \in Threads /\ w[2] \in 1 .. MaxCalls /\ Past(w)
        BY <2>3, <3>1, Parts DEF Written
      <3> QED
        BY <1>1, <3>2
    <2> QED
      BY <1>3, <2>1, <2>2, <2>3, DbGrows
  <1>4. ASSUME NEW c \in Conns, NEW w \in held'[c] PROVE Past(w)'
    <2>1. CASE w \in held[c]
      <3>1. w[1] \in Threads /\ w[2] \in 1 .. MaxCalls /\ Past(w)
        BY <2>1, Parts DEF Written
      <3> QED
        BY <1>1, <3>1
    <2>2. CASE w \notin held[c]
      <3>1. Answered(t) /\ w = Write(t)
        BY <1>4, <2>2, HeldGrows
      <3> QED
        BY <1>2, <3>1
    <2> QED
      BY <2>1, <2>2
  <1> QED
    BY <1>3, <1>4 DEF Written

\* Only calls that are over are filed.
LEMMA FiledKept ==
    ASSUME IInv, NEW t \in Threads, Step(t)
    PROVE  Filed'
  <1> USE DEF IInv
  <1> SUFFICES ASSUME NEW w \in returned' \cup raised'
               PROVE  w[2] <= call'[w[1]] /\ (w[2] = call'[w[1]] => pc'[w[1]] = "idle")
    BY DEF Filed
  <1>c. call[t] \in Nat
    BY DEF TypeOK
  <1>1. CASE w \in returned \cup raised
    <2>1. w[1] \in Threads /\ w[2] \in 1 .. MaxCalls /\ w[2] <= call[w[1]] /\ (w[2] = call[w[1]] => pc[w[1]] = "idle")
      BY <1>1, Parts DEF Filed
    <2>2. CASE w[1] # t
      BY <2>1, <2>2, OthersStand DEF Row
    <2>3. CASE w[1] = t
      BY <1>c, <2>1, <2>3, SentGrows
    <2> QED
      BY <2>2, <2>3
  <1>2. CASE w \notin returned \cup raised
    <2>1. (w \in sent[t] \/ w = Write(t)) /\ pc'[t] = "idle" /\ (Answered(t) \/ Restore(t))
      BY <1>2, Filing
    <2>2. w[1] = t /\ w[2] = call[t]
      BY <2>1, OfCall DEF Write
    <2>3. call' = call
      BY <2>1 DEF Answered, Restore
    <2> QED
      BY <1>c, <2>1, <2>2, <2>3
  <1> QED
    BY <1>1, <1>2

\* A call left to itself returns for what is committed.
LEMMA KeptKept ==
    ASSUME IInv, NEW t \in Threads, Step(t), Notes(Met(t))
    PROVE  KeptWhenReturned'
  <1> USE DEF IInv
  <1>m. mixed \subseteq mixed'
    BY DEF Notes
  <1> SUFFICES ASSUME NEW w \in returned', <<w[1], w[2]>> \notin mixed'
               PROVE  w \in db'
    BY DEF KeptWhenReturned, Alone
  <1>1. CASE w \in returned
    BY <1>1, <1>m, DbGrows DEF KeptWhenReturned, Alone
  <1>2. CASE Answered(t) /\ op[t] = "execute" /\ w = Write(t)
    <2>1. pc[t] = "statement" /\ open[Target(t)] = "open" /\ Target(t) = conn
      BY <1>2 DEF Answered, Answers, Target
    <2>2. Current(t) \notin mixed'
      BY <1>2 DEF Write, Current
    <2>3. Others(t) = {} /\ conn \notin spoiled
      BY <2>1, <2>2 DEF Notes, Met
    <2>4. ~Inside(t)
      BY <1>2 DEF Inside, Control, Shape
    <2>5. auto[conn]
      BY <2>1, <2>3, <2>4 DEF Rest, Quiet, Others
    <2> QED
      BY <1>2, <2>1, <2>5 DEF Answered
  <1>3. CASE Restore(t) /\ phase[t] = "body" /\ w \in sent[t]
    <2>1. w[1] = t /\ w[2] = call[t]
      BY <1>3, OfCall
    <2>2. Pure(t) /\ Committed(t)
      BY <1>3, <1>m, <2>1 DEF Pure, Inside, Current, Committed, Restore
    <2> QED
      BY <1>3, <2>2, DbGrows DEF InBody
  <1> QED
    BY <1>1, <1>2, <1>3, Filing

\* Nothing of a call left to itself that has raised is committed.
LEMMA UndoneKept ==
    ASSUME IInv, NEW t \in Threads, Step(t), Notes(Met(t))
    PROVE  UndoneWhenRaised'
  <1> USE DEF IInv
  <1>m. mixed \subseteq mixed'
    BY DEF Notes
  <1> SUFFICES ASSUME NEW w \in raised', <<w[1], w[2]>> \notin mixed', w \in db'
               PROVE  FALSE
    BY DEF UndoneWhenRaised, Alone
  <1>1. CASE w \in raised
    <2>1. Alone(w) /\ w \notin db
      BY <1>1, <1>m DEF UndoneWhenRaised, Alone
    <2>2. CASE Answered(t) /\ w = Write(t)
      BY <1>1, <2>2 DEF Filed, Answered, Write
    <2>3. CASE Commit(t) /\ w \in held[Mine(t)]
      <3>1. Mine(t) \in Conns
        BY <2>3, MineIsOne DEF Commit
      <3>2. Pure(w[1]) /\ w[2] = call[w[1]] /\ w[1] \in Threads
        BY <1>1, <2>1, <2>3, <3>1, Parts DEF HeldPure
      <3>3. pc[w[1]] # "idle"
        BY <3>2 DEF Pure, Inside, Control, Shape
      <3> QED
        BY <1>1, <3>2, <3>3 DEF Filed
    <2> QED
      BY <2>1, <2>2, <2>3, DbGrows
  <1>2. CASE w \notin raised
    <2>1. Restore(t) /\ ~(phase[t] = "body" /\ Settable(Mine(t))) /\ w \in sent[t]
      BY <1>2, Filing
    <2>2. w[1] = t /\ w[2] = call[t] /\ db' = db /\ pc[t] = "restore" /\ op[t] \in Uses
      BY <2>1, OfCall DEF Restore, TypeOK
    <2>3. Pure(t)
      BY <1>m, <2>2 DEF Pure, Inside, Current, Control, Shape, Uses
    <2>4. Settable(Mine(t))
      BY <2>2, <2>3 DEF InBody, Settable
    <2>5. sent[t] \cap db = {}
      BY <2>1, <2>3, <2>4 DEF InBody, Committed
    <2> QED
      BY <2>1, <2>2, <2>5
  <1> QED
    BY <1>1, <1>2

-----------------------------------------------------------------------------
(***************************************************************************)
(* The invariant                                                           *)
(***************************************************************************)
\* A step of a thread keeps every part.
LEMMA StepKeeps ==
    ASSUME IInv, NEW t \in Threads, Step(t), Notes(Met(t))
    PROVE  IInv'
  <1> USE DEF IInv
  <1>1. conn' \in Conns
    BY Spare DEF Step, Begin, Probe, Close, Connect, Check, SwitchOff, Look, Answered, Refused, Unanswered,
       BodyRaises, Commit, Rollback, Restore, TypeOK
  <1>2. TypeOK'
    <2>1. Met(t) \in SUBSET {u \in Threads : pc[u] # "idle"}
      BY Meeting
    <2>2. History'
      BY <1>1, <2>1, HistoryTyped
    <2> QED
      BY <2>2, Typed
  <1>3. ASSUME NEW u \in Threads PROVE Control(u)'
    <2>1. CASE u = t
      BY <2>1, ControlKept
    <2>2. CASE u # t
      BY <2>2, OthersStand, ControlStands
    <2> QED
      BY <2>1, <2>2
  <1>4. AutoReady' /\ BegunHolds' /\ InUse'
    BY ConnsKept, InUseKept
  <1>5. Spoilt' /\ Rest' /\ HeldPure'
    BY SpoiltKept, RestKept, HeldPureKept
  <1>6. \A u \in Threads : InBody(u)'
    BY InBodyKept
  <1>7. Written' /\ Filed' /\ KeptWhenReturned' /\ UndoneWhenRaised'
    BY WrittenKept, FiledKept, KeptKept, UndoneKept
  <1> QED
    BY <1>2, <1>3, <1>4, <1>5, <1>6, <1>7

\* A lost connection mixes the bodies it takes it from.
LEMMA DropKeeps ==
    ASSUME IInv, NEW c \in Conns, Drop(c), Notes({t \in Threads : Inside(t) /\ c = conn})
    PROVE  IInv'
  <1> USE DEF IInv
  <1>1. /\ open[c] = "open" /\ open' = [open EXCEPT ![c] = "broken"] /\ held' = [held EXCEPT ![c] = {}]
        /\ UNCHANGED <<conn, auto, txn, db, pc, op, call, sent, outer, inner, phase, returned, raised, errors>>
        /\ drops' \in 0 .. MaxDrops
    BY DEF Drop, TypeOK
  <1>m. mixed \subseteq mixed'
    BY DEF Notes
  <1>r. \A u \in Threads : Row(u)' = Row(u)
    BY <1>1 DEF Row
  <1>2. TypeOK'
    <2>1. {t \in Threads : Inside(t) /\ c = conn} \in SUBSET {u \in Threads : pc[u] # "idle"}
      BY DEF Inside, Control, Shape
    <2>2. History'
      BY <1>1, <2>1, HistoryTyped DEF TypeOK
    <2> QED
      BY <1>1, <2>2 DEF TypeOK, History
  <1>3. ASSUME NEW u \in Threads PROVE Control(u)'
    BY <1>r, ControlStands
  <1>4. AutoReady' /\ BegunHolds'
    BY <1>1 DEF AutoReady, BegunHolds, TypeOK
  <1>5. InUse'
    <2>1. open'[conn] = "open" => open[conn] = "open"
      BY <1>1 DEF TypeOK
    <2> QED
      BY <1>1, <2>1 DEF InUse, Inside, Mine
  <1>6. Spoilt'
    BY SpoiltKept
  <1>7. Rest'
    <2>1. Quiet' = Quiet
      BY <1>1 DEF Quiet, Inside
    <2>2. open'[conn] = "open" => open[conn] = "open"
      BY <1>1 DEF TypeOK
    <2>3. Quiet' /\ conn' \notin spoiled' => auto'[conn'] \/ conn \notin spoiled
      BY <1>1 DEF Notes, AtRest
    <2> QED
      BY <1>1, <2>1, <2>2, <2>3 DEF Rest
  <1>8. ASSUME NEW u \in Threads, Inside(u), Current(u) \notin mixed'
        PROVE  c # conn /\ Pure(u) /\ Pure(u)' /\ open'[conn] = open[conn] /\ held'[conn] = held[conn]
    <2>1. c # conn
      BY <1>8 DEF Notes
    <2>2. Pure(u) /\ Pure(u)'
      BY <1>1, <1>8, <1>m DEF Pure, Inside, Current
    <2> QED
      BY <1>1, <2>1, <2>2 DEF TypeOK
  <1>9. ASSUME NEW u \in Threads PROVE InBody(u)'
    <2> SUFFICES ASSUME Pure(u)' PROVE InBody(u)'
      BY DEF InBody
    <2>1. Inside(u) /\ Current(u) \notin mixed'
      BY <1>1 DEF Pure, Inside, Current
    <2>2. Pure(u) /\ open'[conn] = open[conn] /\ held'[conn] = held[conn]
      BY <1>8, <2>1
    <2> QED
      BY <1>1, <2>2 DEF InBody, Others, Inside, Mine, Committed
  <1>10. HeldPure'
    <2> SUFFICES ASSUME NEW k \in Conns, NEW w \in held'[k], <<w[1], w[2]>> \notin mixed'
                 PROVE  k = conn' /\ Pure(w[1])' /\ w[2] = call'[w[1]]
      BY DEF HeldPure, Alone
    <2>1. w \in held[k]
      BY <1>1 DEF TypeOK
    <2>2. k = conn /\ Pure(w[1]) /\ w[2] = call[w[1]] /\ w[1] \in Threads
      BY <1>m, <2>1, Parts DEF HeldPure, Alone
    <2>3. Inside(w[1]) /\ Current(w[1]) \notin mixed'
      BY <2>2 DEF Pure, Current
    <2> QED
      BY <1>1, <1>8, <2>2, <2>3
  <1>11. Written'
    <2>1. \A k \in Conns : held'[k] \subseteq held[k]
      BY <1>1 DEF TypeOK
    <2> QED
      BY <1>1, <2>1 DEF Written, Past
  <1>12. Filed'
    BY <1>1 DEF Filed
  <1>13. KeptWhenReturned' /\ UndoneWhenRaised'
    BY <1>1, <1>m DEF KeptWhenReturned, UndoneWhenRaised, Alone
  <1> QED
    BY <1>2, <1>3, <1>4, <1>5, <1>6, <1>7, <1>9, <1>10, <1>11, <1>12, <1>13

\* The invariant holds at first.
LEMMA IInvInit == Init => IInv
  <1> SUFFICES ASSUME Init
               PROVE  IInv
    OBVIOUS
  <1>1. conn \in Conns
    <2>1. Conns # {}
      <3>1. Cardinality(Threads) \in Nat /\ Cardinality({}) = 0
        BY FS_CardinalityType, FS_EmptySet
      <3>2. Cardinality(Conns) # 0
        BY <3>1, FS_CardinalityType
      <3> QED
        BY <3>1, <3>2
    <2> QED
      BY <2>1 DEF Init
  <1>2. TypeOK
    BY <1>1 DEF Init, TypeOK, OnConnect, Uses
  <1>3. ASSUME NEW t \in Threads PROVE Control(t) /\ InBody(t)
    <2>1. Cardinality({}) = 0 /\ IsFiniteSet({}) /\ 1 .. 0 = {}
      BY FS_EmptySet
    <2>2. Numbered(t)
      BY <2>1 DEF Init, Numbered, Prefix
    <2>3. Counted(t) /\ Shape(t)
      BY <2>1 DEF Init, Counted, Committed, Shape
    <2>4. InBody(t)
      BY DEF Init, InBody, Pure, Inside
    <2> QED
      BY <2>2, <2>3, <2>4 DEF Control
  <1>4. AutoReady /\ BegunHolds /\ InUse /\ Spoilt /\ Rest /\ HeldPure
    BY <1>1 DEF Init, AutoReady, BegunHolds, InUse, Spoilt, Rest, HeldPure, Inside, OnConnect
  <1>5. Written /\ Filed /\ KeptWhenReturned /\ UndoneWhenRaised
    BY DEF Init, Written, Filed, KeptWhenReturned, UndoneWhenRaised
  <1> QED
    BY <1>2, <1>3, <1>4, <1>5 DEF IInv

\* A step that changes nothing keeps every part.
LEMMA StutterKeeps ==
    ASSUME IInv, UNCHANGED vars
    PROVE  IInv'
  <1> USE DEF vars, IInv
  <1>1. TypeOK'
    BY DEF TypeOK
  <1>2. ASSUME NEW t \in Threads PROVE Control(t)'
    <2>1. Row(t)' = Row(t)
      BY DEF Row
    <2> QED
      BY <2>1, ControlStands
  <1>3. AutoReady' /\ BegunHolds'
    BY DEF AutoReady, BegunHolds
  <1>4. InUse' /\ Spoilt' /\ Rest'
    BY DEF InUse, Spoilt, Rest, Quiet, Inside, Mine, Current
  <1>5. ASSUME NEW t \in Threads PROVE InBody(t)'
    BY DEF InBody, Pure, Others, Inside, Mine, Current, Committed
  <1>6. HeldPure'
    BY DEF HeldPure, Pure, Inside, Current, Alone
  <1>7. Written' /\ Filed'
    BY DEF Written, Past, Filed
  <1>8. KeptWhenReturned' /\ UndoneWhenRaised'
    BY DEF KeptWhenReturned, UndoneWhenRaised, Alone
  <1> QED
    BY <1>1, <1>2, <1>3, <1>4, <1>5, <1>6, <1>7, <1>8

\* Every step keeps it.
LEMMA IInvInductive == IInv /\ [Next]_vars => IInv'
  BY StepKeeps, DropKeeps, StutterKeeps DEF Next

\* It holds always.
LEMMA Invariance == Spec => []IInv
  BY IInvInit, IInvInductive, PTL DEF Spec

-----------------------------------------------------------------------------
\* PostgresStore: all variables keep their types.
THEOREM TypeCorrect == Spec => []TypeOK
  <1>1. IInv => TypeOK
    BY DEF IInv
  <1> QED
    BY <1>1, Invariance, PTL

\* PostgresStore.execute, transaction() and merge_entities: what a call that met
\* no other body, and kept its connection, has returned for is committed and
\* stays so.
THEOREM Kept == Spec => []KeptWhenReturned
  <1>1. IInv => KeptWhenReturned
    BY DEF IInv
  <1> QED
    BY <1>1, Invariance, PTL

\* transaction(), merge_entities: of such a call that raised nothing is ever
\* committed.
THEOREM Undone == Spec => []UndoneWhenRaised
  <1>1. IInv => UndoneWhenRaised
    BY DEF IInv
  <1> QED
    BY <1>1, Invariance, PTL

\* The finally blocks of transaction() and merge_entities: when nobody is inside,
\* a living connection is in autocommit or has a transaction left open, and is at
\* rest unless bodies were mixed on it.
THEOREM BackAtRest == Spec => []AutocommitAtRest
  <1>1. ASSUME IInv, Quiet, open[conn] = "open"
        PROVE  auto[conn] \/ txn[conn] # "ready"
    BY <1>1 DEF IInv, InUse, Quiet
  <1>2. ASSUME IInv, Quiet, open[conn] = "open", conn \notin spoiled
        PROVE  AtRest(conn)
    BY <1>2 DEF IInv, Rest, AutoReady, AtRest, TypeOK
  <1>3. IInv => AutocommitAtRest
    BY <1>1, <1>2 DEF AutocommitAtRest
  <1> QED
    BY <1>3, Invariance, PTL

-----------------------------------------------------------------------------
(***************************************************************************)
(* The store implements AtomicStore                                        *)
(***************************************************************************)
\* Nothing of a call under way has taken effect if its writes have not.
LEMMA FreshCall ==
    ASSUME IInv, NEW t \in Threads, pc[t] # "idle", sent[t] \cap db = {}
    PROVE  Store!Fresh(<<t, call[t]>>)
  <1>1. /\ \A w \in db \cup returned \cup raised : w[1] \in Threads /\ w[2] \in 1 .. MaxCalls
        /\ \A u \in Threads : call[u] \in 0 .. MaxCalls
    BY Parts DEF IInv
  <1>2. \A w \in db \cup raised : w[1] = t => w[2] <= call[t] /\ w[2] # call[t]
    BY DEF IInv, Written, Past, Filed
  <1> QED
    BY <1>1, <1>2 DEF Store!Fresh

\* Only calls that are not over are mixed.
LEMMA Excusing ==
    ASSUME IInv, NEW met \in SUBSET {t \in Threads : pc[t] # "idle"}, Notes(met)
    PROVE  Store!Excuse
  <1>1. mixed \subseteq mixed'
    BY DEF Notes
  <1>2. ASSUME NEW c \in mixed' \ mixed, NEW w \in returned \cup raised, w[1] = c[1], w[2] = c[2]
        PROVE  FALSE
    <2>1. PICK u \in met : c = <<u, call[u]>>
      BY DEF Notes, Current
    <2>2. w[1] = u /\ w[2] = call[u] /\ pc[u] # "idle"
      BY <1>2, <2>1
    <2> QED
      BY <2>2 DEF IInv, Filed
  <1> QED
    BY <1>1, <1>2 DEF Store!Excuse, Store!Own

\* A step that shows nothing may mix calls.
LEMMA NothingShown ==
    ASSUME IInv, TypeOK', Store!Excuse, UNCHANGED <<db, returned, raised>>
    PROVE  [Store!Next]_(Store!vars)
  <1>1. CASE mixed' = mixed
    BY <1>1 DEF Store!vars
  <1>2. CASE mixed' # mixed
    <2>1. PICK c \in mixed' : TRUE
      BY <1>2 DEF Store!Excuse
    <2>2. c \in Store!Calls
      BY <2>1 DEF TypeOK, Store!Calls
    <2>3. \A d : Store!Stay(d)
      BY DEF Store!Stay, Store!Keeps, Store!Gains
    <2> QED
      BY <2>1, <2>2, <2>3 DEF Store!Next
  <1> QED
    BY <1>1, <1>2

\* What a step shows of a call that is not mixed is of the thread's own call.
LEMMA Shown ==
    ASSUME IInv, NEW t \in Threads, Step(t), Notes(Met(t)),
           NEW w \in (db' \ db) \cup (returned' \ returned) \cup (raised' \ raised),
           <<w[1], w[2]>> \notin mixed'
    PROVE  w[1] = t /\ w[2] = call[t]
  <1> USE DEF IInv
  <1>1. CASE w \in db' \ db
    <2>1. CASE Answered(t) /\ w = Write(t)
      BY <2>1 DEF Write
    <2>2. CASE Commit(t) /\ w \in held[Mine(t)]
      <3>1. Mine(t) \in Conns
        BY <2>2, MineIsOne DEF Commit
      <3>2. Alone(w)
        BY DEF Notes, Alone
      <3>3. Pure(w[1]) /\ w[2] = call[w[1]] /\ w[1] \in Threads
        BY <2>2, <3>1, <3>2, Parts DEF HeldPure
      <3>4. ASSUME w[1] # t PROVE FALSE
        <4>1. Inside(w[1]) /\ Current(w[1]) \notin mixed'
          BY <3>3 DEF Pure, Current
        <4>2. db' = db
          BY <3>3, <3>4, <4>1, Bystander
        <4> QED
          BY <1>1, <4>2
      <3> QED
        BY <3>3, <3>4
    <2> QED
      BY <1>1, <2>1, <2>2, DbGrows
  <1>2. CASE w \in (returned' \ returned) \cup (raised' \ raised)
    <2>1. w \in sent[t] \/ w = Write(t)
      BY <1>2, Filing
    <2> QED
      BY <2>1, OfCall DEF Write
  <1> QED
    BY <1>1, <1>2

\* So the other calls stay as they are.
LEMMA OthersStay ==
    ASSUME IInv, NEW t \in Threads, Step(t), Notes(Met(t)),
           NEW d \in Store!Calls, d \notin mixed', d # <<t, call[t]>>
    PROVE  Store!Stay(d)
  <1>1. d = <<d[1], d[2]>>
    BY DEF Store!Calls
  <1>2. db \subseteq db' /\ returned \subseteq returned' /\ raised \subseteq raised'
    BY DbGrows, Filing DEF IInv
  <1>3. \A w \in (db' \ db) \cup (returned' \ returned) \cup (raised' \ raised) :
          ~(w[1] = d[1] /\ w[2] = d[2])
    BY <1>1, Shown
  <1> QED
    BY <1>2, <1>3 DEF Store!Stay, Store!Keeps, Store!Gains, Store!Own

\* A statement of its own is committed with its answer.
LEMMA ExecuteShows ==
    ASSUME IInv, NEW t \in Threads, Answered(t), Notes(Met(t)), op[t] = "execute",
           Current(t) \notin mixed'
    PROVE  Store!Execute(<<t, call[t]>>)
  <1> USE DEF IInv
  <1>1. pc[t] = "statement" /\ open[Target(t)] = "open" /\ Target(t) = conn /\ sent[t] = {} /\ ~Inside(t)
    BY DEF Answered, Answers, Target, Control, Shape, Inside
  <1>2. Others(t) = {} /\ conn \notin spoiled
    BY <1>1 DEF Notes, Met
  <1>3. auto[conn]
    BY <1>1, <1>2 DEF Rest, Quiet, Others
  <1>4. Write(t) = <<t, call[t], 1>>
    <2>1. Cardinality({}) = 0
      BY FS_EmptySet
    <2> QED
      BY <1>1, <2>1 DEF Write
  <1>5. db' = db \cup {Write(t)} /\ returned' = returned \cup {Write(t)} /\ raised' = raised
    BY <1>1, <1>3 DEF Answered, AfterWrite, Finish
  <1>6. Store!First(<<t, call[t]>>, 1) = {Write(t)}
    BY <1>4 DEF Store!First
  <1>7. Store!Fresh(<<t, call[t]>>)
    BY <1>1, FreshCall
  <1> QED
    BY <1>4, <1>5, <1>6, <1>7 DEF Store!Execute, Store!Gains, Store!Keeps, Store!Own

\* A statement in a body is committed later.
LEMMA BodyShowsNothing ==
    ASSUME IInv, NEW t \in Threads, Answered(t), Notes(Met(t)), op[t] # "execute",
           Current(t) \notin mixed'
    PROVE  UNCHANGED <<db, returned, raised>>
  <1> USE DEF IInv
  <1>1. pc[t] = "statement" /\ Inside(t)
    <2>1. pc[t] = "statement" /\ op[t] \in Uses
      BY DEF Answered, TypeOK
    <2> QED
      BY <2>1 DEF Inside, Control, Shape, Uses
  <1>2. Pure(t)
    BY <1>1 DEF Pure, Notes
  <1>3. Target(t) = conn /\ ~auto[conn]
    <2>1. op[t] = "merge" => inner[t] # NoConn
      BY <1>1 DEF Control, Shape
    <2> QED
      BY <1>2, <2>1 DEF Target, InBody
  <1> QED
    BY <1>3 DEF Answered, AfterWrite

\* A commit shows the whole body.
LEMMA CommitShows ==
    ASSUME IInv, NEW t \in Threads, Commit(t), ~CommitRaises(Mine(t)), Current(t) \notin mixed
    PROVE  Store!Commit(<<t, call[t]>>)
  <1> USE DEF IInv
  <1>1. pc[t] = "commit" /\ Inside(t) /\ phase[t] = "body" /\ op[t] \in {"transaction", "merge"}
    <2>1. pc[t] = "commit" /\ op[t] \in Uses /\ phase[t] \in {"outside", "body", "failed"}
      BY DEF Commit, TypeOK
    <2> QED
      BY <2>1 DEF Inside, Control, Shape, Uses
  <1>2. Pure(t)
    BY <1>1 DEF Pure
  <1>3. Mine(t) = conn /\ held[conn] = sent[t] /\ sent[t] \cap db = {}
    BY <1>1, <1>2 DEF InBody, Committed
  <1>4. Cardinality(sent[t]) \in {2, 3} /\ sent[t] = Prefix(t, Cardinality(sent[t]))
    BY <1>1 DEF Control, Counted, Numbered
  <1>5. Cardinality(sent[t]) \in {Length.transaction, Length.merge}
    BY <1>4 DEF Length
  <1>6. db' = db \cup Store!First(<<t, call[t]>>, Cardinality(sent[t]))
    <2>1. Prefix(t, Cardinality(sent[t])) = Store!First(<<t, call[t]>>, Cardinality(sent[t]))
      BY DEF Prefix, Store!First
    <2> QED
      BY <1>3, <1>4, <2>1 DEF Commit
  <1>7. UNCHANGED <<returned, raised>>
    BY DEF Commit, Continue
  <1>8. Store!Fresh(<<t, call[t]>>)
    BY <1>1, <1>3, FreshCall
  <1>9. \A w \in Store!First(<<t, call[t]>>, Cardinality(sent[t])) : w[1] = t /\ w[2] = call[t]
    BY DEF Store!First
  <1> QED
    BY <1>5, <1>6, <1>7, <1>8, <1>9 DEF Store!Commit, Store!Gains, Store!Keeps, Store!Own

\* The finally block returns for what is committed, or raises for what is not.
LEMMA RestoreShows ==
    ASSUME IInv, NEW t \in Threads, Restore(t), Current(t) \notin mixed
    PROVE  \/ Store!Return(<<t, call[t]>>)
           \/ Store!Raise(<<t, call[t]>>)
           \/ UNCHANGED <<db, returned, raised>>
  <1> USE DEF IInv
  <1>1. pc[t] = "restore" /\ Inside(t) /\ phase[t] \in {"body", "failed"}
    <2>1. pc[t] = "restore" /\ op[t] \in Uses /\ phase[t] \in {"outside", "body", "failed"}
      BY DEF Restore, TypeOK
    <2> QED
      BY <2>1 DEF Inside, Control, Shape, Uses
  <1>2. Pure(t)
    BY <1>1 DEF Pure
  <1>3. Mine(t) = conn /\ open[conn] = "open" /\ txn[conn] = "ready"
    BY <1>1, <1>2 DEF InBody
  <1>4. Settable(Mine(t))
    BY <1>3 DEF Settable
  <1>5. IsFiniteSet(sent[t]) /\ Cardinality(sent[t]) \in 0 .. 3
        /\ sent[t] = Store!First(<<t, call[t]>>, Cardinality(sent[t]))
    BY DEF Control, Numbered, Prefix, Store!First
  <1>6. \A w \in sent[t] : w[1] = t /\ w[2] = call[t]
    BY OfCall
  <1>7. CASE phase[t] = "body"
    <2>1. returned' = returned \cup sent[t] /\ raised' = raised /\ db' = db
      BY <1>4, <1>7 DEF Restore, Finish
    <2>2. sent[t] \subseteq db
      BY <1>1, <1>2, <1>7 DEF InBody, Committed
    <2>3. Store!Own(<<t, call[t]>>, db) = sent[t]
      BY <1>1, <1>6, <2>2 DEF Written, Past, Store!Own
    <2>4. sent[t] # {}
      <3>1. Cardinality(sent[t]) # 0
        BY <1>1, <1>7 DEF Control, Counted, Committed
      <3> QED
        BY <3>1, FS_EmptySet
    <2>5. Store!Own(<<t, call[t]>>, returned) = {}
      BY <1>1 DEF Filed, Store!Own
    <2> QED
      BY <1>6, <2>1, <2>3, <2>4, <2>5 DEF Store!Return, Store!Gains, Store!Keeps, Store!Own
  <1>8. CASE phase[t] = "failed"
    <2>1. raised' = raised \cup sent[t] /\ returned' = returned /\ db' = db
      BY <1>4, <1>8 DEF Restore, Finish
    <2>2. CASE sent[t] = {}
      BY <2>1, <2>2
    <2>3. CASE sent[t] # {}
      <3>1. Cardinality(sent[t]) \in 1 .. Store!Longest
        BY <1>5, <2>3, FS_EmptySet DEF Store!Longest
      <3>2. Store!Fresh(<<t, call[t]>>)
        BY <1>1, <1>2, <1>8, FreshCall DEF InBody, Committed
      <3>3. Store!Gains(<<t, call[t]>>, raised, raised', sent[t])
        BY <1>6, <2>1 DEF Store!Gains, Store!Own
      <3>4. Store!Keeps(<<t, call[t]>>, db, db') /\ Store!Keeps(<<t, call[t]>>, returned, returned')
        BY <2>1 DEF Store!Keeps, Store!Gains
      <3> QED
        BY <1>5, <3>1, <3>2, <3>3, <3>4 DEF Store!Raise
    <2> QED
      BY <2>2, <2>3
  <1> QED
    BY <1>1, <1>7, <1>8

\* A step of a thread is a step of the abstract store.
LEMMA ThreadShows ==
    ASSUME IInv, NEW t \in Threads, Step(t), Notes(Met(t))
    PROVE  [Store!Next]_(Store!vars)
  <1> DEFINE c == <<t, call[t]>>
             G == Store!Execute(c) \/ Store!Commit(c) \/ Store!Return(c) \/ Store!Raise(c)
  <1>1. TypeOK'
    BY StepKeeps DEF IInv
  <1>2. Store!Excuse
    <2>1. Met(t) \in SUBSET {u \in Threads : pc[u] # "idle"}
      BY Meeting DEF IInv
    <2> QED
      BY <2>1, Excusing
  <1>3. CASE UNCHANGED <<db, returned, raised>>
    BY <1>1, <1>2, <1>3, NothingShown
  <1>4. ASSUME pc[t] # "idle", c \in mixed' \/ G
        PROVE  [Store!Next]_(Store!vars)
    <2>1. c \in Store!Calls
      <3>1. call[t] \in 0 .. MaxCalls /\ call[t] >= 1
        BY <1>4 DEF IInv, TypeOK, Control, Shape
      <3> QED
        BY <3>1 DEF Store!Calls
    <2>2. db \subseteq db'
      BY DbGrows DEF IInv
    <2>3. \A d \in Store!Calls \ (mixed' \cup {c}) : Store!Stay(d)
      BY OthersStay
    <2> QED
      BY <1>2, <1>4, <2>1, <2>2, <2>3 DEF Store!Next
  <1>5. CASE Answered(t)
    <2>1. pc[t] # "idle"
      BY <1>5 DEF Answered
    <2>2. CASE c \in mixed'
      BY <1>4, <2>1, <2>2
    <2>3. CASE c \notin mixed' /\ op[t] = "execute"
      BY <1>4, <1>5, <2>1, <2>3, ExecuteShows DEF Current
    <2>4. CASE c \notin mixed' /\ op[t] # "execute"
      BY <1>3, <1>5, <2>4, BodyShowsNothing DEF Current
    <2> QED
      BY <2>2, <2>3, <2>4
  <1>6. CASE Commit(t)
    <2>1. pc[t] # "idle"
      BY <1>6 DEF Commit
    <2>2. CASE c \in mixed'
      BY <1>4, <2>1, <2>2
    <2>3. CASE c \notin mixed' /\ ~CommitRaises(Mine(t))
      <3>1. Current(t) \notin mixed
        BY <2>3 DEF Notes, Current
      <3> QED
        BY <1>4, <1>6, <2>1, <2>3, <3>1, CommitShows
    <2>4. CASE CommitRaises(Mine(t))
      <3>1. Raise(t) /\ db' = db /\ phase[t] # "outside"
        <4>1. pc[t] = "commit" /\ op[t] \in Uses
          BY <1>6 DEF Commit, IInv, TypeOK
        <4> QED
          BY <1>6, <2>4, <4>1 DEF Commit, IInv, Control, Shape, Uses
      <3> QED
        BY <1>3, <3>1 DEF Raise
    <2> QED
      BY <2>2, <2>3, <2>4
  <1>7. CASE Restore(t)
    <2>1. pc[t] # "idle"
      BY <1>7 DEF Restore
    <2>2. CASE c \in mixed'
      BY <1>4, <2>1, <2>2
    <2>3. CASE c \notin mixed'
      <3>1. Current(t) \notin mixed
        BY <2>3 DEF Notes, Current
      <3> QED
        BY <1>3, <1>4, <1>7, <2>1, <3>1, RestoreShows
    <2> QED
      BY <2>2, <2>3
  <1>8. CASE ~Answered(t) /\ ~Commit(t) /\ ~Restore(t)
    <2>1. db' = db
      BY <1>8, DbGrows DEF IInv
    <2>2. returned' = returned /\ raised' = raised
      BY <1>8, Filing DEF IInv
    <2> QED
      BY <1>3, <2>1, <2>2
  <1> QED
    BY <1>5, <1>6, <1>7, <1>8

\* Every step is one, or shows nothing.
LEMMA StoreStep == IInv /\ [Next]_vars => [Store!Next]_(Store!vars)
  <1>1. ASSUME IInv, NEW c \in Conns, Drop(c), Notes({t \in Threads : Inside(t) /\ c = conn})
        PROVE  [Store!Next]_(Store!vars)
    <2>1. {t \in Threads : Inside(t) /\ c = conn} \in SUBSET {u \in Threads : pc[u] # "idle"}
      BY <1>1 DEF IInv, Inside, Control, Shape
    <2>2. Store!Excuse /\ TypeOK'
      BY <1>1, <2>1, Excusing, DropKeeps DEF IInv
    <2> QED
      BY <1>1, <2>2, NothingShown DEF Drop
  <1>2. CASE UNCHANGED vars
    BY <1>2 DEF vars, Store!vars
  <1> QED
    BY <1>1, <1>2, ThreadShows DEF Next

\* PostgresStore.execute, transaction() and merge_entities: each call that met no
\* other body and kept its connection is committed whole, in one step between its
\* first statement and its return, or is never seen, whatever the other calls do.
THEOREM StoreIsAtomic == Spec => ImplementsAtomicStore
  <1>1. Init => Store!Init
    BY DEF Init, Store!Init
  <1> QED
    BY <1>1, StoreStep, Invariance, PTL DEF Spec, ImplementsAtomicStore, Store!Spec

=============================================================================
