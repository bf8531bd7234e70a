------------------------ MODULE ConversationPurgeProofs ------------------------
(***************************************************************************)
(* Theorems of ConversationPurge for any number of request threads, job     *)
(* executions, jobs, attempts, sweeps, requests and faults.                 *)
(*                                                                         *)
(* The argument. Before the tombstone exists it claims nothing and no       *)
(* writer owes a check (Owed); a writer past its last check owes none        *)
(* (NoLateWriter). A purger is past its transaction only when the tombstone  *)
(* exists (Armed), so what it has erased stays erased until somebody writes, *)
(* which the history records (Erasing); and the row of the household copy    *)
(* hangs on the source row by its foreign key (Copied).                      *)
(***************************************************************************)
EXTENDS ConversationPurge, TLAPS

Results == [ses : BOOLEAN, pg : BOOLEAN, q : BOOLEAN, g : BOOLEAN]
Tombs   == [there : BOOLEAN, q : BOOLEAN, g : BOOLEAN, resolved : BOOLEAN,
            sweeps : 0 .. MaxSweeps]

\* Attempts of live jobs and of the sweeper are not used up.
Budgets ==
  /\ \A j \in Jobs : jobs[j].status \in {"none", "pending", "running"} => jobs[j].tries <= MaxTries
  /\ step[Sweeper] # "idle" => tomb.sweeps < MaxSweeps

\* Nobody owes a check of a tombstone that does not exist, and it claims nothing.
Owed == ~tomb.there => /\ ~tomb.q /\ ~tomb.g
                       /\ \A p \in Procs : due[p] = {}

\* A purger at a store arm has a tombstone, as has a delete that found no summary;
\* outside a delete a thread has no result.
Armed ==
  /\ \A p \in Purgers : step[p] \in {"cancel", "qdrant", "graph", "mark"} => tomb.there
  /\ \A t \in Threads : step[t] = "arm" /\ ~res[t].ses => tomb.there
  /\ \A p \in Purgers : res[p].q \/ res[p].g => tomb.there
  /\ \A t \in Threads : step[t] \notin DeleteSteps => res[t] = NoResult

\* Without a later write, what a purger says it has erased is gone.
Erasing ==
  tomb.there /\ ~stray => \A p \in Purgers : (res[p].q => points = {}) /\ (res[p].g => ~node)

\* published_from refers to the source row.
Copied == "shared" \in rows => "session" \in rows

\* The same of one delete during which nothing was written.
Cleared ==
  \A t \in Threads : step[t] \in DeleteSteps /\ ~dirty[t] =>
    /\ step[t] = "arm" /\ ~res[t].ses => "session" \notin rows
    /\ res[t].pg => rows \subseteq {"facts"}
    /\ res[t].q => points = {}
    /\ res[t].g => ~node

IInv == /\ TypeOK /\ Budgets /\ Owed /\ NoLateWriter /\ Armed /\ TombstoneIsTrue
        /\ Erasing /\ Copied /\ Cleared

USE ConversationAssumption DEF Procs, Purgers, Jobs, AllRows, Erased, Points,
    NoTomb, NoResult, ThreadSteps, DeleteSteps, JobSteps, SweepSteps, Requests

-----------------------------------------------------------------------------
(* Steps that several actions share. *)

\* A write that the history notes spoils no promise of a delete in progress.
LEMMA NotedCleared ==
  ASSUME NoteWrite, UNCHANGED res, TypeOK,
         \A t \in Threads : step'[t] \in DeleteSteps => step'[t] = step[t]
  PROVE  Cleared'
  <1>1. \A t \in Threads : step[t] \in DeleteSteps => dirty'[t]
    BY DEF NoteWrite, TypeOK
  <1> QED
    BY <1>1 DEF Cleared

\* Nor does a step of somebody else that writes nothing.
LEMMA QuietCleared ==
  ASSUME Cleared, UNCHANGED <<rows, points, node, res, dirty>>,
         \A t \in Threads : step'[t] \in DeleteSteps => step'[t] = step[t]
  PROVE  Cleared'
  BY DEF Cleared

\* The history variable of a noted write is a Boolean per thread.
LEMMA NotedType ==
  ASSUME NoteWrite PROVE dirty' \in [Threads -> BOOLEAN]
  BY DEF NoteWrite

\* A process that goes on to a step without a write ahead is no late writer.
LEMMA HarmlessGoto ==
  ASSUME NoLateWriter, TypeOK, NEW p \in Procs, NEW s, Goto(p, s),
         s \notin {"facts", "point", "session", "header", "owned", "message"}
  PROVE  NoLateWriter'
  BY DEF NoLateWriter, TypeOK, Goto, At

\* What a handler that ends does to its job and to itself.
LEMMA JobDoneSafe ==
  ASSUME TypeOK, Budgets, NEW h \in Handlers, step[h] # "idle", JobDone(h)
  PROVE  /\ jobs' \in [Jobs -> [status : {"none", "pending", "running", "done", "dead"},
                                tries : 0 .. MaxTries + 1]]
         /\ \A j \in Jobs : jobs'[j].status \in {"none", "pending", "running"}
                              => jobs'[j].tries <= MaxTries
  <1>1. job[h] \in Jobs
    BY DEF TypeOK
  <1>2. jobs[job[h]] \in [status : {"none", "pending", "running", "done", "dead"},
                          tries : 0 .. MaxTries + 1]
    BY <1>1 DEF TypeOK
  <1>3. jobs' = [jobs EXCEPT ![job[h]] = [jobs[job[h]] EXCEPT !.status = "done"]]
    BY <1>1, <1>2 DEF JobDone, TypeOK
  <1> DEFINE new == [jobs[job[h]] EXCEPT !.status = "done"]
  <1>4. /\ new.status = "done"
        /\ new \in [status : {"none", "pending", "running", "done", "dead"},
                    tries : 0 .. MaxTries + 1]
    BY <1>2
  <1> HIDE DEF new
  <1>5. \A j \in Jobs : jobs'[j] = IF j = job[h] THEN new ELSE jobs[j]
    BY <1>1, <1>3 DEF TypeOK, new
  <1> QED
    BY <1>1, <1>3, <1>4, <1>5 DEF TypeOK, Budgets, new

\* The same when the handler raised.
LEMMA JobFailsSafe ==
  ASSUME TypeOK, Budgets, NEW h \in Handlers, step[h] # "idle", JobFails(h)
  PROVE  /\ jobs' \in [Jobs -> [status : {"none", "pending", "running", "done", "dead"},
                                tries : 0 .. MaxTries + 1]]
         /\ \A j \in Jobs : jobs'[j].status \in {"none", "pending", "running"}
                              => jobs'[j].tries <= MaxTries
  <1>1. job[h] \in Jobs
    BY DEF TypeOK
  <1> DEFINE old == jobs[job[h]]
             new == IF old.status # "running" THEN old
                    ELSE [status |-> IF old.tries + 1 < MaxTries THEN "pending" ELSE "dead",
                          tries  |-> old.tries + 1]
  <1>2. /\ old \in [status : {"none", "pending", "running", "done", "dead"},
                    tries : 0 .. MaxTries + 1]
        /\ old.status \in {"none", "pending", "running"} => old.tries <= MaxTries
    BY <1>1 DEF TypeOK, Budgets
  <1>3. jobs' = [jobs EXCEPT ![job[h]] = new]
    BY <1>1 DEF JobFails
  <1> HIDE DEF old
  <1>4. /\ new \in [status : {"none", "pending", "running", "done", "dead"},
                    tries : 0 .. MaxTries + 1]
        /\ new.status \in {"none", "pending", "running"} => new.tries <= MaxTries
    BY <1>2
  <1> HIDE DEF new
  <1>5. \A j \in Jobs : jobs'[j] = IF j = job[h] THEN new ELSE jobs[j]
    BY <1>1, <1>3 DEF TypeOK
  <1> QED
    BY <1>1, <1>3, <1>4, <1>5 DEF TypeOK, Budgets

\* One flag of a PurgeResult is set, the others stay.
LEMMA ResultUpdate ==
  ASSUME NEW r \in Results, NEW b \in BOOLEAN
  PROVE  /\ [r EXCEPT !.ses = b] \in Results /\ [r EXCEPT !.pg = b] \in Results
         /\ [r EXCEPT !.q = b] \in Results /\ [r EXCEPT !.g = b] \in Results
  BY DEF Results

\* A thread goes on: its step is one of a thread's, and nobody owes more.
LEMMA ThreadGoes ==
  ASSUME TypeOK, NEW t \in Threads, NEW s \in ThreadSteps \cup DeleteSteps \cup {"idle"},
         Goto(t, s)
  PROVE  /\ step' \in [Procs -> ThreadSteps \cup DeleteSteps \cup JobSteps \cup {"idle"}]
         /\ \A i \in Handlers : step'[i] \in JobSteps \cup {"idle"}
         /\ \A i \in Threads : step'[i] \in ThreadSteps \cup DeleteSteps \cup {"idle"}
         /\ step'[Sweeper] \in SweepSteps \cup {"idle"}
         /\ due' \in [Procs -> SUBSET {"transcript", "start", "store"}]
         /\ step'[Sweeper] = step[Sweeper]
         /\ step'[t] = s /\ \A i \in Procs : i # t => step'[i] = step[i]
  BY DEF Goto, TypeOK

\* The same of a handler.
LEMMA HandlerGoes ==
  ASSUME TypeOK, NEW h \in Handlers, NEW s \in JobSteps \cup {"idle"}, Goto(h, s)
  PROVE  /\ step' \in [Procs -> ThreadSteps \cup DeleteSteps \cup JobSteps \cup {"idle"}]
         /\ \A i \in Handlers : step'[i] \in JobSteps \cup {"idle"}
         /\ \A i \in Threads : step'[i] \in ThreadSteps \cup DeleteSteps \cup {"idle"}
         /\ step'[Sweeper] \in SweepSteps \cup {"idle"}
         /\ due' \in [Procs -> SUBSET {"transcript", "start", "store"}]
         /\ \A i \in Purgers : step'[i] = step[i]
  BY DEF Goto, TypeOK

\* Going on owes nothing while there is no tombstone.
LEMMA OwedGoes ==
  ASSUME Owed, TypeOK, NEW p \in Procs, NEW s, Goto(p, s), UNCHANGED tomb
  PROVE  Owed'
  BY DEF Owed, Goto, TypeOK

\* A thread outside a delete that stays outside disturbs no purger.
LEMMA ArmedGoes ==
  ASSUME Armed, TypeOK, NEW t \in Threads, NEW s \in ThreadSteps \cup {"idle"},
         step[t] \in ThreadSteps, Goto(t, s), UNCHANGED <<res, tomb>>
  PROVE  Armed'
  <1>1. step'[t] = s /\ \A i \in Procs : i # t => step'[i] = step[i]
    BY DEF Goto, TypeOK
  <1> QED
    BY <1>1 DEF Armed

\* Nor does a step that leaves every purger where it is.
LEMMA ArmedStays ==
  ASSUME Armed, \A i \in Purgers : step'[i] = step[i], UNCHANGED <<res, tomb>>
  PROVE  Armed'
  BY DEF Armed

\* The tombstone row as the arms leave it.
LEMMA MarkedRow ==
  ASSUME TypeOK, NEW p \in Purgers, NEW U, U = Marked(res[p])
  PROVE  /\ U \in Tombs
         /\ U.there = tomb.there /\ U.q = res[p].q
         /\ U.g = res[p].g /\ U.sweeps = tomb.sweeps
  <1> DEFINE done == tomb.resolved \/ ~Partial(res[p])
             a == res[p].q
             b == res[p].g
  <1>1. done \in BOOLEAN
    BY DEF Partial
  <1>2. tomb \in Tombs /\ a \in BOOLEAN /\ b \in BOOLEAN
    BY DEF TypeOK, Tombs
  <1>3. U = [tomb EXCEPT !.q = a, !.g = b, !.resolved = done]
    BY DEF Marked
  <1> HIDE DEF done, a, b
  <1>4. U \in Tombs /\ U.there = tomb.there /\ U.q = a /\ U.g = b /\ U.sweeps = tomb.sweeps
    BY <1>1, <1>2, <1>3 DEF Tombs
  <1> QED
    BY <1>4 DEF a, b

\* The sweeper counts its attempt as well.
LEMMA SweptRow ==
  ASSUME NEW T \in Tombs, NEW n \in 0 .. MaxSweeps, NEW U, U = [T EXCEPT !.sweeps = n]
  PROVE  /\ U \in Tombs
         /\ U.there = T.there /\ U.q = T.q /\ U.g = T.g
  BY DEF Tombs

\* A delete that commits its purge leaves the checks ahead of everybody to be owed.
LEMMA PurgeOwes ==
  ASSUME NoLateWriter, TypeOK, NEW t \in Threads, Purges(t, "cancel")
  PROVE  NoLateWriter'
  <1>1. /\ step'[t] = "cancel"
        /\ \A p \in Procs : p # t => step'[p] = step[p]
    BY DEF Purges, TypeOK
  <1>2. CASE tomb.there
    BY <1>1, <1>2 DEF Purges, NoLateWriter, At
  <1>3. CASE ~tomb.there
    <2>1. \A p \in Procs : due'[p] = ChecksAhead(step[p])
      BY <1>3 DEF Purges
    <2>2. /\ "start" \notin ChecksAhead("facts")
          /\ ChecksAhead("point") = {} /\ ChecksAhead("session") = {}
          /\ ChecksAhead("header") = {} /\ ChecksAhead("owned") = {}
          /\ ChecksAhead("message") = {}
      BY DEF ChecksAhead
    <2> QED
      BY <1>1, <2>1, <2>2 DEF NoLateWriter, At
  <1> QED
    BY <1>2, <1>3

\* A process starts in the inductive invariant.
LEMMA InitInv == Init => IInv
  <1> SUFFICES ASSUME Init PROVE IInv
    OBVIOUS
  <1> USE DEF Init
  <1>1. TypeOK
    <2>1. rows \subseteq AllRows /\ points \subseteq Points /\ node \in BOOLEAN
      OBVIOUS
    <2>2. fired \in BOOLEAN /\ stray \in BOOLEAN /\ spoilt \in BOOLEAN
      OBVIOUS
    <2>3. res \in [Purgers -> [ses : BOOLEAN, pg : BOOLEAN, q : BOOLEAN, g : BOOLEAN]]
      OBVIOUS
    <2>4. calls \in 0 .. MaxCalls /\ faults \in 0 .. MaxFaults
      OBVIOUS
    <2>5. dirty \in [Threads -> BOOLEAN]
      OBVIOUS
    <2>6. /\ tomb \in [there : BOOLEAN, q : BOOLEAN, g : BOOLEAN, resolved : BOOLEAN,
             sweeps : 0 .. MaxSweeps]
          /\ jobs \in [Jobs -> [status : {"none", "pending", "running", "done", "dead"},
             tries : 0 .. MaxTries + 1]]
      OBVIOUS
    <2>7. /\ step \in [Procs -> ThreadSteps \cup DeleteSteps \cup JobSteps \cup {"idle"}]
          /\ \A i \in Handlers : step[i] \in JobSteps \cup {"idle"}
          /\ \A i \in Threads : step[i] \in ThreadSteps \cup DeleteSteps \cup {"idle"}
          /\ step[Sweeper] \in SweepSteps \cup {"idle"}
          /\ job \in [Handlers -> 0 .. MaxJobs]
          /\ \A i \in Handlers : step[i] # "idle" => job[i] \in Jobs
          /\ due \in [Procs -> SUBSET {"transcript", "start", "store"}]
      OBVIOUS
    <2> QED
      BY <2>1, <2>2, <2>3, <2>4, <2>5, <2>6, <2>7 DEF TypeOK
  <1>2. Budgets
    <2>1. \A j \in Jobs : jobs[j].tries = 0
      OBVIOUS
    <2> QED
      BY <2>1 DEF Budgets
  <1>3. Owed
    BY DEF TypeOK, Owed, Armed
  <1>4. NoLateWriter
    BY DEF TypeOK, NoLateWriter, Owed
  <1>5. Armed
    BY DEF TypeOK, Armed
  <1>6. TombstoneIsTrue
    BY DEF TypeOK, TombstoneIsTrue, Owed, Armed, Erasing
  <1>7. Erasing
    BY DEF TypeOK, Erasing, TombstoneIsTrue, Owed, Armed
  <1>8. Copied
    BY DEF TypeOK, Copied, Armed
  <1>9. Cleared
    BY DEF TypeOK, Cleared, Copied, Armed
  <1> QED
    BY <1>1, <1>2, <1>3, <1>4, <1>5, <1>6, <1>7, <1>8, <1>9 DEF IInv

-----------------------------------------------------------------------------
(* Requests. *)

\* Request preserves the inductive invariant.
LEMMA RequestInv ==
  ASSUME IInv, NEW t \in Threads, NEW s \in Requests, Request(t, s) PROVE IInv'
  <1> USE DEF IInv, stores, queue, counts, history, At, Request, Begins, ChecksAhead
  <1>1. TypeOK'
    <2>1. /\ rows' \subseteq AllRows /\ points' \subseteq Points /\ node' \in BOOLEAN
          /\ fired' \in BOOLEAN /\ stray' \in BOOLEAN /\ spoilt' \in BOOLEAN
          /\ res' \in [Purgers -> [ses : BOOLEAN, pg : BOOLEAN, q : BOOLEAN, g : BOOLEAN]]
          /\ calls' \in 0 .. MaxCalls /\ faults' \in 0 .. MaxFaults
          /\ dirty' \in [Threads -> BOOLEAN]
      BY DEF TypeOK
    <2>2. /\ tomb' \in [there : BOOLEAN, q : BOOLEAN, g : BOOLEAN, resolved : BOOLEAN,
             sweeps : 0 .. MaxSweeps]
          /\ jobs' \in [Jobs -> [status : {"none", "pending", "running", "done", "dead"},
             tries : 0 .. MaxTries + 1]]
      BY DEF TypeOK, Budgets
    <2>3. /\ step' \in [Procs -> ThreadSteps \cup DeleteSteps \cup JobSteps \cup {"idle"}]
          /\ \A i \in Handlers : step'[i] \in JobSteps \cup {"idle"}
          /\ \A i \in Threads : step'[i] \in ThreadSteps \cup DeleteSteps \cup {"idle"}
          /\ step'[Sweeper] \in SweepSteps \cup {"idle"}
          /\ job' \in [Handlers -> 0 .. MaxJobs]
          /\ \A i \in Handlers : step'[i] # "idle" => job'[i] \in Jobs
          /\ due' \in [Procs -> SUBSET {"transcript", "start", "store"}]
      BY DEF TypeOK
    <2> QED
      BY <2>1, <2>2, <2>3 DEF TypeOK
  <1>2. Budgets'
    BY DEF TypeOK, Budgets
  <1>3. Owed'
    BY DEF TypeOK, Owed, Armed
  <1>4. NoLateWriter'
    BY DEF TypeOK, NoLateWriter, Owed
  <1>5. Armed'
    BY DEF TypeOK, Armed
  <1>6. TombstoneIsTrue'
    BY DEF TypeOK, TombstoneIsTrue, Owed, Armed, Erasing
  <1>7. Erasing'
    BY DEF TypeOK, Erasing, TombstoneIsTrue, Owed, Armed
  <1>8. Copied'
    BY DEF TypeOK, Copied, Armed
  <1>9. Cleared'
    BY DEF TypeOK, Cleared, Copied, Armed
  <1> QED
    BY <1>1, <1>2, <1>3, <1>4, <1>5, <1>6, <1>7, <1>8, <1>9 DEF IInv

\* CheckTranscript preserves the inductive invariant.
LEMMA CheckTranscriptInv ==
  ASSUME IInv, NEW t \in Threads, NEW s, NEW o,
         <<s, o>> \in {<<"put", "header">>, <<"append", "owned">>},
         CheckTranscript(t, s, o) PROVE IInv'
  <1> USE DEF IInv, stores, queue, counts, history, At, CheckTranscript, Goto
  <1>1. TypeOK'
    <2>1. /\ rows' \subseteq AllRows /\ points' \subseteq Points /\ node' \in BOOLEAN
          /\ fired' \in BOOLEAN /\ stray' \in BOOLEAN /\ spoilt' \in BOOLEAN
          /\ res' \in [Purgers -> [ses : BOOLEAN, pg : BOOLEAN, q : BOOLEAN, g : BOOLEAN]]
          /\ calls' \in 0 .. MaxCalls /\ faults' \in 0 .. MaxFaults
          /\ dirty' \in [Threads -> BOOLEAN]
      BY DEF TypeOK
    <2>2. /\ tomb' \in [there : BOOLEAN, q : BOOLEAN, g : BOOLEAN, resolved : BOOLEAN,
             sweeps : 0 .. MaxSweeps]
          /\ jobs' \in [Jobs -> [status : {"none", "pending", "running", "done", "dead"},
             tries : 0 .. MaxTries + 1]]
      BY DEF TypeOK, Budgets
    <2>3. /\ step' \in [Procs -> ThreadSteps \cup DeleteSteps \cup JobSteps \cup {"idle"}]
          /\ \A i \in Handlers : step'[i] \in JobSteps \cup {"idle"}
          /\ \A i \in Threads : step'[i] \in ThreadSteps \cup DeleteSteps \cup {"idle"}
          /\ step'[Sweeper] \in SweepSteps \cup {"idle"}
          /\ job' \in [Handlers -> 0 .. MaxJobs]
          /\ \A i \in Handlers : step'[i] # "idle" => job'[i] \in Jobs
          /\ due' \in [Procs -> SUBSET {"transcript", "start", "store"}]
      BY DEF TypeOK
    <2> QED
      BY <2>1, <2>2, <2>3 DEF TypeOK
  <1>2. Budgets'
    BY DEF TypeOK, Budgets
  <1>3. Owed'
    BY DEF TypeOK, Owed, Armed
  <1>4. NoLateWriter'
    BY DEF TypeOK, NoLateWriter, Owed
  <1>5. Armed'
    BY DEF TypeOK, Armed
  <1>6. TombstoneIsTrue'
    BY DEF TypeOK, TombstoneIsTrue, Owed, Armed, Erasing
  <1>7. Erasing'
    BY DEF TypeOK, Erasing, TombstoneIsTrue, Owed, Armed
  <1>8. Copied'
    BY DEF TypeOK, Copied, Armed
  <1>9. Cleared'
    BY DEF TypeOK, Cleared, Copied, Armed
  <1> QED
    BY <1>1, <1>2, <1>3, <1>4, <1>5, <1>6, <1>7, <1>8, <1>9 DEF IInv

\* WriteHeader preserves the inductive invariant.
LEMMA WriteHeaderInv ==
  ASSUME IInv, NEW t \in Threads, WriteHeader(t) PROVE IInv'
  <1> USE DEF IInv, stores, queue, counts, history, At, WriteHeader, Goto, NoteWrite
  <1>1. TypeOK'
    <2>1. /\ rows' \subseteq AllRows /\ points' \subseteq Points /\ node' \in BOOLEAN
          /\ fired' \in BOOLEAN /\ stray' \in BOOLEAN /\ spoilt' \in BOOLEAN
          /\ res' \in [Purgers -> [ses : BOOLEAN, pg : BOOLEAN, q : BOOLEAN, g : BOOLEAN]]
          /\ calls' \in 0 .. MaxCalls /\ faults' \in 0 .. MaxFaults
          /\ dirty' \in [Threads -> BOOLEAN]
      BY DEF TypeOK
    <2>2. /\ tomb' \in [there : BOOLEAN, q : BOOLEAN, g : BOOLEAN, resolved : BOOLEAN,
             sweeps : 0 .. MaxSweeps]
          /\ jobs' \in [Jobs -> [status : {"none", "pending", "running", "done", "dead"},
             tries : 0 .. MaxTries + 1]]
      BY DEF TypeOK, Budgets
    <2>3. /\ step' \in [Procs -> ThreadSteps \cup DeleteSteps \cup JobSteps \cup {"idle"}]
          /\ \A i \in Handlers : step'[i] \in JobSteps \cup {"idle"}
          /\ \A i \in Threads : step'[i] \in ThreadSteps \cup DeleteSteps \cup {"idle"}
          /\ step'[Sweeper] \in SweepSteps \cup {"idle"}
          /\ job' \in [Handlers -> 0 .. MaxJobs]
          /\ \A i \in Handlers : step'[i] # "idle" => job'[i] \in Jobs
          /\ due' \in [Procs -> SUBSET {"transcript", "start", "store"}]
      BY DEF TypeOK
    <2> QED
      BY <2>1, <2>2, <2>3 DEF TypeOK
  <1>2. Budgets'
    BY DEF TypeOK, Budgets
  <1>3. Owed'
    BY DEF TypeOK, Owed, Armed
  <1>4. NoLateWriter'
    BY DEF TypeOK, NoLateWriter, Owed
  <1>5. Armed'
    BY DEF TypeOK, Armed
  <1>6. TombstoneIsTrue'
    BY DEF TypeOK, TombstoneIsTrue, Owed, Armed, Erasing
  <1>7. Erasing'
    BY DEF TypeOK, Erasing, TombstoneIsTrue, Owed, Armed
  <1>8. Copied'
    BY DEF TypeOK, Copied, Armed
  <1>9. Cleared'
    BY DEF TypeOK, Cleared, Copied, Armed
  <1> QED
    BY <1>1, <1>2, <1>3, <1>4, <1>5, <1>6, <1>7, <1>8, <1>9 DEF IInv

\* CheckOwned preserves the inductive invariant.
LEMMA CheckOwnedInv ==
  ASSUME IInv, NEW t \in Threads, CheckOwned(t) PROVE IInv'
  <1> USE DEF IInv, stores, queue, counts, history, At, CheckOwned, Goto
  <1>1. TypeOK'
    <2>1. /\ rows' \subseteq AllRows /\ points' \subseteq Points /\ node' \in BOOLEAN
          /\ fired' \in BOOLEAN /\ stray' \in BOOLEAN /\ spoilt' \in BOOLEAN
          /\ res' \in [Purgers -> [ses : BOOLEAN, pg : BOOLEAN, q : BOOLEAN, g : BOOLEAN]]
          /\ calls' \in 0 .. MaxCalls /\ faults' \in 0 .. MaxFaults
          /\ dirty' \in [Threads -> BOOLEAN]
      BY DEF TypeOK
    <2>2. /\ tomb' \in [there : BOOLEAN, q : BOOLEAN, g : BOOLEAN, resolved : BOOLEAN,
             sweeps : 0 .. MaxSweeps]
          /\ jobs' \in [Jobs -> [status : {"none", "pending", "running", "done", "dead"},
             tries : 0 .. MaxTries + 1]]
      BY DEF TypeOK, Budgets
    <2>3. /\ step' \in [Procs -> ThreadSteps \cup DeleteSteps \cup JobSteps \cup {"idle"}]
          /\ \A i \in Handlers : step'[i] \in JobSteps \cup {"idle"}
          /\ \A i \in Threads : step'[i] \in ThreadSteps \cup DeleteSteps \cup {"idle"}
          /\ step'[Sweeper] \in SweepSteps \cup {"idle"}
          /\ job' \in [Handlers -> 0 .. MaxJobs]
          /\ \A i \in Handlers : step'[i] # "idle" => job'[i] \in Jobs
          /\ due' \in [Procs -> SUBSET {"transcript", "start", "store"}]
      BY DEF TypeOK
    <2> QED
      BY <2>1, <2>2, <2>3 DEF TypeOK
  <1>2. Budgets'
    BY DEF TypeOK, Budgets
  <1>3. Owed'
    BY DEF TypeOK, Owed, Armed
  <1>4. NoLateWriter'
    BY DEF TypeOK, NoLateWriter, Owed
  <1>5. Armed'
    BY DEF TypeOK, Armed
  <1>6. TombstoneIsTrue'
    BY DEF TypeOK, TombstoneIsTrue, Owed, Armed, Erasing
  <1>7. Erasing'
    BY DEF TypeOK, Erasing, TombstoneIsTrue, Owed, Armed
  <1>8. Copied'
    BY DEF TypeOK, Copied, Armed
  <1>9. Cleared'
    BY DEF TypeOK, Cleared, Copied, Armed
  <1> QED
    BY <1>1, <1>2, <1>3, <1>4, <1>5, <1>6, <1>7, <1>8, <1>9 DEF IInv

\* WriteMessage preserves the inductive invariant.
LEMMA WriteMessageInv ==
  ASSUME IInv, NEW t \in Threads, WriteMessage(t) PROVE IInv'
  <1> USE DEF IInv, stores, queue, counts, history, At, WriteMessage, Goto, NoteWrite
  <1>1. TypeOK'
    <2>1. /\ rows' \subseteq AllRows /\ points' \subseteq Points /\ node' \in BOOLEAN
          /\ fired' \in BOOLEAN /\ stray' \in BOOLEAN /\ spoilt' \in BOOLEAN
          /\ res' \in [Purgers -> [ses : BOOLEAN, pg : BOOLEAN, q : BOOLEAN, g : BOOLEAN]]
          /\ calls' \in 0 .. MaxCalls /\ faults' \in 0 .. MaxFaults
      BY DEF TypeOK
    <2>2. dirty' \in [Threads -> BOOLEAN]
      <3>1. CASE NoteWrite
        BY <3>1, NotedType
      <3>2. CASE UNCHANGED dirty
        BY <3>2 DEF TypeOK
      <3> QED
        BY <3>1, <3>2
    <2>3. /\ tomb' \in [there : BOOLEAN, q : BOOLEAN, g : BOOLEAN, resolved : BOOLEAN,
             sweeps : 0 .. MaxSweeps]
          /\ jobs' \in [Jobs -> [status : {"none", "pending", "running", "done", "dead"},
             tries : 0 .. MaxTries + 1]]
      BY DEF TypeOK, Budgets
    <2>4. /\ step' \in [Procs -> ThreadSteps \cup DeleteSteps \cup JobSteps \cup {"idle"}]
          /\ \A i \in Handlers : step'[i] \in JobSteps \cup {"idle"}
          /\ \A i \in Threads : step'[i] \in ThreadSteps \cup DeleteSteps \cup {"idle"}
          /\ step'[Sweeper] \in SweepSteps \cup {"idle"}
          /\ job' \in [Handlers -> 0 .. MaxJobs]
          /\ \A i \in Handlers : step'[i] # "idle" => job'[i] \in Jobs
          /\ due' \in [Procs -> SUBSET {"transcript", "start", "store"}]
      BY DEF TypeOK
    <2> QED
      BY <2>1, <2>2, <2>3, <2>4 DEF TypeOK
  <1>2. Budgets'
    BY DEF TypeOK, Budgets
  <1>3. Owed'
    BY DEF TypeOK, Owed, Armed
  <1>4. NoLateWriter'
    BY DEF TypeOK, NoLateWriter, Owed
  <1>5. Armed'
    BY DEF TypeOK, Armed
  <1>6. TombstoneIsTrue'
    BY DEF TypeOK, TombstoneIsTrue, Owed, Armed, Erasing
  <1>7. Erasing'
    BY DEF TypeOK, Erasing, TombstoneIsTrue, Owed, Armed
  <1>8. Copied'
    BY DEF TypeOK, Copied, Armed
  <1>9. Cleared'
    <2>1. \A i \in Threads : step'[i] \in DeleteSteps => step'[i] = step[i]
      BY DEF TypeOK
    <2>2. CASE NoteWrite
      BY <2>1, <2>2, NotedCleared
    <2>3. CASE UNCHANGED <<rows, points, node, res, dirty>>
      BY <2>1, <2>3, QuietCleared
    <2> QED
      BY <2>2, <2>3 DEF Cleared
  <1> QED
    BY <1>1, <1>2, <1>3, <1>4, <1>5, <1>6, <1>7, <1>8, <1>9 DEF IInv

\* FetchSource preserves the inductive invariant.
LEMMA FetchSourceInv ==
  ASSUME IInv, NEW t \in Threads, NEW s, NEW o,
         <<s, o>> \in {<<"publish", "sharedPoint">>, <<"unpublish", "dropRow">>},
         FetchSource(t, s, o) PROVE IInv'
  <1> USE DEF IInv, stores, queue, counts, history, At, FetchSource, Goto
  <1>1. TypeOK'
    <2>1. /\ rows' \subseteq AllRows /\ points' \subseteq Points /\ node' \in BOOLEAN
          /\ fired' \in BOOLEAN /\ stray' \in BOOLEAN /\ spoilt' \in BOOLEAN
          /\ res' \in [Purgers -> [ses : BOOLEAN, pg : BOOLEAN, q : BOOLEAN, g : BOOLEAN]]
          /\ calls' \in 0 .. MaxCalls /\ faults' \in 0 .. MaxFaults
          /\ dirty' \in [Threads -> BOOLEAN]
      BY DEF TypeOK
    <2>2. /\ tomb' \in [there : BOOLEAN, q : BOOLEAN, g : BOOLEAN, resolved : BOOLEAN,
             sweeps : 0 .. MaxSweeps]
          /\ jobs' \in [Jobs -> [status : {"none", "pending", "running", "done", "dead"},
             tries : 0 .. MaxTries + 1]]
      BY DEF TypeOK, Budgets
    <2>3. /\ step' \in [Procs -> ThreadSteps \cup DeleteSteps \cup JobSteps \cup {"idle"}]
          /\ \A i \in Handlers : step'[i] \in JobSteps \cup {"idle"}
          /\ \A i \in Threads : step'[i] \in ThreadSteps \cup DeleteSteps \cup {"idle"}
          /\ step'[Sweeper] \in SweepSteps \cup {"idle"}
          /\ job' \in [Handlers -> 0 .. MaxJobs]
          /\ \A i \in Handlers : step'[i] # "idle" => job'[i] \in Jobs
          /\ due' \in [Procs -> SUBSET {"transcript", "start", "store"}]
      BY DEF TypeOK
    <2> QED
      BY <2>1, <2>2, <2>3 DEF TypeOK
  <1>2. Budgets'
    BY DEF TypeOK, Budgets
  <1>3. Owed'
    BY DEF TypeOK, Owed, Armed
  <1>4. NoLateWriter'
    BY DEF TypeOK, NoLateWriter, Owed
  <1>5. Armed'
    BY DEF TypeOK, Armed
  <1>6. TombstoneIsTrue'
    BY DEF TypeOK, TombstoneIsTrue, Owed, Armed, Erasing
  <1>7. Erasing'
    BY DEF TypeOK, Erasing, TombstoneIsTrue, Owed, Armed
  <1>8. Copied'
    BY DEF TypeOK, Copied, Armed
  <1>9. Cleared'
    BY DEF TypeOK, Cleared, Copied, Armed
  <1> QED
    BY <1>1, <1>2, <1>3, <1>4, <1>5, <1>6, <1>7, <1>8, <1>9 DEF IInv

\* SharePoint preserves the inductive invariant.
LEMMA SharePointInv ==
  ASSUME IInv, NEW t \in Threads, SharePoint(t) PROVE IInv'
  <1> USE DEF IInv, stores, queue, counts, history, At, SharePoint, Goto, NoteWrite, Raises, Works
  <1>g. PICK s \in {"sharedRow", "idle"} : Goto(t, s)
    OBVIOUS
  <1>h. /\ step' \in [Procs -> ThreadSteps \cup DeleteSteps \cup JobSteps \cup {"idle"}]
        /\ \A i \in Handlers : step'[i] \in JobSteps \cup {"idle"}
        /\ \A i \in Threads : step'[i] \in ThreadSteps \cup DeleteSteps \cup {"idle"}
        /\ step'[Sweeper] \in SweepSteps \cup {"idle"}
        /\ due' \in [Procs -> SUBSET {"transcript", "start", "store"}]
        /\ step'[Sweeper] = step[Sweeper]
        /\ step'[t] = s /\ \A i \in Procs : i # t => step'[i] = step[i]
    BY <1>g, ThreadGoes, Zenon
  <1>1. TypeOK'
    <2>1. rows' \subseteq AllRows /\ points' \subseteq Points /\ node' \in BOOLEAN
      BY DEF TypeOK
    <2>2. fired' \in BOOLEAN /\ stray' \in BOOLEAN /\ spoilt' \in BOOLEAN
      BY DEF TypeOK
    <2>3. res' \in [Purgers -> [ses : BOOLEAN, pg : BOOLEAN, q : BOOLEAN, g : BOOLEAN]]
      BY DEF TypeOK
    <2>4. calls' \in 0 .. MaxCalls /\ faults' \in 0 .. MaxFaults
      BY DEF TypeOK
    <2>5. dirty' \in [Threads -> BOOLEAN]
      <3>1. CASE NoteWrite
        BY <3>1, NotedType
      <3>2. CASE UNCHANGED dirty
        BY <3>2 DEF TypeOK
      <3> QED
        BY <3>1, <3>2
    <2>6. /\ tomb' \in [there : BOOLEAN, q : BOOLEAN, g : BOOLEAN, resolved : BOOLEAN,
             sweeps : 0 .. MaxSweeps]
          /\ jobs' \in [Jobs -> [status : {"none", "pending", "running", "done", "dead"},
             tries : 0 .. MaxTries + 1]]
      BY DEF TypeOK, Budgets
    <2>7. step' \in [Procs -> ThreadSteps \cup DeleteSteps \cup JobSteps \cup {"idle"}]
      BY <1>h
    <2>8. /\ \A i \in Handlers : step'[i] \in JobSteps \cup {"idle"}
          /\ \A i \in Threads : step'[i] \in ThreadSteps \cup DeleteSteps \cup {"idle"}
          /\ step'[Sweeper] \in SweepSteps \cup {"idle"}
      BY <1>h
    <2>9. /\ job' \in [Handlers -> 0 .. MaxJobs]
          /\ \A i \in Handlers : step'[i] # "idle" => job'[i] \in Jobs
      BY DEF TypeOK
    <2>10. due' \in [Procs -> SUBSET {"transcript", "start", "store"}]
      BY <1>h
    <2> QED
      BY <2>1, <2>2, <2>3, <2>4, <2>5, <2>6, <2>7, <2>8, <2>9, <2>10 DEF TypeOK
  <1>2. Budgets'
    BY DEF TypeOK, Budgets
  <1>3. Owed'
    BY <1>g, OwedGoes
  <1>4. NoLateWriter'
    BY <1>g, HarmlessGoto
  <1>5. Armed'
    BY <1>g, ArmedGoes
  <1>6. TombstoneIsTrue'
    BY DEF TypeOK, TombstoneIsTrue, Owed, Armed, Erasing
  <1>7. Erasing'
    BY DEF TypeOK, Erasing, TombstoneIsTrue, Owed, Armed
  <1>8. Copied'
    BY DEF TypeOK, Copied, Armed
  <1>9. Cleared'
    <2>1. \A i \in Threads : step'[i] \in DeleteSteps => step'[i] = step[i]
      BY DEF TypeOK
    <2>2. CASE NoteWrite
      BY <2>1, <2>2, NotedCleared
    <2>3. CASE UNCHANGED <<rows, points, node, res, dirty>>
      BY <2>1, <2>3, QuietCleared
    <2> QED
      BY <2>2, <2>3 DEF Cleared
  <1> QED
    BY <1>1, <1>2, <1>3, <1>4, <1>5, <1>6, <1>7, <1>8, <1>9 DEF IInv

\* ShareRow preserves the inductive invariant.
LEMMA ShareRowInv ==
  ASSUME IInv, NEW t \in Threads, ShareRow(t) PROVE IInv'
  <1> USE DEF IInv, stores, queue, counts, history, At, ShareRow, Goto, NoteWrite, Raises, Works, AfterShareFails
  <1>g. PICK s \in {"idle", "undo"} : Goto(t, s)
    OBVIOUS
  <1>h. /\ step' \in [Procs -> ThreadSteps \cup DeleteSteps \cup JobSteps \cup {"idle"}]
        /\ \A i \in Handlers : step'[i] \in JobSteps \cup {"idle"}
        /\ \A i \in Threads : step'[i] \in ThreadSteps \cup DeleteSteps \cup {"idle"}
        /\ step'[Sweeper] \in SweepSteps \cup {"idle"}
        /\ due' \in [Procs -> SUBSET {"transcript", "start", "store"}]
        /\ step'[Sweeper] = step[Sweeper]
        /\ step'[t] = s /\ \A i \in Procs : i # t => step'[i] = step[i]
    BY <1>g, ThreadGoes, Zenon
  <1>1. TypeOK'
    <2>1. rows' \subseteq AllRows /\ points' \subseteq Points /\ node' \in BOOLEAN
      BY DEF TypeOK
    <2>2. fired' \in BOOLEAN /\ stray' \in BOOLEAN /\ spoilt' \in BOOLEAN
      BY DEF TypeOK
    <2>3. res' \in [Purgers -> [ses : BOOLEAN, pg : BOOLEAN, q : BOOLEAN, g : BOOLEAN]]
      BY DEF TypeOK
    <2>4. calls' \in 0 .. MaxCalls /\ faults' \in 0 .. MaxFaults
      BY DEF TypeOK
    <2>5. dirty' \in [Threads -> BOOLEAN]
      <3>1. CASE NoteWrite
        BY <3>1, NotedType
      <3>2. CASE UNCHANGED dirty
        BY <3>2 DEF TypeOK
      <3> QED
        BY <3>1, <3>2
    <2>6. /\ tomb' \in [there : BOOLEAN, q : BOOLEAN, g : BOOLEAN, resolved : BOOLEAN,
             sweeps : 0 .. MaxSweeps]
          /\ jobs' \in [Jobs -> [status : {"none", "pending", "running", "done", "dead"},
             tries : 0 .. MaxTries + 1]]
      BY DEF TypeOK, Budgets
    <2>7. step' \in [Procs -> ThreadSteps \cup DeleteSteps \cup JobSteps \cup {"idle"}]
      BY <1>h
    <2>8. /\ \A i \in Handlers : step'[i] \in JobSteps \cup {"idle"}
          /\ \A i \in Threads : step'[i] \in ThreadSteps \cup DeleteSteps \cup {"idle"}
          /\ step'[Sweeper] \in SweepSteps \cup {"idle"}
      BY <1>h
    <2>9. /\ job' \in [Handlers -> 0 .. MaxJobs]
          /\ \A i \in Handlers : step'[i] # "idle" => job'[i] \in Jobs
      BY DEF TypeOK
    <2>10. due' \in [Procs -> SUBSET {"transcript", "start", "store"}]
      BY <1>h
    <2> QED
      BY <2>1, <2>2, <2>3, <2>4, <2>5, <2>6, <2>7, <2>8, <2>9, <2>10 DEF TypeOK
  <1>2. Budgets'
    BY DEF TypeOK, Budgets
  <1>3. Owed'
    BY <1>g, OwedGoes
  <1>4. NoLateWriter'
    BY <1>g, HarmlessGoto
  <1>5. Armed'
    BY <1>g, ArmedGoes
  <1>6. TombstoneIsTrue'
    BY DEF TypeOK, TombstoneIsTrue, Owed, Armed, Erasing
  <1>7. Erasing'
    BY DEF TypeOK, Erasing, TombstoneIsTrue, Owed, Armed
  <1>8. Copied'
    BY DEF TypeOK, Copied, Armed
  <1>9. Cleared'
    <2>1. \A i \in Threads : step'[i] \in DeleteSteps => step'[i] = step[i]
      BY DEF TypeOK
    <2>2. CASE NoteWrite
      BY <2>1, <2>2, NotedCleared
    <2>3. CASE UNCHANGED <<rows, points, node, res, dirty>>
      BY <2>1, <2>3, QuietCleared
    <2> QED
      BY <2>2, <2>3 DEF Cleared
  <1> QED
    BY <1>1, <1>2, <1>3, <1>4, <1>5, <1>6, <1>7, <1>8, <1>9 DEF IInv

\* ErasePoint preserves the inductive invariant.
LEMMA ErasePointInv ==
  ASSUME IInv, NEW t \in Threads, NEW s \in {"undo", "dropPoint"}, ErasePoint(t, s) PROVE IInv'
  <1> USE DEF IInv, stores, queue, counts, history, At, ErasePoint, Goto, Raises, Works
  <1>1. TypeOK'
    <2>1. rows' \subseteq AllRows /\ points' \subseteq Points /\ node' \in BOOLEAN
      BY DEF TypeOK
    <2>2. fired' \in BOOLEAN /\ stray' \in BOOLEAN /\ spoilt' \in BOOLEAN
      BY DEF TypeOK
    <2>3. res' \in [Purgers -> [ses : BOOLEAN, pg : BOOLEAN, q : BOOLEAN, g : BOOLEAN]]
      BY DEF TypeOK
    <2>4. calls' \in 0 .. MaxCalls /\ faults' \in 0 .. MaxFaults
      BY DEF TypeOK
    <2>5. dirty' \in [Threads -> BOOLEAN]
      BY DEF TypeOK
    <2>6. /\ tomb' \in [there : BOOLEAN, q : BOOLEAN, g : BOOLEAN, resolved : BOOLEAN,
             sweeps : 0 .. MaxSweeps]
          /\ jobs' \in [Jobs -> [status : {"none", "pending", "running", "done", "dead"},
             tries : 0 .. MaxTries + 1]]
      BY DEF TypeOK, Budgets
    <2>7. /\ step' \in [Procs -> ThreadSteps \cup DeleteSteps \cup JobSteps \cup {"idle"}]
          /\ \A i \in Handlers : step'[i] \in JobSteps \cup {"idle"}
          /\ \A i \in Threads : step'[i] \in ThreadSteps \cup DeleteSteps \cup {"idle"}
          /\ step'[Sweeper] \in SweepSteps \cup {"idle"}
          /\ job' \in [Handlers -> 0 .. MaxJobs]
          /\ \A i \in Handlers : step'[i] # "idle" => job'[i] \in Jobs
          /\ due' \in [Procs -> SUBSET {"transcript", "start", "store"}]
      BY DEF TypeOK
    <2> QED
      BY <2>1, <2>2, <2>3, <2>4, <2>5, <2>6, <2>7 DEF TypeOK
  <1>2. Budgets'
    BY DEF TypeOK, Budgets
  <1>3. Owed'
    BY DEF TypeOK, Owed, Armed
  <1>4. NoLateWriter'
    BY DEF TypeOK, NoLateWriter, Owed
  <1>5. Armed'
    BY DEF TypeOK, Armed
  <1>6. TombstoneIsTrue'
    BY DEF TypeOK, TombstoneIsTrue, Owed, Armed, Erasing
  <1>7. Erasing'
    BY DEF TypeOK, Erasing, TombstoneIsTrue, Owed, Armed
  <1>8. Copied'
    BY DEF TypeOK, Copied, Armed
  <1>9. Cleared'
    <2>1. /\ \A i \in Threads : step'[i] \in DeleteSteps => step'[i] = step[i]
         /\ points' \subseteq points /\ UNCHANGED <<rows, node, res, dirty>>
      BY DEF TypeOK
    <2> QED
      BY <2>1 DEF Cleared
  <1> QED
    BY <1>1, <1>2, <1>3, <1>4, <1>5, <1>6, <1>7, <1>8, <1>9 DEF IInv

\* DropRow preserves the inductive invariant.
LEMMA DropRowInv ==
  ASSUME IInv, NEW t \in Threads, DropRow(t) PROVE IInv'
  <1> USE DEF IInv, stores, queue, counts, history, At, DropRow, Goto
  <1>1. TypeOK'
    <2>1. /\ rows' \subseteq AllRows /\ points' \subseteq Points /\ node' \in BOOLEAN
          /\ fired' \in BOOLEAN /\ stray' \in BOOLEAN /\ spoilt' \in BOOLEAN
          /\ res' \in [Purgers -> [ses : BOOLEAN, pg : BOOLEAN, q : BOOLEAN, g : BOOLEAN]]
          /\ calls' \in 0 .. MaxCalls /\ faults' \in 0 .. MaxFaults
          /\ dirty' \in [Threads -> BOOLEAN]
      BY DEF TypeOK
    <2>2. /\ tomb' \in [there : BOOLEAN, q : BOOLEAN, g : BOOLEAN, resolved : BOOLEAN,
             sweeps : 0 .. MaxSweeps]
          /\ jobs' \in [Jobs -> [status : {"none", "pending", "running", "done", "dead"},
             tries : 0 .. MaxTries + 1]]
      BY DEF TypeOK, Budgets
    <2>3. /\ step' \in [Procs -> ThreadSteps \cup DeleteSteps \cup JobSteps \cup {"idle"}]
          /\ \A i \in Handlers : step'[i] \in JobSteps \cup {"idle"}
          /\ \A i \in Threads : step'[i] \in ThreadSteps \cup DeleteSteps \cup {"idle"}
          /\ step'[Sweeper] \in SweepSteps \cup {"idle"}
          /\ job' \in [Handlers -> 0 .. MaxJobs]
          /\ \A i \in Handlers : step'[i] # "idle" => job'[i] \in Jobs
          /\ due' \in [Procs -> SUBSET {"transcript", "start", "store"}]
      BY DEF TypeOK
    <2> QED
      BY <2>1, <2>2, <2>3 DEF TypeOK
  <1>2. Budgets'
    BY DEF TypeOK, Budgets
  <1>3. Owed'
    BY DEF TypeOK, Owed, Armed
  <1>4. NoLateWriter'
    BY DEF TypeOK, NoLateWriter, Owed
  <1>5. Armed'
    BY DEF TypeOK, Armed
  <1>6. TombstoneIsTrue'
    BY DEF TypeOK, TombstoneIsTrue, Owed, Armed, Erasing
  <1>7. Erasing'
    BY DEF TypeOK, Erasing, TombstoneIsTrue, Owed, Armed
  <1>8. Copied'
    BY DEF TypeOK, Copied, Armed
  <1>9. Cleared'
    BY DEF TypeOK, Cleared, Copied, Armed
  <1> QED
    BY <1>1, <1>2, <1>3, <1>4, <1>5, <1>6, <1>7, <1>8, <1>9 DEF IInv

-----------------------------------------------------------------------------
(* The delete and the sweeper. *)

\* RequestDelete preserves the inductive invariant.
LEMMA RequestDeleteInv ==
  ASSUME IInv, NEW t \in Threads, RequestDelete(t) PROVE IInv'
  <1> USE DEF IInv, stores, queue, counts, history, At, RequestDelete, Goto
  <1>1. TypeOK'
    <2>1. /\ rows' \subseteq AllRows /\ points' \subseteq Points /\ node' \in BOOLEAN
          /\ fired' \in BOOLEAN /\ stray' \in BOOLEAN /\ spoilt' \in BOOLEAN
          /\ res' \in [Purgers -> [ses : BOOLEAN, pg : BOOLEAN, q : BOOLEAN, g : BOOLEAN]]
          /\ calls' \in 0 .. MaxCalls /\ faults' \in 0 .. MaxFaults
          /\ dirty' \in [Threads -> BOOLEAN]
      BY DEF TypeOK
    <2>2. /\ tomb' \in [there : BOOLEAN, q : BOOLEAN, g : BOOLEAN, resolved : BOOLEAN,
             sweeps : 0 .. MaxSweeps]
          /\ jobs' \in [Jobs -> [status : {"none", "pending", "running", "done", "dead"},
             tries : 0 .. MaxTries + 1]]
      BY DEF TypeOK, Budgets
    <2>3. /\ step' \in [Procs -> ThreadSteps \cup DeleteSteps \cup JobSteps \cup {"idle"}]
          /\ \A i \in Handlers : step'[i] \in JobSteps \cup {"idle"}
          /\ \A i \in Threads : step'[i] \in ThreadSteps \cup DeleteSteps \cup {"idle"}
          /\ step'[Sweeper] \in SweepSteps \cup {"idle"}
          /\ job' \in [Handlers -> 0 .. MaxJobs]
          /\ \A i \in Handlers : step'[i] # "idle" => job'[i] \in Jobs
          /\ due' \in [Procs -> SUBSET {"transcript", "start", "store"}]
      BY DEF TypeOK
    <2> QED
      BY <2>1, <2>2, <2>3 DEF TypeOK
  <1>2. Budgets'
    BY DEF TypeOK, Budgets
  <1>3. Owed'
    BY DEF TypeOK, Owed, Armed
  <1>4. NoLateWriter'
    BY DEF TypeOK, NoLateWriter, Owed
  <1>5. Armed'
    BY DEF TypeOK, Armed
  <1>6. TombstoneIsTrue'
    BY DEF TypeOK, TombstoneIsTrue, Owed, Armed, Erasing
  <1>7. Erasing'
    BY DEF TypeOK, Erasing, TombstoneIsTrue, Owed, Armed
  <1>8. Copied'
    BY DEF TypeOK, Copied, Armed
  <1>9. Cleared'
    BY DEF TypeOK, Cleared, Copied, Armed
  <1> QED
    BY <1>1, <1>2, <1>3, <1>4, <1>5, <1>6, <1>7, <1>8, <1>9 DEF IInv

\* Look preserves the inductive invariant.
LEMMA LookInv ==
  ASSUME IInv, NEW t \in Threads, Look(t) PROVE IInv'
  <1> USE DEF IInv, stores, queue, counts, history, At, Look, Goto
  <1>a. /\ res' \in [Purgers -> Results]
        /\ res'[t].ses <=> "session" \in rows
        /\ res'[t].pg = res[t].pg /\ res'[t].q = res[t].q /\ res'[t].g = res[t].g
        /\ \A u \in Purgers : u # t => res'[u] = res[u]
    <2> DEFINE b == "session" \in rows
    <2>1. b \in BOOLEAN
      OBVIOUS
    <2>2. res' = [res EXCEPT ![t].ses = b]
      OBVIOUS
    <2>3. res \in [Purgers -> Results] /\ t \in Purgers
      BY DEF TypeOK, Results
    <2> HIDE DEF b
    <2>4. [res[t] EXCEPT !.ses = b] \in Results
      BY <2>1, <2>3, ResultUpdate
    <2>5. res' = [res EXCEPT ![t] = [res[t] EXCEPT !.ses = b]]
      BY <2>2
    <2>6. /\ res' \in [Purgers -> Results]
          /\ res'[t] = [res[t] EXCEPT !.ses = b]
          /\ \A u \in Purgers : u # t => res'[u] = res[u]
      BY <2>3, <2>4, <2>5
    <2>7. res'[t].ses = b /\ res'[t].pg = res[t].pg /\ res'[t].q = res[t].q /\ res'[t].g = res[t].g
      BY <2>3, <2>6 DEF Results
    <2> QED
      BY <2>6, <2>7 DEF b
  <1>1. TypeOK'
    <2>1. /\ rows' \subseteq AllRows /\ points' \subseteq Points /\ node' \in BOOLEAN
          /\ fired' \in BOOLEAN /\ stray' \in BOOLEAN /\ spoilt' \in BOOLEAN
          /\ calls' \in 0 .. MaxCalls /\ faults' \in 0 .. MaxFaults
          /\ dirty' \in [Threads -> BOOLEAN]
      BY DEF TypeOK
    <2>2. res' \in [Purgers -> [ses : BOOLEAN, pg : BOOLEAN, q : BOOLEAN, g : BOOLEAN]]
      BY <1>a DEF Results
    <2>3. /\ tomb' \in [there : BOOLEAN, q : BOOLEAN, g : BOOLEAN, resolved : BOOLEAN,
             sweeps : 0 .. MaxSweeps]
          /\ jobs' \in [Jobs -> [status : {"none", "pending", "running", "done", "dead"},
             tries : 0 .. MaxTries + 1]]
      BY DEF TypeOK, Budgets
    <2>4. /\ step' \in [Procs -> ThreadSteps \cup DeleteSteps \cup JobSteps \cup {"idle"}]
          /\ \A i \in Handlers : step'[i] \in JobSteps \cup {"idle"}
          /\ \A i \in Threads : step'[i] \in ThreadSteps \cup DeleteSteps \cup {"idle"}
          /\ step'[Sweeper] \in SweepSteps \cup {"idle"}
          /\ job' \in [Handlers -> 0 .. MaxJobs]
          /\ \A i \in Handlers : step'[i] # "idle" => job'[i] \in Jobs
          /\ due' \in [Procs -> SUBSET {"transcript", "start", "store"}]
      BY DEF TypeOK
    <2> QED
      BY <2>1, <2>2, <2>3, <2>4 DEF TypeOK
  <1>2. Budgets'
    BY DEF TypeOK, Budgets
  <1>3. Owed'
    BY DEF TypeOK, Owed, Armed
  <1>4. NoLateWriter'
    BY DEF TypeOK, NoLateWriter, Owed
  <1>5. Armed'
    BY <1>a DEF TypeOK, Armed
  <1>6. TombstoneIsTrue'
    BY DEF TypeOK, TombstoneIsTrue, Owed, Armed, Erasing
  <1>7. Erasing'
    BY DEF TypeOK, Erasing, TombstoneIsTrue, Owed, Armed
  <1>8. Copied'
    BY DEF TypeOK, Copied, Armed
  <1>9. Cleared'
    BY <1>a DEF TypeOK, Cleared, Armed
  <1> QED
    BY <1>1, <1>2, <1>3, <1>4, <1>5, <1>6, <1>7, <1>8, <1>9 DEF IInv

\* Arm preserves the inductive invariant.
LEMMA ArmInv ==
  ASSUME IInv, NEW t \in Threads, Arm(t) PROVE IInv'
  <1> USE DEF IInv, stores, queue, counts, history, At, Arm, Goto, Raises, Works, Erasable, WebRows, Purges, ChecksAhead
  <1> DEFINE Done == /\ res' = [res EXCEPT ![t].pg = TRUE]
                     /\ rows' = rows \ Erasable(res[t])
                     /\ tomb' = [tomb EXCEPT !.there = @ \/ res[t].ses]
                     /\ step' = [step EXCEPT ![t] = "cancel"]
             Failed == Goto(t, "reply") /\ UNCHANGED <<rows, tomb, res>>
  <1>a. Done \/ Failed
    OBVIOUS
  <1>b. ASSUME Done
        PROVE  /\ tomb' \in Tombs /\ tomb'.there /\ tomb'.q = tomb.q /\ tomb'.g = tomb.g
               /\ tomb'.sweeps = tomb.sweeps /\ tomb'.resolved = tomb.resolved
    <2> DEFINE b == tomb.there \/ res[t].ses
    <2>1. tomb \in Tombs /\ b /\ b \in BOOLEAN
      BY DEF TypeOK, Tombs, Armed
    <2>2. tomb' = [tomb EXCEPT !.there = b]
      BY <1>b
    <2> HIDE DEF b
    <2> QED
      BY <2>1, <2>2 DEF Tombs
  <1>c. ASSUME Done
        PROVE  /\ res' \in [Purgers -> Results]
               /\ res'[t].ses = res[t].ses /\ res'[t].q = res[t].q /\ res'[t].g = res[t].g
               /\ \A u \in Purgers : u # t => res'[u] = res[u]
    <2>1. res \in [Purgers -> Results] /\ t \in Purgers
      BY DEF TypeOK, Results
    <2>2. [res[t] EXCEPT !.pg = TRUE] \in Results
      BY <2>1, ResultUpdate
    <2>3. res' = [res EXCEPT ![t] = [res[t] EXCEPT !.pg = TRUE]]
      BY <1>c
    <2>4. /\ res' \in [Purgers -> Results]
          /\ res'[t] = [res[t] EXCEPT !.pg = TRUE]
          /\ \A u \in Purgers : u # t => res'[u] = res[u]
      BY <2>1, <2>2, <2>3
    <2> QED
      BY <2>1, <2>4 DEF Results
  <1>d. ASSUME Done
        PROVE  /\ step'[t] = "cancel"
               /\ \A p \in Procs : p # t => step'[p] = step[p]
    BY <1>d DEF TypeOK
  <1>e. ASSUME Done
        PROVE  /\ rows' \subseteq rows /\ "shared" \in rows' => "session" \in rows'
               /\ res[t].ses => rows' \subseteq {"facts"}
               /\ "session" \notin rows => rows' \subseteq {"facts"}
    BY <1>e DEF TypeOK, Copied
  <1>f. due' \in [Procs -> SUBSET {"transcript", "start", "store"}]
    <2>1. CASE Goto(t, "cancel") \/ Goto(t, "reply")
      BY <2>1 DEF TypeOK
    <2>2. CASE Purges(t, "cancel") /\ tomb.there
      BY <2>2 DEF TypeOK
    <2>3. CASE Purges(t, "cancel") /\ ~tomb.there
      BY <2>3
    <2> QED
      BY <2>1, <2>2, <2>3
  <1>g. Failed => /\ step'[t] = "reply"
                  /\ \A p \in Procs : p # t => step'[p] = step[p]
    BY DEF TypeOK
  <1>h. t # Sweeper /\ t \notin Handlers /\ t \in Purgers /\ t \in Procs /\ Sweeper \in Purgers
    OBVIOUS
  <1>1. TypeOK'
    <2>1. /\ rows' \subseteq AllRows /\ points' \subseteq Points /\ node' \in BOOLEAN
          /\ fired' \in BOOLEAN /\ stray' \in BOOLEAN /\ spoilt' \in BOOLEAN
          /\ calls' \in 0 .. MaxCalls /\ faults' \in 0 .. MaxFaults
          /\ dirty' \in [Threads -> BOOLEAN]
      BY DEF TypeOK
    <2>2. res' \in [Purgers -> [ses : BOOLEAN, pg : BOOLEAN, q : BOOLEAN, g : BOOLEAN]]
      <3>1. CASE Done
        BY <3>1, <1>c DEF Results
      <3>2. CASE Failed
        BY <3>2 DEF TypeOK
      <3> QED
        BY <1>a, <3>1, <3>2
    <2>3. jobs' \in [Jobs -> [status : {"none", "pending", "running", "done", "dead"},
                            tries : 0 .. MaxTries + 1]]
      BY DEF TypeOK, Budgets
    <2>4. tomb' \in [there : BOOLEAN, q : BOOLEAN, g : BOOLEAN, resolved : BOOLEAN,
                   sweeps : 0 .. MaxSweeps]
      <3>1. CASE Done
        BY <1>b, <3>1 DEF Tombs
      <3>2. CASE Failed
        BY <3>2 DEF TypeOK
      <3> QED
        BY <1>a, <3>1, <3>2
    <2>5. step' \in [Procs -> ThreadSteps \cup DeleteSteps \cup JobSteps \cup {"idle"}]
      BY DEF TypeOK
    <2>6. /\ \A i \in Handlers : step'[i] \in JobSteps \cup {"idle"}
          /\ \A i \in Threads : step'[i] \in ThreadSteps \cup DeleteSteps \cup {"idle"}
          /\ step'[Sweeper] \in SweepSteps \cup {"idle"}
      BY <1>a, <1>d, <1>g, <1>h DEF TypeOK
    <2>7. /\ job' \in [Handlers -> 0 .. MaxJobs]
          /\ \A i \in Handlers : step'[i] # "idle" => job'[i] \in Jobs
      BY DEF TypeOK
    <2>8. due' \in [Procs -> SUBSET {"transcript", "start", "store"}]
      BY <1>f
    <2> QED
      BY <2>1, <2>2, <2>3, <2>4, <2>5, <2>6, <2>7, <2>8 DEF TypeOK
  <1>2. Budgets'
    <2>1. step'[Sweeper] = step[Sweeper] /\ tomb'.sweeps = tomb.sweeps
      BY <1>a, <1>b, <1>d, <1>g, <1>h
    <2> QED
      BY <2>1 DEF Budgets
  <1>3. Owed'
    BY DEF TypeOK, Owed, Armed
  <1>4. NoLateWriter'
    <2>1. CASE Goto(t, "cancel") \/ Goto(t, "reply")
      BY <2>1, HarmlessGoto
    <2>2. CASE Purges(t, "cancel")
      BY <2>2, PurgeOwes
    <2> QED
      BY <2>1, <2>2
  <1>5. Armed'
    <2>1. CASE Done
      <3>1. tomb'.there
        BY <2>1, <1>b
      <3>2. \A u \in Threads : step'[u] \notin DeleteSteps => res'[u] = NoResult
        BY <2>1, <1>c, <1>d, <1>h DEF Armed
      <3> QED
        BY <3>1, <3>2 DEF Armed
    <2>2. CASE Failed
      BY <2>2, <1>g, <1>h DEF TypeOK, Armed
    <2> QED
      BY <1>a, <2>1, <2>2
  <1>6. TombstoneIsTrue'
    <2>1. CASE Done
      BY <2>1, <1>b, <1>c, <1>d, <1>e, <1>h DEF TypeOK, TombstoneIsTrue, Owed, Armed
    <2>2. CASE Failed
      BY <2>2, <1>g, <1>h DEF TypeOK, TombstoneIsTrue, Owed, Armed
    <2> QED
      BY <1>a, <2>1, <2>2
  <1>7. Erasing'
    <2>1. CASE Done
      BY <2>1, <1>b, <1>c, <1>d, <1>e, <1>h DEF TypeOK, Erasing, Owed, Armed
    <2>2. CASE Failed
      BY <2>2, <1>g, <1>h DEF TypeOK, Erasing, Owed, Armed
    <2> QED
      BY <1>a, <2>1, <2>2
  <1>8. Copied'
    <2>1. CASE Done
      BY <2>1, <1>b, <1>c, <1>d, <1>e, <1>h DEF TypeOK, Copied
    <2>2. CASE Failed
      BY <2>2, <1>g, <1>h DEF TypeOK, Copied
    <2> QED
      BY <1>a, <2>1, <2>2
  <1>9. Cleared'
    <2>1. CASE Done
      BY <2>1, <1>b, <1>c, <1>d, <1>e, <1>h DEF TypeOK, Cleared, Armed
    <2>2. CASE Failed
      BY <2>2, <1>g, <1>h DEF TypeOK, Cleared, Armed
    <2> QED
      BY <1>a, <2>1, <2>2
  <1> QED
    BY <1>1, <1>2, <1>3, <1>4, <1>5, <1>6, <1>7, <1>8, <1>9 DEF IInv

\* Cancel preserves the inductive invariant.
LEMMA CancelInv ==
  ASSUME IInv, NEW t \in Threads, Cancel(t) PROVE IInv'
  <1> USE DEF IInv, stores, queue, counts, history, At, Cancel, Goto, Raises, Works, Forget
  <1>g. PICK s \in {"qdrant", "idle"} : Goto(t, s)
    OBVIOUS
  <1>h. /\ step' \in [Procs -> ThreadSteps \cup DeleteSteps \cup JobSteps \cup {"idle"}]
        /\ \A i \in Handlers : step'[i] \in JobSteps \cup {"idle"}
        /\ \A i \in Threads : step'[i] \in ThreadSteps \cup DeleteSteps \cup {"idle"}
        /\ step'[Sweeper] \in SweepSteps \cup {"idle"}
        /\ due' \in [Procs -> SUBSET {"transcript", "start", "store"}]
        /\ step'[Sweeper] = step[Sweeper]
        /\ step'[t] = s /\ \A i \in Procs : i # t => step'[i] = step[i]
    BY <1>g, ThreadGoes, Zenon
  <1>1. TypeOK'
    <2>1. rows' \subseteq AllRows /\ points' \subseteq Points /\ node' \in BOOLEAN
      BY DEF TypeOK
    <2>2. fired' \in BOOLEAN /\ stray' \in BOOLEAN /\ spoilt' \in BOOLEAN
      BY DEF TypeOK
    <2>3. res' \in [Purgers -> [ses : BOOLEAN, pg : BOOLEAN, q : BOOLEAN, g : BOOLEAN]]
      <3>1. CASE res' = [res EXCEPT ![t] = NoResult]
        BY <3>1 DEF TypeOK
      <3>2. CASE res' = res
        BY <3>2 DEF TypeOK
      <3> QED
        BY <3>1, <3>2
    <2>4. calls' \in 0 .. MaxCalls /\ faults' \in 0 .. MaxFaults
      BY DEF TypeOK
    <2>5. dirty' \in [Threads -> BOOLEAN]
      BY DEF TypeOK
    <2>6. /\ tomb' \in [there : BOOLEAN, q : BOOLEAN, g : BOOLEAN, resolved : BOOLEAN,
             sweeps : 0 .. MaxSweeps]
          /\ jobs' \in [Jobs -> [status : {"none", "pending", "running", "done", "dead"},
             tries : 0 .. MaxTries + 1]]
      BY DEF TypeOK, Budgets
    <2>7. step' \in [Procs -> ThreadSteps \cup DeleteSteps \cup JobSteps \cup {"idle"}]
      BY <1>h
    <2>8. /\ \A i \in Handlers : step'[i] \in JobSteps \cup {"idle"}
          /\ \A i \in Threads : step'[i] \in ThreadSteps \cup DeleteSteps \cup {"idle"}
          /\ step'[Sweeper] \in SweepSteps \cup {"idle"}
      BY <1>h
    <2>9. /\ job' \in [Handlers -> 0 .. MaxJobs]
          /\ \A i \in Handlers : step'[i] # "idle" => job'[i] \in Jobs
      BY DEF TypeOK
    <2>10. due' \in [Procs -> SUBSET {"transcript", "start", "store"}]
      BY <1>h
    <2> QED
      BY <2>1, <2>2, <2>3, <2>4, <2>5, <2>6, <2>7, <2>8, <2>9, <2>10 DEF TypeOK
  <1>2. Budgets'
    <2>1. \A j \in Jobs : jobs'[j] = jobs[j] \/ jobs'[j].status = "dead"
      BY DEF TypeOK
    <2>2. step'[Sweeper] = step[Sweeper] /\ tomb' = tomb
      BY <1>h
    <2> QED
      BY <2>1, <2>2 DEF Budgets
  <1>3. Owed'
    BY <1>g, OwedGoes
  <1>4. NoLateWriter'
    BY <1>g, HarmlessGoto
  <1>5. Armed'
    <2>1. CASE step'[t] = "qdrant" /\ UNCHANGED res
      BY <2>1, <1>h DEF TypeOK, Armed
    <2>2. CASE step'[t] = "idle" /\ res' = [res EXCEPT ![t] = NoResult]
      BY <2>2, <1>h DEF TypeOK, Armed
    <2> QED
      BY <2>1, <2>2, <1>h
  <1>6. TombstoneIsTrue'
    BY DEF TypeOK, TombstoneIsTrue, Owed, Armed, Erasing
  <1>7. Erasing'
    <2>1. CASE res' = [res EXCEPT ![t] = NoResult]
      BY <2>1 DEF TypeOK, Erasing
    <2>2. CASE res' = res
      BY <2>2 DEF TypeOK, Erasing
    <2> QED
      BY <2>1, <2>2
  <1>8. Copied'
    BY DEF TypeOK, Copied, Armed
  <1>9. Cleared'
    <2>1. CASE Goto(t, "qdrant") /\ UNCHANGED <<res, dirty>>
      BY <2>1 DEF TypeOK, Cleared
    <2>2. CASE Goto(t, "idle") /\ Forget(t)
      BY <2>2 DEF TypeOK, Cleared
    <2> QED
      BY <2>1, <2>2
  <1> QED
    BY <1>1, <1>2, <1>3, <1>4, <1>5, <1>6, <1>7, <1>8, <1>9 DEF IInv

\* QdrantArm preserves the inductive invariant.
LEMMA QdrantArmInv ==
  ASSUME IInv, NEW p \in Purgers, QdrantArm(p) PROVE IInv'
  <1> USE DEF IInv, stores, queue, counts, history, At, QdrantArm, Goto, Raises, Works, QdrantSkips
  <1>a. /\ step'[p] = "graph" /\ p \notin Handlers
        /\ \A i \in Procs : i # p => step'[i] = step[i]
    BY DEF TypeOK
  <1>1. TypeOK'
    <2>1. rows' \subseteq AllRows /\ points' \subseteq Points /\ node' \in BOOLEAN
      BY DEF TypeOK
    <2>2. fired' \in BOOLEAN /\ stray' \in BOOLEAN /\ spoilt' \in BOOLEAN
      BY DEF TypeOK
    <2>3. res' \in [Purgers -> [ses : BOOLEAN, pg : BOOLEAN, q : BOOLEAN, g : BOOLEAN]]
      <3>1. CASE res' = [res EXCEPT ![p].q = TRUE]
        <4>0. res[p] \in Results
          BY DEF TypeOK, Results
        <4>1. [res[p] EXCEPT !.q = TRUE] \in Results
          BY <4>0, ResultUpdate
        <4>2. res' = [res EXCEPT ![p] = [res[p] EXCEPT !.q = TRUE]]
          BY <3>1
        <4> QED
          BY <4>1, <4>2 DEF TypeOK, Results
      <3>2. CASE res' = res
        BY <3>2 DEF TypeOK
      <3> QED
        BY <3>1, <3>2
    <2>4. calls' \in 0 .. MaxCalls /\ faults' \in 0 .. MaxFaults
      BY DEF TypeOK
    <2>5. dirty' \in [Threads -> BOOLEAN]
      BY DEF TypeOK
    <2>6. /\ tomb' \in [there : BOOLEAN, q : BOOLEAN, g : BOOLEAN, resolved : BOOLEAN,
             sweeps : 0 .. MaxSweeps]
          /\ jobs' \in [Jobs -> [status : {"none", "pending", "running", "done", "dead"},
             tries : 0 .. MaxTries + 1]]
      BY DEF TypeOK, Budgets
    <2>7. /\ step' \in [Procs -> ThreadSteps \cup DeleteSteps \cup JobSteps \cup {"idle"}]
          /\ \A i \in Handlers : step'[i] \in JobSteps \cup {"idle"}
          /\ \A i \in Threads : step'[i] \in ThreadSteps \cup DeleteSteps \cup {"idle"}
          /\ step'[Sweeper] \in SweepSteps \cup {"idle"}
          /\ job' \in [Handlers -> 0 .. MaxJobs]
          /\ \A i \in Handlers : step'[i] # "idle" => job'[i] \in Jobs
          /\ due' \in [Procs -> SUBSET {"transcript", "start", "store"}]
      BY DEF TypeOK
    <2> QED
      BY <2>1, <2>2, <2>3, <2>4, <2>5, <2>6, <2>7 DEF TypeOK
  <1>2. Budgets'
    BY DEF TypeOK, Budgets
  <1>3. Owed'
    BY DEF TypeOK, Owed, Armed
  <1>4. NoLateWriter'
    BY DEF TypeOK, NoLateWriter, Owed
  <1>5. Armed'
    <2>1. CASE res' = [res EXCEPT ![p].q = TRUE]
      BY <2>1, <1>a DEF TypeOK, Armed
    <2>2. CASE res' = res
      BY <2>2, <1>a DEF TypeOK, Armed
    <2> QED
      BY <2>1, <2>2
  <1>6. TombstoneIsTrue'
    BY DEF TypeOK, TombstoneIsTrue, Owed, Armed, Erasing
  <1>7. Erasing'
    <2>1. CASE res' = [res EXCEPT ![p].q = TRUE] /\ points' = {}
      BY <2>1 DEF TypeOK, Erasing, Armed
    <2>2. CASE res' = res /\ points' \subseteq points
      BY <2>2 DEF TypeOK, Erasing, Armed
    <2> QED
      BY <2>1, <2>2
  <1>8. Copied'
    BY DEF TypeOK, Copied, Armed
  <1>9. Cleared'
    <2>1. CASE res' = [res EXCEPT ![p].q = TRUE] /\ points' = {}
      BY <2>1 DEF TypeOK, Cleared, Armed
    <2>2. CASE res' = res /\ points' \subseteq points
      BY <2>2 DEF TypeOK, Cleared, Armed
    <2> QED
      BY <2>1, <2>2
  <1> QED
    BY <1>1, <1>2, <1>3, <1>4, <1>5, <1>6, <1>7, <1>8, <1>9 DEF IInv

\* GraphArm preserves the inductive invariant.
LEMMA GraphArmInv ==
  ASSUME IInv, NEW p \in Purgers, GraphArm(p) PROVE IInv'
  <1> USE DEF IInv, stores, queue, counts, history, At, GraphArm, Goto, Raises, Works, GraphSkips
  <1>a. /\ step'[p] = "mark" /\ p \notin Handlers
        /\ \A i \in Procs : i # p => step'[i] = step[i]
    BY DEF TypeOK
  <1>1. TypeOK'
    <2>1. rows' \subseteq AllRows /\ points' \subseteq Points /\ node' \in BOOLEAN
      BY DEF TypeOK
    <2>2. fired' \in BOOLEAN /\ stray' \in BOOLEAN /\ spoilt' \in BOOLEAN
      BY DEF TypeOK
    <2>3. res' \in [Purgers -> [ses : BOOLEAN, pg : BOOLEAN, q : BOOLEAN, g : BOOLEAN]]
      <3>1. CASE res' = [res EXCEPT ![p].g = TRUE]
        <4>0. res[p] \in Results
          BY DEF TypeOK, Results
        <4>1. [res[p] EXCEPT !.g = TRUE] \in Results
          BY <4>0, ResultUpdate
        <4>2. res' = [res EXCEPT ![p] = [res[p] EXCEPT !.g = TRUE]]
          BY <3>1
        <4> QED
          BY <4>1, <4>2 DEF TypeOK, Results
      <3>2. CASE res' = res
        BY <3>2 DEF TypeOK
      <3> QED
        BY <3>1, <3>2
    <2>4. calls' \in 0 .. MaxCalls /\ faults' \in 0 .. MaxFaults
      BY DEF TypeOK
    <2>5. dirty' \in [Threads -> BOOLEAN]
      BY DEF TypeOK
    <2>6. /\ tomb' \in [there : BOOLEAN, q : BOOLEAN, g : BOOLEAN, resolved : BOOLEAN,
             sweeps : 0 .. MaxSweeps]
          /\ jobs' \in [Jobs -> [status : {"none", "pending", "running", "done", "dead"},
             tries : 0 .. MaxTries + 1]]
      BY DEF TypeOK, Budgets
    <2>7. /\ step' \in [Procs -> ThreadSteps \cup DeleteSteps \cup JobSteps \cup {"idle"}]
          /\ \A i \in Handlers : step'[i] \in JobSteps \cup {"idle"}
          /\ \A i \in Threads : step'[i] \in ThreadSteps \cup DeleteSteps \cup {"idle"}
          /\ step'[Sweeper] \in SweepSteps \cup {"idle"}
          /\ job' \in [Handlers -> 0 .. MaxJobs]
          /\ \A i \in Handlers : step'[i] # "idle" => job'[i] \in Jobs
          /\ due' \in [Procs -> SUBSET {"transcript", "start", "store"}]
      BY DEF TypeOK
    <2> QED
      BY <2>1, <2>2, <2>3, <2>4, <2>5, <2>6, <2>7 DEF TypeOK
  <1>2. Budgets'
    BY DEF TypeOK, Budgets
  <1>3. Owed'
    BY DEF TypeOK, Owed, Armed
  <1>4. NoLateWriter'
    BY DEF TypeOK, NoLateWriter, Owed
  <1>5. Armed'
    <2>1. CASE res' = [res EXCEPT ![p].g = TRUE]
      BY <2>1, <1>a DEF TypeOK, Armed
    <2>2. CASE res' = res
      BY <2>2, <1>a DEF TypeOK, Armed
    <2> QED
      BY <2>1, <2>2
  <1>6. TombstoneIsTrue'
    BY DEF TypeOK, TombstoneIsTrue, Owed, Armed, Erasing
  <1>7. Erasing'
    <2>1. CASE res' = [res EXCEPT ![p].g = TRUE] /\ node' = FALSE
      BY <2>1 DEF TypeOK, Erasing, Armed
    <2>2. CASE res' = res /\ node' = node
      BY <2>2 DEF TypeOK, Erasing, Armed
    <2> QED
      BY <2>1, <2>2
  <1>8. Copied'
    BY DEF TypeOK, Copied, Armed
  <1>9. Cleared'
    <2>1. CASE res' = [res EXCEPT ![p].g = TRUE] /\ node' = FALSE
      BY <2>1 DEF TypeOK, Cleared, Armed
    <2>2. CASE res' = res /\ node' = node
      BY <2>2 DEF TypeOK, Cleared, Armed
    <2> QED
      BY <2>1, <2>2
  <1> QED
    BY <1>1, <1>2, <1>3, <1>4, <1>5, <1>6, <1>7, <1>8, <1>9 DEF IInv

\* Mark preserves the inductive invariant.
LEMMA MarkInv ==
  ASSUME IInv, NEW t \in Threads, Mark(t) PROVE IInv'
  <1> USE DEF IInv, stores, queue, counts, history, At, Mark, Goto, Raises, Works
  <1>a. /\ tomb' \in Tombs /\ tomb'.there = tomb.there /\ tomb'.sweeps = tomb.sweeps
        /\ \/ tomb'.q = res[t].q /\ tomb'.g = res[t].g
           \/ tomb'.q = tomb.q /\ tomb'.g = tomb.g
    <2>1. CASE tomb' = tomb
      BY <2>1 DEF TypeOK, Tombs
    <2>2. CASE tomb' = Marked(res[t])
      BY <2>2, MarkedRow
    <2> QED
      BY <2>1, <2>2
  <1>b. /\ step'[t] = "reply" /\ step'[Sweeper] = step[Sweeper]
        /\ \A i \in Procs : i # t => step'[i] = step[i]
    BY DEF TypeOK
  <1>c. tomb.there
    BY DEF Armed
  <1>1. TypeOK'
    <2>1. /\ rows' \subseteq AllRows /\ points' \subseteq Points /\ node' \in BOOLEAN
          /\ fired' \in BOOLEAN /\ stray' \in BOOLEAN /\ spoilt' \in BOOLEAN
          /\ res' \in [Purgers -> [ses : BOOLEAN, pg : BOOLEAN, q : BOOLEAN, g : BOOLEAN]]
          /\ calls' \in 0 .. MaxCalls /\ faults' \in 0 .. MaxFaults
          /\ dirty' \in [Threads -> BOOLEAN]
      BY DEF TypeOK
    <2>2. jobs' \in [Jobs -> [status : {"none", "pending", "running", "done", "dead"},
                            tries : 0 .. MaxTries + 1]]
      BY DEF TypeOK, Budgets
    <2>3. tomb' \in [there : BOOLEAN, q : BOOLEAN, g : BOOLEAN, resolved : BOOLEAN,
                   sweeps : 0 .. MaxSweeps]
      BY <1>a DEF Tombs
    <2>4. /\ step' \in [Procs -> ThreadSteps \cup DeleteSteps \cup JobSteps \cup {"idle"}]
          /\ \A i \in Handlers : step'[i] \in JobSteps \cup {"idle"}
          /\ \A i \in Threads : step'[i] \in ThreadSteps \cup DeleteSteps \cup {"idle"}
          /\ step'[Sweeper] \in SweepSteps \cup {"idle"}
          /\ job' \in [Handlers -> 0 .. MaxJobs]
          /\ \A i \in Handlers : step'[i] # "idle" => job'[i] \in Jobs
          /\ due' \in [Procs -> SUBSET {"transcript", "start", "store"}]
      BY DEF TypeOK
    <2> QED
      BY <2>1, <2>2, <2>3, <2>4 DEF TypeOK
  <1>2. Budgets'
    BY <1>a, <1>b DEF Budgets
  <1>3. Owed'
    BY <1>a, <1>c DEF Owed
  <1>4. NoLateWriter'
    BY DEF TypeOK, NoLateWriter, Owed
  <1>5. Armed'
    BY <1>a, <1>b, <1>c DEF Armed
  <1>6. TombstoneIsTrue'
    BY <1>a, <1>c DEF TombstoneIsTrue, Erasing
  <1>7. Erasing'
    BY DEF TypeOK, Erasing, TombstoneIsTrue, Owed, Armed
  <1>8. Copied'
    BY DEF TypeOK, Copied, Armed
  <1>9. Cleared'
    BY DEF TypeOK, Cleared, Copied, Armed
  <1> QED
    BY <1>1, <1>2, <1>3, <1>4, <1>5, <1>6, <1>7, <1>8, <1>9 DEF IInv

\* Reply preserves the inductive invariant.
LEMMA ReplyInv ==
  ASSUME IInv, NEW t \in Threads, Reply(t) PROVE IInv'
  <1> USE DEF IInv, stores, queue, counts, history, At, Reply, Goto, Forget
  <1>1. TypeOK'
    <2>1. /\ rows' \subseteq AllRows /\ points' \subseteq Points /\ node' \in BOOLEAN
          /\ fired' \in BOOLEAN /\ stray' \in BOOLEAN /\ spoilt' \in BOOLEAN
          /\ res' \in [Purgers -> [ses : BOOLEAN, pg : BOOLEAN, q : BOOLEAN, g : BOOLEAN]]
          /\ calls' \in 0 .. MaxCalls /\ faults' \in 0 .. MaxFaults
          /\ dirty' \in [Threads -> BOOLEAN]
      BY DEF TypeOK
    <2>2. /\ tomb' \in [there : BOOLEAN, q : BOOLEAN, g : BOOLEAN, resolved : BOOLEAN,
             sweeps : 0 .. MaxSweeps]
          /\ jobs' \in [Jobs -> [status : {"none", "pending", "running", "done", "dead"},
             tries : 0 .. MaxTries + 1]]
      BY DEF TypeOK, Budgets
    <2>3. /\ step' \in [Procs -> ThreadSteps \cup DeleteSteps \cup JobSteps \cup {"idle"}]
          /\ \A i \in Handlers : step'[i] \in JobSteps \cup {"idle"}
          /\ \A i \in Threads : step'[i] \in ThreadSteps \cup DeleteSteps \cup {"idle"}
          /\ step'[Sweeper] \in SweepSteps \cup {"idle"}
          /\ job' \in [Handlers -> 0 .. MaxJobs]
          /\ \A i \in Handlers : step'[i] # "idle" => job'[i] \in Jobs
          /\ due' \in [Procs -> SUBSET {"transcript", "start", "store"}]
      BY DEF TypeOK
    <2> QED
      BY <2>1, <2>2, <2>3 DEF TypeOK
  <1>2. Budgets'
    BY DEF TypeOK, Budgets
  <1>3. Owed'
    BY DEF TypeOK, Owed, Armed
  <1>4. NoLateWriter'
    BY DEF TypeOK, NoLateWriter, Owed
  <1>5. Armed'
    BY DEF TypeOK, Armed
  <1>6. TombstoneIsTrue'
    BY DEF TypeOK, TombstoneIsTrue, Owed, Armed, Erasing
  <1>7. Erasing'
    BY DEF TypeOK, Erasing, TombstoneIsTrue, Owed, Armed
  <1>8. Copied'
    BY DEF TypeOK, Copied, Armed
  <1>9. Cleared'
    BY DEF TypeOK, Cleared, Copied, Armed
  <1> QED
    BY <1>1, <1>2, <1>3, <1>4, <1>5, <1>6, <1>7, <1>8, <1>9 DEF IInv

\* StartSweep preserves the inductive invariant.
LEMMA StartSweepInv ==
  ASSUME IInv, StartSweep PROVE IInv'
  <1> USE DEF IInv, stores, queue, counts, history, At, StartSweep, Goto, SweepReach
  <1>1. TypeOK'
    <2>1. /\ rows' \subseteq AllRows /\ points' \subseteq Points /\ node' \in BOOLEAN
          /\ fired' \in BOOLEAN /\ stray' \in BOOLEAN /\ spoilt' \in BOOLEAN
          /\ res' \in [Purgers -> [ses : BOOLEAN, pg : BOOLEAN, q : BOOLEAN, g : BOOLEAN]]
          /\ calls' \in 0 .. MaxCalls /\ faults' \in 0 .. MaxFaults
          /\ dirty' \in [Threads -> BOOLEAN]
      BY DEF TypeOK
    <2>2. /\ tomb' \in [there : BOOLEAN, q : BOOLEAN, g : BOOLEAN, resolved : BOOLEAN,
             sweeps : 0 .. MaxSweeps]
          /\ jobs' \in [Jobs -> [status : {"none", "pending", "running", "done", "dead"},
             tries : 0 .. MaxTries + 1]]
      BY DEF TypeOK, Budgets
    <2>3. /\ step' \in [Procs -> ThreadSteps \cup DeleteSteps \cup JobSteps \cup {"idle"}]
          /\ \A i \in Handlers : step'[i] \in JobSteps \cup {"idle"}
          /\ \A i \in Threads : step'[i] \in ThreadSteps \cup DeleteSteps \cup {"idle"}
          /\ step'[Sweeper] \in SweepSteps \cup {"idle"}
          /\ job' \in [Handlers -> 0 .. MaxJobs]
          /\ \A i \in Handlers : step'[i] # "idle" => job'[i] \in Jobs
          /\ due' \in [Procs -> SUBSET {"transcript", "start", "store"}]
      BY DEF TypeOK
    <2> QED
      BY <2>1, <2>2, <2>3 DEF TypeOK
  <1>2. Budgets'
    BY DEF TypeOK, Budgets
  <1>3. Owed'
    BY DEF TypeOK, Owed, Armed
  <1>4. NoLateWriter'
    BY DEF TypeOK, NoLateWriter, Owed
  <1>5. Armed'
    BY DEF TypeOK, Armed
  <1>6. TombstoneIsTrue'
    BY DEF TypeOK, TombstoneIsTrue, Owed, Armed, Erasing
  <1>7. Erasing'
    BY DEF TypeOK, Erasing, TombstoneIsTrue, Owed, Armed
  <1>8. Copied'
    BY DEF TypeOK, Copied, Armed
  <1>9. Cleared'
    BY DEF TypeOK, Cleared, Copied, Armed
  <1> QED
    BY <1>1, <1>2, <1>3, <1>4, <1>5, <1>6, <1>7, <1>8, <1>9 DEF IInv

\* EndSweep preserves the inductive invariant.
LEMMA EndSweepInv ==
  ASSUME IInv, EndSweep PROVE IInv'
  <1> USE DEF IInv, stores, queue, counts, history, At, EndSweep, Goto, Raises, Works
  <1>0. tomb.there
    BY DEF Armed
  <1>a. /\ tomb' \in Tombs /\ tomb'.there
        /\ \/ tomb'.q = res[Sweeper].q /\ tomb'.g = res[Sweeper].g
           \/ tomb'.q = tomb.q /\ tomb'.g = tomb.g
    <2>1. CASE tomb' = tomb
      BY <1>0, <2>1 DEF TypeOK, Tombs
    <2>2. CASE tomb' = [Marked(res[Sweeper]) EXCEPT !.sweeps = @ + 1]
      <3> DEFINE M == Marked(res[Sweeper])
                 n == tomb.sweeps + 1
      <3>1. /\ M \in Tombs
            /\ M.there = tomb.there /\ M.q = res[Sweeper].q
            /\ M.g = res[Sweeper].g /\ M.sweeps = tomb.sweeps
        BY MarkedRow
      <3>2. n \in 0 .. MaxSweeps
        BY DEF TypeOK, Budgets
      <3>3. tomb' = [M EXCEPT !.sweeps = n]
        BY <2>2, <3>1
      <3> HIDE DEF M, n
      <3>4. tomb' \in Tombs /\ tomb'.there = M.there /\ tomb'.q = M.q /\ tomb'.g = M.g
        BY <3>1, <3>2, <3>3, SweptRow
      <3> QED
        BY <1>0, <3>1, <3>4
    <2> QED
      BY <2>1, <2>2
  <1>b. /\ step'[Sweeper] = "idle"
        /\ \A i \in Procs : i # Sweeper => step'[i] = step[i]
        /\ res'[Sweeper] = NoResult
        /\ \A u \in Purgers : u # Sweeper => res'[u] = res[u]
    BY DEF TypeOK
  <1>1. TypeOK'
    <2>1. /\ rows' \subseteq AllRows /\ points' \subseteq Points /\ node' \in BOOLEAN
          /\ fired' \in BOOLEAN /\ stray' \in BOOLEAN /\ spoilt' \in BOOLEAN
          /\ res' \in [Purgers -> [ses : BOOLEAN, pg : BOOLEAN, q : BOOLEAN, g : BOOLEAN]]
          /\ calls' \in 0 .. MaxCalls /\ faults' \in 0 .. MaxFaults
          /\ dirty' \in [Threads -> BOOLEAN]
      BY DEF TypeOK
    <2>2. jobs' \in [Jobs -> [status : {"none", "pending", "running", "done", "dead"},
                            tries : 0 .. MaxTries + 1]]
      BY DEF TypeOK, Budgets
    <2>3. tomb' \in [there : BOOLEAN, q : BOOLEAN, g : BOOLEAN, resolved : BOOLEAN,
                   sweeps : 0 .. MaxSweeps]
      BY <1>a DEF Tombs
    <2>4. /\ step' \in [Procs -> ThreadSteps \cup DeleteSteps \cup JobSteps \cup {"idle"}]
          /\ \A i \in Handlers : step'[i] \in JobSteps \cup {"idle"}
          /\ \A i \in Threads : step'[i] \in ThreadSteps \cup DeleteSteps \cup {"idle"}
          /\ step'[Sweeper] \in SweepSteps \cup {"idle"}
          /\ job' \in [Handlers -> 0 .. MaxJobs]
          /\ \A i \in Handlers : step'[i] # "idle" => job'[i] \in Jobs
          /\ due' \in [Procs -> SUBSET {"transcript", "start", "store"}]
      BY DEF TypeOK
    <2> QED
      BY <2>1, <2>2, <2>3, <2>4 DEF TypeOK
  <1>2. Budgets'
    BY DEF TypeOK, Budgets
  <1>3. Owed'
    BY <1>a DEF Owed
  <1>4. NoLateWriter'
    BY DEF TypeOK, NoLateWriter, Owed
  <1>5. Armed'
    BY <1>a, <1>b DEF Armed
  <1>6. TombstoneIsTrue'
    BY <1>0, <1>a DEF TombstoneIsTrue, Erasing
  <1>7. Erasing'
    BY DEF TypeOK, Erasing, TombstoneIsTrue, Owed, Armed
  <1>8. Copied'
    BY DEF TypeOK, Copied, Armed
  <1>9. Cleared'
    BY DEF TypeOK, Cleared, Copied, Armed
  <1> QED
    BY <1>1, <1>2, <1>3, <1>4, <1>5, <1>6, <1>7, <1>8, <1>9 DEF IInv

-----------------------------------------------------------------------------
(* Jobs. *)

\* Enqueue preserves the inductive invariant.
LEMMA EnqueueInv ==
  ASSUME IInv, NEW j \in Jobs, Enqueue(j) PROVE IInv'
  <1> USE DEF IInv, stores, queue, counts, history, At, Enqueue
  <1>1. TypeOK'
    <2>1. /\ rows' \subseteq AllRows /\ points' \subseteq Points /\ node' \in BOOLEAN
          /\ fired' \in BOOLEAN /\ stray' \in BOOLEAN /\ spoilt' \in BOOLEAN
          /\ res' \in [Purgers -> [ses : BOOLEAN, pg : BOOLEAN, q : BOOLEAN, g : BOOLEAN]]
          /\ calls' \in 0 .. MaxCalls /\ faults' \in 0 .. MaxFaults
          /\ dirty' \in [Threads -> BOOLEAN]
      BY DEF TypeOK
    <2>2. /\ tomb' \in [there : BOOLEAN, q : BOOLEAN, g : BOOLEAN, resolved : BOOLEAN,
             sweeps : 0 .. MaxSweeps]
          /\ jobs' \in [Jobs -> [status : {"none", "pending", "running", "done", "dead"},
             tries : 0 .. MaxTries + 1]]
      BY DEF TypeOK, Budgets
    <2>3. /\ step' \in [Procs -> ThreadSteps \cup DeleteSteps \cup JobSteps \cup {"idle"}]
          /\ \A i \in Handlers : step'[i] \in JobSteps \cup {"idle"}
          /\ \A i \in Threads : step'[i] \in ThreadSteps \cup DeleteSteps \cup {"idle"}
          /\ step'[Sweeper] \in SweepSteps \cup {"idle"}
          /\ job' \in [Handlers -> 0 .. MaxJobs]
          /\ \A i \in Handlers : step'[i] # "idle" => job'[i] \in Jobs
          /\ due' \in [Procs -> SUBSET {"transcript", "start", "store"}]
      BY DEF TypeOK
    <2> QED
      BY <2>1, <2>2, <2>3 DEF TypeOK
  <1>2. Budgets'
    BY DEF TypeOK, Budgets
  <1>3. Owed'
    BY DEF TypeOK, Owed, Armed
  <1>4. NoLateWriter'
    BY DEF TypeOK, NoLateWriter, Owed
  <1>5. Armed'
    BY DEF TypeOK, Armed
  <1>6. TombstoneIsTrue'
    BY DEF TypeOK, TombstoneIsTrue, Owed, Armed, Erasing
  <1>7. Erasing'
    BY DEF TypeOK, Erasing, TombstoneIsTrue, Owed, Armed
  <1>8. Copied'
    BY DEF TypeOK, Copied, Armed
  <1>9. Cleared'
    BY DEF TypeOK, Cleared, Copied, Armed
  <1> QED
    BY <1>1, <1>2, <1>3, <1>4, <1>5, <1>6, <1>7, <1>8, <1>9 DEF IInv

\* Claim preserves the inductive invariant.
LEMMA ClaimInv ==
  ASSUME IInv, NEW h \in Handlers, NEW j \in Jobs, Claim(h, j) PROVE IInv'
  <1> USE DEF IInv, stores, queue, counts, history, At, Claim, Begins, ChecksAhead
  <1>1. TypeOK'
    <2>1. /\ rows' \subseteq AllRows /\ points' \subseteq Points /\ node' \in BOOLEAN
          /\ fired' \in BOOLEAN /\ stray' \in BOOLEAN /\ spoilt' \in BOOLEAN
          /\ res' \in [Purgers -> [ses : BOOLEAN, pg : BOOLEAN, q : BOOLEAN, g : BOOLEAN]]
          /\ calls' \in 0 .. MaxCalls /\ faults' \in 0 .. MaxFaults
          /\ dirty' \in [Threads -> BOOLEAN]
      BY DEF TypeOK
    <2>2. tomb' \in [there : BOOLEAN, q : BOOLEAN, g : BOOLEAN, resolved : BOOLEAN,
                   sweeps : 0 .. MaxSweeps]
      BY DEF TypeOK, Budgets
    <2>3. jobs' \in [Jobs -> [status : {"none", "pending", "running", "done", "dead"},
                            tries : 0 .. MaxTries + 1]]
      <3>1. jobs[j] \in [status : {"none", "pending", "running", "done", "dead"},
           tries : 0 .. MaxTries + 1]
        BY DEF TypeOK
      <3>2. [jobs[j] EXCEPT !.status = "running"] \in [status : {"none", "pending", "running", "done", "dead"},
           tries : 0 .. MaxTries + 1]
        BY <3>1
      <3>3. jobs' = [jobs EXCEPT ![j] = [jobs[j] EXCEPT !.status = "running"]]
        OBVIOUS
      <3> QED
        BY <3>2, <3>3 DEF TypeOK
    <2>4. /\ step' \in [Procs -> ThreadSteps \cup DeleteSteps \cup JobSteps \cup {"idle"}]
          /\ \A i \in Handlers : step'[i] \in JobSteps \cup {"idle"}
          /\ \A i \in Threads : step'[i] \in ThreadSteps \cup DeleteSteps \cup {"idle"}
          /\ step'[Sweeper] \in SweepSteps \cup {"idle"}
          /\ job' \in [Handlers -> 0 .. MaxJobs]
          /\ \A i \in Handlers : step'[i] # "idle" => job'[i] \in Jobs
          /\ due' \in [Procs -> SUBSET {"transcript", "start", "store"}]
      BY DEF TypeOK
    <2> QED
      BY <2>1, <2>2, <2>3, <2>4 DEF TypeOK
  <1>2. Budgets'
    BY DEF TypeOK, Budgets
  <1>3. Owed'
    BY DEF TypeOK, Owed, Armed
  <1>4. NoLateWriter'
    BY DEF TypeOK, NoLateWriter, Owed
  <1>5. Armed'
    BY DEF TypeOK, Armed
  <1>6. TombstoneIsTrue'
    BY DEF TypeOK, TombstoneIsTrue, Owed, Armed, Erasing
  <1>7. Erasing'
    BY DEF TypeOK, Erasing, TombstoneIsTrue, Owed, Armed
  <1>8. Copied'
    BY DEF TypeOK, Copied, Armed
  <1>9. Cleared'
    BY DEF TypeOK, Cleared, Copied, Armed
  <1> QED
    BY <1>1, <1>2, <1>3, <1>4, <1>5, <1>6, <1>7, <1>8, <1>9 DEF IInv

\* ResetStuck preserves the inductive invariant.
LEMMA ResetStuckInv ==
  ASSUME IInv, NEW j \in Jobs, ResetStuck(j) PROVE IInv'
  <1> USE DEF IInv, stores, queue, counts, history, At, ResetStuck
  <1>1. TypeOK'
    <2>1. /\ rows' \subseteq AllRows /\ points' \subseteq Points /\ node' \in BOOLEAN
          /\ fired' \in BOOLEAN /\ stray' \in BOOLEAN /\ spoilt' \in BOOLEAN
          /\ res' \in [Purgers -> [ses : BOOLEAN, pg : BOOLEAN, q : BOOLEAN, g : BOOLEAN]]
          /\ calls' \in 0 .. MaxCalls /\ faults' \in 0 .. MaxFaults
          /\ dirty' \in [Threads -> BOOLEAN]
      BY DEF TypeOK
    <2>2. /\ tomb' \in [there : BOOLEAN, q : BOOLEAN, g : BOOLEAN, resolved : BOOLEAN,
             sweeps : 0 .. MaxSweeps]
          /\ jobs' \in [Jobs -> [status : {"none", "pending", "running", "done", "dead"},
             tries : 0 .. MaxTries + 1]]
      BY DEF TypeOK, Budgets
    <2>3. /\ step' \in [Procs -> ThreadSteps \cup DeleteSteps \cup JobSteps \cup {"idle"}]
          /\ \A i \in Handlers : step'[i] \in JobSteps \cup {"idle"}
          /\ \A i \in Threads : step'[i] \in ThreadSteps \cup DeleteSteps \cup {"idle"}
          /\ step'[Sweeper] \in SweepSteps \cup {"idle"}
          /\ job' \in [Handlers -> 0 .. MaxJobs]
          /\ \A i \in Handlers : step'[i] # "idle" => job'[i] \in Jobs
          /\ due' \in [Procs -> SUBSET {"transcript", "start", "store"}]
      BY DEF TypeOK
    <2> QED
      BY <2>1, <2>2, <2>3 DEF TypeOK
  <1>2. Budgets'
    BY DEF TypeOK, Budgets
  <1>3. Owed'
    BY DEF TypeOK, Owed, Armed
  <1>4. NoLateWriter'
    BY DEF TypeOK, NoLateWriter, Owed
  <1>5. Armed'
    BY DEF TypeOK, Armed
  <1>6. TombstoneIsTrue'
    BY DEF TypeOK, TombstoneIsTrue, Owed, Armed, Erasing
  <1>7. Erasing'
    BY DEF TypeOK, Erasing, TombstoneIsTrue, Owed, Armed
  <1>8. Copied'
    BY DEF TypeOK, Copied, Armed
  <1>9. Cleared'
    BY DEF TypeOK, Cleared, Copied, Armed
  <1> QED
    BY <1>1, <1>2, <1>3, <1>4, <1>5, <1>6, <1>7, <1>8, <1>9 DEF IInv

\* Begin preserves the inductive invariant.
LEMMA BeginInv ==
  ASSUME IInv, NEW h \in Handlers, Begin(h) PROVE IInv'
  <1> USE DEF IInv, stores, queue, counts, history, At, Begin, Goto, JobDone
  <1>1. TypeOK'
    <2>1. /\ rows' \subseteq AllRows /\ points' \subseteq Points /\ node' \in BOOLEAN
          /\ fired' \in BOOLEAN /\ stray' \in BOOLEAN /\ spoilt' \in BOOLEAN
          /\ res' \in [Purgers -> [ses : BOOLEAN, pg : BOOLEAN, q : BOOLEAN, g : BOOLEAN]]
          /\ calls' \in 0 .. MaxCalls /\ faults' \in 0 .. MaxFaults
          /\ dirty' \in [Threads -> BOOLEAN]
      BY DEF TypeOK
    <2>2. tomb' \in [there : BOOLEAN, q : BOOLEAN, g : BOOLEAN, resolved : BOOLEAN,
                   sweeps : 0 .. MaxSweeps]
      BY DEF TypeOK, Budgets
    <2>3. jobs' \in [Jobs -> [status : {"none", "pending", "running", "done", "dead"},
                            tries : 0 .. MaxTries + 1]]
      <3>1. CASE JobDone(h)
        BY <3>1, JobDoneSafe DEF TypeOK
      <3>2. CASE ~tomb.there /\ Goto(h, "facts") /\ UNCHANGED <<jobs, job>>
        BY <3>2 DEF TypeOK
      <3> QED
        BY <3>1, <3>2
    <2>4. step' \in [Procs -> ThreadSteps \cup DeleteSteps \cup JobSteps \cup {"idle"}]
      <3>1. CASE JobDone(h)
        BY <3>1 DEF TypeOK
      <3>2. CASE ~tomb.there /\ Goto(h, "facts") /\ UNCHANGED <<jobs, job>>
        BY <3>2 DEF TypeOK
      <3> QED
        BY <3>1, <3>2
    <2>5. /\ \A i \in Handlers : step'[i] \in JobSteps \cup {"idle"}
          /\ \A i \in Threads : step'[i] \in ThreadSteps \cup DeleteSteps \cup {"idle"}
          /\ step'[Sweeper] \in SweepSteps \cup {"idle"}
      <3>1. CASE JobDone(h)
        BY <3>1 DEF TypeOK
      <3>2. CASE ~tomb.there /\ Goto(h, "facts") /\ UNCHANGED <<jobs, job>>
        BY <3>2 DEF TypeOK
      <3> QED
        BY <3>1, <3>2
    <2>6. /\ job' \in [Handlers -> 0 .. MaxJobs]
          /\ \A i \in Handlers : step'[i] # "idle" => job'[i] \in Jobs
      <3>1. CASE JobDone(h)
        BY <3>1 DEF TypeOK
      <3>2. CASE ~tomb.there /\ Goto(h, "facts") /\ UNCHANGED <<jobs, job>>
        BY <3>2 DEF TypeOK
      <3> QED
        BY <3>1, <3>2
    <2>7. due' \in [Procs -> SUBSET {"transcript", "start", "store"}]
      <3>1. CASE JobDone(h)
        BY <3>1 DEF TypeOK
      <3>2. CASE ~tomb.there /\ Goto(h, "facts") /\ UNCHANGED <<jobs, job>>
        BY <3>2 DEF TypeOK
      <3> QED
        BY <3>1, <3>2
    <2> QED
      BY <2>1, <2>2, <2>3, <2>4, <2>5, <2>6, <2>7 DEF TypeOK
  <1>2. Budgets'
    <2>1. CASE JobDone(h)
      BY <2>1, JobDoneSafe DEF TypeOK, Budgets
    <2>2. CASE ~tomb.there /\ Goto(h, "facts") /\ UNCHANGED <<jobs, job>>
      BY <2>2 DEF TypeOK, Budgets
    <2> QED
      BY <2>1, <2>2
  <1>3. Owed'
    BY DEF TypeOK, Owed, Armed
  <1>4. NoLateWriter'
    <2>1. CASE Goto(h, "idle")
      BY <2>1, HarmlessGoto
    <2>2. CASE ~tomb.there /\ Goto(h, "facts") /\ UNCHANGED <<jobs, job>>
      BY <2>2 DEF TypeOK, NoLateWriter, Owed
    <2> QED
      BY <2>1, <2>2
  <1>5. Armed'
    <2>1. CASE JobDone(h)
      BY <2>1 DEF TypeOK, Armed
    <2>2. CASE ~tomb.there /\ Goto(h, "facts") /\ UNCHANGED <<jobs, job>>
      BY <2>2 DEF TypeOK, Armed
    <2> QED
      BY <2>1, <2>2
  <1>6. TombstoneIsTrue'
    BY DEF TypeOK, TombstoneIsTrue, Owed, Armed, Erasing
  <1>7. Erasing'
    BY DEF TypeOK, Erasing, TombstoneIsTrue, Owed, Armed
  <1>8. Copied'
    BY DEF TypeOK, Copied, Armed
  <1>9. Cleared'
    BY DEF TypeOK, Cleared, Copied, Armed
  <1> QED
    BY <1>1, <1>2, <1>3, <1>4, <1>5, <1>6, <1>7, <1>8, <1>9 DEF IInv

\* StoreFacts preserves the inductive invariant.
LEMMA StoreFactsInv ==
  ASSUME IInv, NEW h \in Handlers, StoreFacts(h) PROVE IInv'
  <1> USE DEF IInv, stores, queue, counts, history, At, StoreFacts, Goto, NoteWrite, Raises, Works, JobFails
  <1>g. PICK s \in {"recheck", "idle"} : Goto(h, s)
    OBVIOUS
  <1>h. /\ step' \in [Procs -> ThreadSteps \cup DeleteSteps \cup JobSteps \cup {"idle"}]
        /\ \A i \in Handlers : step'[i] \in JobSteps \cup {"idle"}
        /\ \A i \in Threads : step'[i] \in ThreadSteps \cup DeleteSteps \cup {"idle"}
        /\ step'[Sweeper] \in SweepSteps \cup {"idle"}
        /\ due' \in [Procs -> SUBSET {"transcript", "start", "store"}]
        /\ \A i \in Purgers : step'[i] = step[i]
    BY <1>g, HandlerGoes, Zenon
  <1>1. TypeOK'
    <2>1. rows' \subseteq AllRows /\ points' \subseteq Points /\ node' \in BOOLEAN
      BY DEF TypeOK
    <2>2. fired' \in BOOLEAN /\ stray' \in BOOLEAN /\ spoilt' \in BOOLEAN
      BY DEF TypeOK
    <2>3. res' \in [Purgers -> [ses : BOOLEAN, pg : BOOLEAN, q : BOOLEAN, g : BOOLEAN]]
      BY DEF TypeOK
    <2>4. calls' \in 0 .. MaxCalls /\ faults' \in 0 .. MaxFaults
      BY DEF TypeOK
    <2>5. dirty' \in [Threads -> BOOLEAN]
      <3>1. CASE NoteWrite
        BY <3>1, NotedType
      <3>2. CASE UNCHANGED dirty
        BY <3>2 DEF TypeOK
      <3> QED
        BY <3>1, <3>2
    <2>6. tomb' \in [there : BOOLEAN, q : BOOLEAN, g : BOOLEAN, resolved : BOOLEAN,
                   sweeps : 0 .. MaxSweeps]
      BY DEF TypeOK, Budgets
    <2>7. jobs' \in [Jobs -> [status : {"none", "pending", "running", "done", "dead"},
                            tries : 0 .. MaxTries + 1]]
      <3>1. CASE JobFails(h)
        BY <3>1, JobFailsSafe, Zenon DEF TypeOK
      <3>2. CASE UNCHANGED jobs
        BY <3>2 DEF TypeOK
      <3> QED
        BY <3>1, <3>2
    <2>8. step' \in [Procs -> ThreadSteps \cup DeleteSteps \cup JobSteps \cup {"idle"}]
      BY <1>h
    <2>9. /\ \A i \in Handlers : step'[i] \in JobSteps \cup {"idle"}
          /\ \A i \in Threads : step'[i] \in ThreadSteps \cup DeleteSteps \cup {"idle"}
          /\ step'[Sweeper] \in SweepSteps \cup {"idle"}
      BY <1>h
    <2>10. /\ job' \in [Handlers -> 0 .. MaxJobs]
          /\ \A i \in Handlers : step'[i] # "idle" => job'[i] \in Jobs
      <3>1. CASE Goto(h, "recheck") /\ UNCHANGED job
        BY <3>1 DEF TypeOK
      <3>2. CASE Goto(h, "idle") /\ job' = [job EXCEPT ![h] = 0]
        BY <3>2 DEF TypeOK
      <3> QED
        BY <3>1, <3>2
    <2>11. due' \in [Procs -> SUBSET {"transcript", "start", "store"}]
      BY <1>h
    <2> QED
      BY <2>1, <2>2, <2>3, <2>4, <2>5, <2>6, <2>7, <2>8, <2>9, <2>10, <2>11 DEF TypeOK
  <1>2. Budgets'
    <2>1. CASE JobFails(h)
      BY <2>1, <1>h, JobFailsSafe, Zenon DEF Budgets
    <2>2. CASE UNCHANGED jobs
      BY <2>2, <1>h DEF Budgets
    <2> QED
      BY <2>1, <2>2
  <1>3. Owed'
    BY <1>g, OwedGoes
  <1>4. NoLateWriter'
    <2>1. CASE Goto(h, "recheck")
      BY <2>1 DEF TypeOK, NoLateWriter, Owed
    <2>2. CASE Goto(h, "idle")
      BY <2>2, HarmlessGoto
    <2> QED
      BY <2>1, <2>2
  <1>5. Armed'
    BY <1>h, ArmedStays
  <1>6. TombstoneIsTrue'
    BY DEF TypeOK, TombstoneIsTrue, Owed, Armed, Erasing
  <1>7. Erasing'
    BY DEF TypeOK, Erasing, TombstoneIsTrue, Owed, Armed
  <1>8. Copied'
    BY DEF TypeOK, Copied, Armed
  <1>9. Cleared'
    <2>1. \A i \in Threads : step'[i] \in DeleteSteps => step'[i] = step[i]
      BY DEF TypeOK
    <2>2. CASE NoteWrite
      BY <2>1, <2>2, NotedCleared
    <2>3. CASE UNCHANGED <<rows, points, node, res, dirty>>
      BY <2>1, <2>3, QuietCleared
    <2> QED
      BY <2>2, <2>3 DEF Cleared
  <1> QED
    BY <1>1, <1>2, <1>3, <1>4, <1>5, <1>6, <1>7, <1>8, <1>9 DEF IInv

\* Recheck preserves the inductive invariant.
LEMMA RecheckInv ==
  ASSUME IInv, NEW h \in Handlers, Recheck(h) PROVE IInv'
  <1> USE DEF IInv, stores, queue, counts, history, At, Recheck, Goto
  <1>1. TypeOK'
    <2>1. /\ rows' \subseteq AllRows /\ points' \subseteq Points /\ node' \in BOOLEAN
          /\ fired' \in BOOLEAN /\ stray' \in BOOLEAN /\ spoilt' \in BOOLEAN
          /\ res' \in [Purgers -> [ses : BOOLEAN, pg : BOOLEAN, q : BOOLEAN, g : BOOLEAN]]
          /\ calls' \in 0 .. MaxCalls /\ faults' \in 0 .. MaxFaults
          /\ dirty' \in [Threads -> BOOLEAN]
      BY DEF TypeOK
    <2>2. /\ tomb' \in [there : BOOLEAN, q : BOOLEAN, g : BOOLEAN, resolved : BOOLEAN,
             sweeps : 0 .. MaxSweeps]
          /\ jobs' \in [Jobs -> [status : {"none", "pending", "running", "done", "dead"},
             tries : 0 .. MaxTries + 1]]
      BY DEF TypeOK, Budgets
    <2>3. /\ step' \in [Procs -> ThreadSteps \cup DeleteSteps \cup JobSteps \cup {"idle"}]
          /\ \A i \in Handlers : step'[i] \in JobSteps \cup {"idle"}
          /\ \A i \in Threads : step'[i] \in ThreadSteps \cup DeleteSteps \cup {"idle"}
          /\ step'[Sweeper] \in SweepSteps \cup {"idle"}
          /\ job' \in [Handlers -> 0 .. MaxJobs]
          /\ \A i \in Handlers : step'[i] # "idle" => job'[i] \in Jobs
          /\ due' \in [Procs -> SUBSET {"transcript", "start", "store"}]
      BY DEF TypeOK
    <2> QED
      BY <2>1, <2>2, <2>3 DEF TypeOK
  <1>2. Budgets'
    BY DEF TypeOK, Budgets
  <1>3. Owed'
    BY DEF TypeOK, Owed, Armed
  <1>4. NoLateWriter'
    BY DEF TypeOK, NoLateWriter, Owed
  <1>5. Armed'
    BY DEF TypeOK, Armed
  <1>6. TombstoneIsTrue'
    BY DEF TypeOK, TombstoneIsTrue, Owed, Armed, Erasing
  <1>7. Erasing'
    BY DEF TypeOK, Erasing, TombstoneIsTrue, Owed, Armed
  <1>8. Copied'
    BY DEF TypeOK, Copied, Armed
  <1>9. Cleared'
    BY DEF TypeOK, Cleared, Copied, Armed
  <1> QED
    BY <1>1, <1>2, <1>3, <1>4, <1>5, <1>6, <1>7, <1>8, <1>9 DEF IInv

\* StorePoint preserves the inductive invariant.
LEMMA StorePointInv ==
  ASSUME IInv, NEW h \in Handlers, StorePoint(h) PROVE IInv'
  <1> USE DEF IInv, stores, queue, counts, history, At, StorePoint, Goto, NoteWrite, Raises, Works, JobFails
  <1>g. PICK s \in {"session", "idle"} : Goto(h, s)
    OBVIOUS
  <1>h. /\ step' \in [Procs -> ThreadSteps \cup DeleteSteps \cup JobSteps \cup {"idle"}]
        /\ \A i \in Handlers : step'[i] \in JobSteps \cup {"idle"}
        /\ \A i \in Threads : step'[i] \in ThreadSteps \cup DeleteSteps \cup {"idle"}
        /\ step'[Sweeper] \in SweepSteps \cup {"idle"}
        /\ due' \in [Procs -> SUBSET {"transcript", "start", "store"}]
        /\ \A i \in Purgers : step'[i] = step[i]
    BY <1>g, HandlerGoes, Zenon
  <1>1. TypeOK'
    <2>1. rows' \subseteq AllRows /\ points' \subseteq Points /\ node' \in BOOLEAN
      BY DEF TypeOK
    <2>2. fired' \in BOOLEAN /\ stray' \in BOOLEAN /\ spoilt' \in BOOLEAN
      BY DEF TypeOK
    <2>3. res' \in [Purgers -> [ses : BOOLEAN, pg : BOOLEAN, q : BOOLEAN, g : BOOLEAN]]
      BY DEF TypeOK
    <2>4. calls' \in 0 .. MaxCalls /\ faults' \in 0 .. MaxFaults
      BY DEF TypeOK
    <2>5. dirty' \in [Threads -> BOOLEAN]
      <3>1. CASE NoteWrite
        BY <3>1, NotedType
      <3>2. CASE UNCHANGED dirty
        BY <3>2 DEF TypeOK
      <3> QED
        BY <3>1, <3>2
    <2>6. tomb' \in [there : BOOLEAN, q : BOOLEAN, g : BOOLEAN, resolved : BOOLEAN,
                   sweeps : 0 .. MaxSweeps]
      BY DEF TypeOK, Budgets
    <2>7. jobs' \in [Jobs -> [status : {"none", "pending", "running", "done", "dead"},
                            tries : 0 .. MaxTries + 1]]
      <3>1. CASE JobFails(h)
        BY <3>1, JobFailsSafe, Zenon DEF TypeOK
      <3>2. CASE UNCHANGED jobs
        BY <3>2 DEF TypeOK
      <3> QED
        BY <3>1, <3>2
    <2>8. step' \in [Procs -> ThreadSteps \cup DeleteSteps \cup JobSteps \cup {"idle"}]
      BY <1>h
    <2>9. /\ \A i \in Handlers : step'[i] \in JobSteps \cup {"idle"}
          /\ \A i \in Threads : step'[i] \in ThreadSteps \cup DeleteSteps \cup {"idle"}
          /\ step'[Sweeper] \in SweepSteps \cup {"idle"}
      BY <1>h
    <2>10. /\ job' \in [Handlers -> 0 .. MaxJobs]
          /\ \A i \in Handlers : step'[i] # "idle" => job'[i] \in Jobs
      <3>1. CASE Goto(h, "session") /\ UNCHANGED job
        BY <3>1 DEF TypeOK
      <3>2. CASE Goto(h, "idle") /\ job' = [job EXCEPT ![h] = 0]
        BY <3>2 DEF TypeOK
      <3> QED
        BY <3>1, <3>2
    <2>11. due' \in [Procs -> SUBSET {"transcript", "start", "store"}]
      BY <1>h
    <2> QED
      BY <2>1, <2>2, <2>3, <2>4, <2>5, <2>6, <2>7, <2>8, <2>9, <2>10, <2>11 DEF TypeOK
  <1>2. Budgets'
    <2>1. CASE JobFails(h)
      BY <2>1, <1>h, JobFailsSafe, Zenon DEF Budgets
    <2>2. CASE UNCHANGED jobs
      BY <2>2, <1>h DEF Budgets
    <2> QED
      BY <2>1, <2>2
  <1>3. Owed'
    BY <1>g, OwedGoes
  <1>4. NoLateWriter'
    <2>1. CASE Goto(h, "session")
      BY <2>1 DEF TypeOK, NoLateWriter, Owed
    <2>2. CASE Goto(h, "idle")
      BY <2>2, HarmlessGoto
    <2> QED
      BY <2>1, <2>2
  <1>5. Armed'
    BY <1>h, ArmedStays
  <1>6. TombstoneIsTrue'
    BY DEF TypeOK, TombstoneIsTrue, Owed, Armed, Erasing
  <1>7. Erasing'
    BY DEF TypeOK, Erasing, TombstoneIsTrue, Owed, Armed
  <1>8. Copied'
    BY DEF TypeOK, Copied, Armed
  <1>9. Cleared'
    <2>1. \A i \in Threads : step'[i] \in DeleteSteps => step'[i] = step[i]
      BY DEF TypeOK
    <2>2. CASE NoteWrite
      BY <2>1, <2>2, NotedCleared
    <2>3. CASE UNCHANGED <<rows, points, node, res, dirty>>
      BY <2>1, <2>3, QuietCleared
    <2> QED
      BY <2>2, <2>3 DEF Cleared
  <1> QED
    BY <1>1, <1>2, <1>3, <1>4, <1>5, <1>6, <1>7, <1>8, <1>9 DEF IInv

\* StoreSession preserves the inductive invariant.
LEMMA StoreSessionInv ==
  ASSUME IInv, NEW h \in Handlers, StoreSession(h) PROVE IInv'
  <1> USE DEF IInv, stores, queue, counts, history, At, StoreSession, Goto, NoteWrite, Raises, Works
  <1>1. TypeOK'
    <2>1. rows' \subseteq AllRows /\ points' \subseteq Points /\ node' \in BOOLEAN
      BY DEF TypeOK
    <2>2. fired' \in BOOLEAN /\ stray' \in BOOLEAN /\ spoilt' \in BOOLEAN
      BY DEF TypeOK
    <2>3. res' \in [Purgers -> [ses : BOOLEAN, pg : BOOLEAN, q : BOOLEAN, g : BOOLEAN]]
      BY DEF TypeOK
    <2>4. calls' \in 0 .. MaxCalls /\ faults' \in 0 .. MaxFaults
      BY DEF TypeOK
    <2>5. dirty' \in [Threads -> BOOLEAN]
      <3>1. CASE NoteWrite
        BY <3>1, NotedType
      <3>2. CASE UNCHANGED dirty
        BY <3>2 DEF TypeOK
      <3> QED
        BY <3>1, <3>2
    <2>6. /\ tomb' \in [there : BOOLEAN, q : BOOLEAN, g : BOOLEAN, resolved : BOOLEAN,
             sweeps : 0 .. MaxSweeps]
          /\ jobs' \in [Jobs -> [status : {"none", "pending", "running", "done", "dead"},
             tries : 0 .. MaxTries + 1]]
      BY DEF TypeOK, Budgets
    <2>7. /\ step' \in [Procs -> ThreadSteps \cup DeleteSteps \cup JobSteps \cup {"idle"}]
          /\ \A i \in Handlers : step'[i] \in JobSteps \cup {"idle"}
          /\ \A i \in Threads : step'[i] \in ThreadSteps \cup DeleteSteps \cup {"idle"}
          /\ step'[Sweeper] \in SweepSteps \cup {"idle"}
          /\ job' \in [Handlers -> 0 .. MaxJobs]
          /\ \A i \in Handlers : step'[i] # "idle" => job'[i] \in Jobs
          /\ due' \in [Procs -> SUBSET {"transcript", "start", "store"}]
      BY DEF TypeOK
    <2> QED
      BY <2>1, <2>2, <2>3, <2>4, <2>5, <2>6, <2>7 DEF TypeOK
  <1>2. Budgets'
    BY DEF TypeOK, Budgets
  <1>3. Owed'
    BY DEF TypeOK, Owed, Armed
  <1>4. NoLateWriter'
    BY DEF TypeOK, NoLateWriter, Owed
  <1>5. Armed'
    BY DEF TypeOK, Armed
  <1>6. TombstoneIsTrue'
    BY DEF TypeOK, TombstoneIsTrue, Owed, Armed, Erasing
  <1>7. Erasing'
    BY DEF TypeOK, Erasing, TombstoneIsTrue, Owed, Armed
  <1>8. Copied'
    BY DEF TypeOK, Copied, Armed
  <1>9. Cleared'
    <2>1. \A i \in Threads : step'[i] \in DeleteSteps => step'[i] = step[i]
      BY DEF TypeOK
    <2>2. CASE NoteWrite
      BY <2>1, <2>2, NotedCleared
    <2>3. CASE UNCHANGED <<rows, points, node, res, dirty>>
      BY <2>1, <2>3, QuietCleared
    <2> QED
      BY <2>2, <2>3 DEF Cleared
  <1> QED
    BY <1>1, <1>2, <1>3, <1>4, <1>5, <1>6, <1>7, <1>8, <1>9 DEF IInv

\* FireHook preserves the inductive invariant.
LEMMA FireHookInv ==
  ASSUME IInv, NEW h \in Handlers, FireHook(h) PROVE IInv'
  <1> USE DEF IInv, stores, queue, counts, history, At, FireHook, Goto, JobDone
  <1>1. TypeOK'
    <2>1. /\ rows' \subseteq AllRows /\ points' \subseteq Points /\ node' \in BOOLEAN
          /\ fired' \in BOOLEAN /\ stray' \in BOOLEAN /\ spoilt' \in BOOLEAN
          /\ res' \in [Purgers -> [ses : BOOLEAN, pg : BOOLEAN, q : BOOLEAN, g : BOOLEAN]]
          /\ calls' \in 0 .. MaxCalls /\ faults' \in 0 .. MaxFaults
          /\ dirty' \in [Threads -> BOOLEAN]
      BY DEF TypeOK
    <2>2. tomb' \in [there : BOOLEAN, q : BOOLEAN, g : BOOLEAN, resolved : BOOLEAN,
                   sweeps : 0 .. MaxSweeps]
      BY DEF TypeOK, Budgets
    <2>3. jobs' \in [Jobs -> [status : {"none", "pending", "running", "done", "dead"},
                            tries : 0 .. MaxTries + 1]]
      BY JobDoneSafe DEF TypeOK
    <2>4. /\ step' \in [Procs -> ThreadSteps \cup DeleteSteps \cup JobSteps \cup {"idle"}]
          /\ \A i \in Handlers : step'[i] \in JobSteps \cup {"idle"}
          /\ \A i \in Threads : step'[i] \in ThreadSteps \cup DeleteSteps \cup {"idle"}
          /\ step'[Sweeper] \in SweepSteps \cup {"idle"}
          /\ job' \in [Handlers -> 0 .. MaxJobs]
          /\ \A i \in Handlers : step'[i] # "idle" => job'[i] \in Jobs
          /\ due' \in [Procs -> SUBSET {"transcript", "start", "store"}]
      BY DEF TypeOK
    <2> QED
      BY <2>1, <2>2, <2>3, <2>4 DEF TypeOK
  <1>2. Budgets'
    BY DEF TypeOK, Budgets
  <1>3. Owed'
    BY DEF TypeOK, Owed, Armed
  <1>4. NoLateWriter'
    BY DEF TypeOK, NoLateWriter, Owed
  <1>5. Armed'
    BY DEF TypeOK, Armed
  <1>6. TombstoneIsTrue'
    BY DEF TypeOK, TombstoneIsTrue, Owed, Armed, Erasing
  <1>7. Erasing'
    BY DEF TypeOK, Erasing, TombstoneIsTrue, Owed, Armed
  <1>8. Copied'
    BY DEF TypeOK, Copied, Armed
  <1>9. Cleared'
    BY DEF TypeOK, Cleared, Copied, Armed
  <1> QED
    BY <1>1, <1>2, <1>3, <1>4, <1>5, <1>6, <1>7, <1>8, <1>9 DEF IInv

\* GraphCallback preserves the inductive invariant.
LEMMA GraphCallbackInv ==
  ASSUME IInv, GraphCallback PROVE IInv'
  <1> USE DEF IInv, stores, queue, counts, history, At, GraphCallback, NoteWrite
  <1>1. TypeOK'
    <2>1. /\ rows' \subseteq AllRows /\ points' \subseteq Points /\ node' \in BOOLEAN
          /\ fired' \in BOOLEAN /\ stray' \in BOOLEAN /\ spoilt' \in BOOLEAN
          /\ res' \in [Purgers -> [ses : BOOLEAN, pg : BOOLEAN, q : BOOLEAN, g : BOOLEAN]]
          /\ calls' \in 0 .. MaxCalls /\ faults' \in 0 .. MaxFaults
          /\ dirty' \in [Threads -> BOOLEAN]
      BY DEF TypeOK
    <2>2. /\ tomb' \in [there : BOOLEAN, q : BOOLEAN, g : BOOLEAN, resolved : BOOLEAN,
             sweeps : 0 .. MaxSweeps]
          /\ jobs' \in [Jobs -> [status : {"none", "pending", "running", "done", "dead"},
             tries : 0 .. MaxTries + 1]]
      BY DEF TypeOK, Budgets
    <2>3. /\ step' \in [Procs -> ThreadSteps \cup DeleteSteps \cup JobSteps \cup {"idle"}]
          /\ \A i \in Handlers : step'[i] \in JobSteps \cup {"idle"}
          /\ \A i \in Threads : step'[i] \in ThreadSteps \cup DeleteSteps \cup {"idle"}
          /\ step'[Sweeper] \in SweepSteps \cup {"idle"}
          /\ job' \in [Handlers -> 0 .. MaxJobs]
          /\ \A i \in Handlers : step'[i] # "idle" => job'[i] \in Jobs
          /\ due' \in [Procs -> SUBSET {"transcript", "start", "store"}]
      BY DEF TypeOK
    <2> QED
      BY <2>1, <2>2, <2>3 DEF TypeOK
  <1>2. Budgets'
    BY DEF TypeOK, Budgets
  <1>3. Owed'
    BY DEF TypeOK, Owed, Armed
  <1>4. NoLateWriter'
    BY DEF TypeOK, NoLateWriter, Owed
  <1>5. Armed'
    BY DEF TypeOK, Armed
  <1>6. TombstoneIsTrue'
    BY DEF TypeOK, TombstoneIsTrue, Owed, Armed, Erasing
  <1>7. Erasing'
    BY DEF TypeOK, Erasing, TombstoneIsTrue, Owed, Armed
  <1>8. Copied'
    BY DEF TypeOK, Copied, Armed
  <1>9. Cleared'
    BY DEF TypeOK, Cleared, Copied, Armed
  <1> QED
    BY <1>1, <1>2, <1>3, <1>4, <1>5, <1>6, <1>7, <1>8, <1>9 DEF IInv

\* Crash preserves the inductive invariant.
LEMMA CrashInv ==
  ASSUME IInv, Crash PROVE IInv'
  <1> USE DEF IInv, stores, queue, counts, history, At, Crash, Raises
  <1>1. TypeOK'
    <2>1. rows' \subseteq AllRows /\ points' \subseteq Points /\ node' \in BOOLEAN
      BY DEF TypeOK
    <2>2. fired' \in BOOLEAN /\ stray' \in BOOLEAN /\ spoilt' \in BOOLEAN
      BY DEF TypeOK
    <2>3. res' \in [Purgers -> [ses : BOOLEAN, pg : BOOLEAN, q : BOOLEAN, g : BOOLEAN]]
      BY DEF TypeOK
    <2>4. calls' \in 0 .. MaxCalls /\ faults' \in 0 .. MaxFaults
      BY DEF TypeOK
    <2>5. dirty' \in [Threads -> BOOLEAN]
      BY DEF TypeOK
    <2>6. /\ tomb' \in [there : BOOLEAN, q : BOOLEAN, g : BOOLEAN, resolved : BOOLEAN,
             sweeps : 0 .. MaxSweeps]
          /\ jobs' \in [Jobs -> [status : {"none", "pending", "running", "done", "dead"},
             tries : 0 .. MaxTries + 1]]
      BY DEF TypeOK, Budgets
    <2>7. /\ step' \in [Procs -> ThreadSteps \cup DeleteSteps \cup JobSteps \cup {"idle"}]
          /\ \A i \in Handlers : step'[i] \in JobSteps \cup {"idle"}
          /\ \A i \in Threads : step'[i] \in ThreadSteps \cup DeleteSteps \cup {"idle"}
          /\ step'[Sweeper] \in SweepSteps \cup {"idle"}
          /\ job' \in [Handlers -> 0 .. MaxJobs]
          /\ \A i \in Handlers : step'[i] # "idle" => job'[i] \in Jobs
          /\ due' \in [Procs -> SUBSET {"transcript", "start", "store"}]
      BY DEF TypeOK
    <2> QED
      BY <2>1, <2>2, <2>3, <2>4, <2>5, <2>6, <2>7 DEF TypeOK
  <1>2. Budgets'
    BY DEF TypeOK, Budgets
  <1>3. Owed'
    BY DEF TypeOK, Owed, Armed
  <1>4. NoLateWriter'
    BY DEF TypeOK, NoLateWriter, Owed
  <1>5. Armed'
    BY DEF TypeOK, Armed
  <1>6. TombstoneIsTrue'
    BY DEF TypeOK, TombstoneIsTrue, Owed, Armed, Erasing
  <1>7. Erasing'
    BY DEF TypeOK, Erasing, TombstoneIsTrue, Owed, Armed
  <1>8. Copied'
    BY DEF TypeOK, Copied, Armed
  <1>9. Cleared'
    BY DEF TypeOK, Cleared, Copied, Armed
  <1> QED
    BY <1>1, <1>2, <1>3, <1>4, <1>5, <1>6, <1>7, <1>8, <1>9 DEF IInv

-----------------------------------------------------------------------------
\* A step that changes nothing.
LEMMA StutterInv == ASSUME IInv, UNCHANGED vars PROVE IInv'
  <1> USE DEF IInv, vars, stores, queue, counts, history, At
  <1>1. TypeOK' /\ Budgets' /\ Owed'
    BY DEF TypeOK, Budgets, Owed
  <1>2. NoLateWriter' /\ Armed'
    BY DEF NoLateWriter, Armed
  <1>3. TombstoneIsTrue' /\ Erasing' /\ Copied' /\ Cleared'
    BY DEF TombstoneIsTrue, Erasing, Copied, Cleared
  <1> QED
    BY <1>1, <1>2, <1>3

\* Every step preserves the inductive invariant.
LEMMA NextInv == IInv /\ [Next]_vars => IInv'
  <1> SUFFICES ASSUME IInv, [Next]_vars PROVE IInv'
    OBVIOUS
  <1>1. CASE \E t \in Threads : RequestDelete(t) \/ \E s \in Requests : Request(t, s)
    BY <1>1, RequestDeleteInv, RequestInv
  <1>2. CASE \E p \in Procs : Work(p)
    <2>1. PICK p \in Procs : Work(p)
      BY <1>2
    <2>2. CASE p \in Threads /\ Transcript(p)
      BY <2>2, CheckTranscriptInv, WriteHeaderInv, CheckOwnedInv, WriteMessageInv
         DEF Transcript
    <2>3. CASE p \in Threads /\ Share(p)
      BY <2>3, FetchSourceInv, SharePointInv, ShareRowInv, ErasePointInv, DropRowInv
         DEF Share
    <2>4. CASE p \in Threads /\ Delete(p)
      BY <2>4, LookInv, ArmInv, CancelInv, MarkInv, ReplyInv DEF Delete
    <2>5. CASE EndSweep
      BY <2>5, EndSweepInv
    <2>6. CASE p \in Purgers /\ (QdrantArm(p) \/ GraphArm(p))
      BY <2>6, QdrantArmInv, GraphArmInv
    <2>7. CASE p \in Handlers /\ Handle(p)
      BY <2>7, BeginInv, StoreFactsInv, RecheckInv, StorePointInv, StoreSessionInv,
         FireHookInv DEF Handle
    <2> QED
      BY <2>1, <2>2, <2>3, <2>4, <2>5, <2>6, <2>7 DEF Work
  <1>3. CASE StartSweep
    BY <1>3, StartSweepInv
  <1>4. CASE \E j \in Jobs : Enqueue(j) \/ ResetStuck(j) \/ \E h \in Handlers : Claim(h, j)
    BY <1>4, EnqueueInv, ResetStuckInv, ClaimInv
  <1>5. CASE GraphCallback
    BY <1>5, GraphCallbackInv
  <1>6. CASE Crash
    BY <1>6, CrashInv
  <1>7. CASE UNCHANGED vars
    BY <1>7, StutterInv
  <1> QED
    BY <1>1, <1>2, <1>3, <1>4, <1>5, <1>6, <1>7 DEF Next

\* The inductive invariant holds of every behaviour.
THEOREM Invariance == Spec => []IInv
  BY InitInv, NextInv, PTL DEF Spec

\* is_conversation_purged() stops every writer that had a check ahead of it when
\* the tombstone was committed, however its job came back.
THEOREM WritersStop == Spec => []NoLateWriter
  BY Invariance, PTL DEF IInv

\* The flags of purged_conversations (memory_purge.py, _tombstone_update) are true
\* until something is written after the tombstone.
THEOREM TrueTombstone == Spec => []TombstoneIsTrue
  BY Invariance, PTL DEF IInv

\* A delete that ran its transaction and answers without partial has erased the
\* conversation from the three stores, unless something was written meanwhile.
THEOREM DeleteIsHonest == Spec => []HonestDelete
  <1>1. IInv => HonestDelete
    BY DEF IInv, TypeOK, Cleared, HonestDelete, NothingLeft, Partial, At, DeleteSteps
  <1> QED
    BY <1>1, Invariance, PTL
-----------------------------------------------------------------------------
(* The household copy, which needs only the types and the steps. *)

Cleaning == {"sharedRow", "undo", "dropPoint", "cancel", "qdrant"}

\* Whoever is not about to erase the point may do what does not uncover it.
LEMMA CopyStays ==
  ASSUME NoOrphanShare, NEW p \in Procs, p \in Threads => step[p] \notin Cleaning,
         \A q \in Procs : q # p => step'[q] = step[q],
         "shared" \in points' => "shared" \in points,
         "shared" \in rows => "shared" \in rows', spoilt => spoilt'
  PROVE  NoOrphanShare'
  BY DEF NoOrphanShare, Cleaning

\* What moves no process.
LEMMA CopyRests ==
  ASSUME NoOrphanShare, UNCHANGED <<step, rows, points, spoilt>> PROVE NoOrphanShare'
  BY DEF NoOrphanShare

\* Publish and unpublish: the point is erased, its row is there, or the thread
\* has not done its part yet.
LEMMA ShareCopy ==
  ASSUME TypeOK, NoOrphanShare, NEW t \in Threads, Share(t) PROVE NoOrphanShare'
  <1> USE DEF At, stores, history, queue, counts, Goto
  <1>1. \A q \in Procs : q # t => step'[q] = step[q]
    BY DEF Share, FetchSource, SharePoint, ShareRow, ErasePoint, DropRow, TypeOK
  <1>2. CASE FetchSource(t, "publish", "sharedPoint") \/ FetchSource(t, "unpublish", "dropRow")
    BY <1>1, <1>2, CopyStays DEF FetchSource, Cleaning
  <1>3. CASE SharePoint(t)
    <2>1. CASE step'[t] = "sharedRow"
      BY <2>1 DEF NoOrphanShare
    <2>2. CASE points' = points /\ step[t] = "sharedPoint"
      BY <1>1, <1>3, <2>2, CopyStays DEF SharePoint, Cleaning
    <2> QED
      BY <1>3, <2>1, <2>2 DEF SharePoint, TypeOK
  <1>4. CASE ShareRow(t)
    <2>1. CASE "shared" \in rows'
      BY <2>1 DEF NoOrphanShare
    <2>2. CASE step'[t] = "undo"
      BY <2>2 DEF NoOrphanShare
    <2> QED
      BY <1>4, <2>1, <2>2 DEF ShareRow, AfterShareFails, TypeOK
  <1>5. CASE ErasePoint(t, "undo") \/ ErasePoint(t, "dropPoint")
    BY <1>5 DEF ErasePoint, NoOrphanShare
  <1>6. CASE DropRow(t)
    <2>1. step'[t] = "dropPoint"
      BY <1>6 DEF DropRow, TypeOK
    <2> QED
      BY <2>1 DEF NoOrphanShare
  <1> QED
    BY <1>2, <1>3, <1>4, <1>5, <1>6 DEF Share

\* A purge erases the row in its transaction and the point in its store arm.
LEMMA DeleteCopy ==
  ASSUME TypeOK, NoOrphanShare, NEW t \in Threads, Delete(t) PROVE NoOrphanShare'
  <1> USE DEF At, stores, history, queue, counts, Goto
  <1>1. \A q \in Procs : q # t => step'[q] = step[q]
    BY DEF Delete, Look, Arm, Cancel, Mark, Reply, Purges, TypeOK
  <1>2. CASE Look(t) \/ Mark(t) \/ Reply(t)
    BY <1>1, <1>2, CopyStays DEF Look, Mark, Reply, Cleaning
  <1>3. CASE Arm(t)
    <2>1. CASE step'[t] = "cancel"
      BY <2>1 DEF NoOrphanShare
    <2>2. CASE rows' = rows
      BY <1>1, <1>3, <2>2, CopyStays DEF Arm, Cleaning
    <2> QED
      BY <1>3, <2>1, <2>2 DEF Arm, Purges, TypeOK
  <1>4. CASE Cancel(t)
    <2>1. CASE step'[t] = "qdrant"
      BY <2>1 DEF NoOrphanShare
    <2>2. CASE spoilt'
      BY <2>2 DEF NoOrphanShare
    <2> QED
      BY <1>4, <2>1, <2>2 DEF Cancel, TypeOK
  <1> QED
    BY <1>2, <1>3, <1>4 DEF Delete

\* The arms of a purger, a thread or the sweeper.
LEMMA ArmCopy ==
  ASSUME TypeOK, NoOrphanShare, NEW p \in Purgers, QdrantArm(p) \/ GraphArm(p)
  PROVE  NoOrphanShare'
  <1> USE DEF At, stores, history, queue, counts, Goto
  <1>1. \A q \in Procs : q # p => step'[q] = step[q]
    BY DEF QdrantArm, GraphArm, TypeOK
  <1>2. CASE QdrantArm(p) /\ ~QdrantSkips(p)
    BY <1>2 DEF QdrantArm, NoOrphanShare
  <1>3. CASE QdrantArm(p) /\ QdrantSkips(p)
    <2>1. p \notin Threads
      BY <1>3 DEF QdrantSkips
    <2> QED
      BY <1>1, <1>3, <2>1, CopyStays DEF QdrantArm
  <1>4. CASE GraphArm(p)
    BY <1>1, <1>4, CopyStays DEF GraphArm, Cleaning
  <1> QED
    BY <1>2, <1>3, <1>4

\* Transcripts and jobs write no shared point and remove no row.
LEMMA WriterCopy ==
  ASSUME TypeOK, NoOrphanShare, NEW p \in Procs,
         (p \in Threads /\ Transcript(p)) \/ (p \in Handlers /\ Handle(p))
  PROVE  NoOrphanShare'
  <1> USE DEF At, stores, history, queue, counts, Goto
  <1>1. CASE p \in Threads /\ Transcript(p)
    <2>1. \A q \in Procs : q # p => step'[q] = step[q]
      BY <1>1 DEF Transcript, CheckTranscript, WriteHeader, CheckOwned, WriteMessage, TypeOK
    <2>2. step[p] \notin Cleaning
      BY <1>1 DEF Transcript, CheckTranscript, WriteHeader, CheckOwned, WriteMessage, Cleaning
    <2>3. points' = points /\ rows \subseteq rows' /\ spoilt' = spoilt
      BY <1>1 DEF Transcript, CheckTranscript, WriteHeader, CheckOwned, WriteMessage
    <2> QED
      BY <2>1, <2>2, <2>3, CopyStays
  <1>2. CASE p \in Handlers /\ Handle(p)
    <2>1. \A q \in Procs : q # p => step'[q] = step[q]
      BY <1>2 DEF Handle, Begin, StoreFacts, Recheck, StorePoint, StoreSession, FireHook,
                  JobDone, JobFails, TypeOK
    <2>2. p \notin Threads
      BY <1>2
    <2>3. points' \subseteq points \cup {"own"} /\ rows \subseteq rows' /\ spoilt' = spoilt
      BY <1>2 DEF Handle, Begin, StoreFacts, Recheck, StorePoint, StoreSession, FireHook
    <2> QED
      BY <2>1, <2>2, <2>3, CopyStays
  <1> QED
    BY <1>1, <1>2

\* Every step leaves a copy with its row, or in the hands of who will erase it.
LEMMA NextCopy == TypeOK /\ NoOrphanShare /\ [Next]_vars => NoOrphanShare'
  <1> SUFFICES ASSUME TypeOK, NoOrphanShare, [Next]_vars PROVE NoOrphanShare'
    OBVIOUS
  <1> USE DEF At, stores, history, queue, counts
  <1>1. ASSUME NEW t \in Threads, RequestDelete(t) \/ \E s \in Requests : Request(t, s)
        PROVE  NoOrphanShare'
    <2>1. \A q \in Procs : q # t => step'[q] = step[q]
      BY <1>1 DEF RequestDelete, Request, Begins, Goto, TypeOK
    <2> QED
      BY <1>1, <2>1, CopyStays DEF RequestDelete, Request, Cleaning
  <1>2. ASSUME NEW p \in Procs, Work(p) PROVE NoOrphanShare'
    <2>1. CASE p = Sweeper /\ EndSweep
      <3>1. \A q \in Procs : q # Sweeper => step'[q] = step[q]
        BY <2>1 DEF EndSweep, Goto, TypeOK
      <3> QED
        BY <2>1, <3>1, CopyStays DEF EndSweep
    <2> QED
      BY <1>2, <2>1, WriterCopy, ShareCopy, DeleteCopy, ArmCopy DEF Work
  <1>3. CASE StartSweep
    <2>1. \A q \in Procs : q # Sweeper => step'[q] = step[q]
      BY <1>3 DEF StartSweep, Goto, TypeOK
    <2> QED
      BY <1>3, <2>1, CopyStays DEF StartSweep
  <1>4. ASSUME NEW j \in Jobs, Enqueue(j) \/ ResetStuck(j) PROVE NoOrphanShare'
    BY <1>4, CopyRests DEF Enqueue, ResetStuck
  <1>5. ASSUME NEW j \in Jobs, NEW h \in Handlers, Claim(h, j) PROVE NoOrphanShare'
    <2>1. \A q \in Procs : q # h => step'[q] = step[q]
      BY <1>5 DEF Claim, Begins, TypeOK
    <2> QED
      BY <1>5, <2>1, CopyStays DEF Claim
  <1>6. CASE GraphCallback \/ UNCHANGED vars
    BY <1>6, CopyRests DEF GraphCallback, vars
  <1>7. CASE Crash
    BY <1>7 DEF Crash, NoOrphanShare
  <1> QED
    BY <1>1, <1>2, <1>3, <1>4, <1>5, <1>6, <1>7 DEF Next

\* The household's copy of a summary never outlives its row unless a clean-up
\* failed or was cut off (routes/scope.py, memory_purge.py).
THEOREM NoCopyWithoutRow == Spec => []NoOrphanShare
  <1>1. Init => NoOrphanShare
    BY DEF Init, NoOrphanShare
  <1>2. IInv => TypeOK
    BY DEF IInv
  <1> QED
    BY <1>1, <1>2, NextCopy, Invariance, PTL DEF Spec
=============================================================================
