-------------------------- MODULE ConversationPurge --------------------------
(***************************************************************************)
(* One conversation of one owner and everything that is kept of it: the    *)
(* rows in Postgres, the points in the vector store, the node in the       *)
(* graph. It is written by                                                 *)
(*   - transcript requests (services/conversations.py: PUT of the header,  *)
(*     POST of a message),                                                 *)
(*   - session_end jobs, which summarise it (batch_handlers/session_end.py,*)
(*     services/memory.py) and fire a hook that writes the graph,          *)
(*   - publish requests that copy the summary to the household             *)
(*     (services/projection.py: project_session),                          *)
(* and erased by unpublish and by the hard delete with its tombstone       *)
(* (services/memory_purge.py: purge_session_memory), whose failed arms a   *)
(* periodic sweeper runs again (sweep_partial_purges).                     *)
(*                                                                         *)
(* Every SQL statement, transaction and store call is one step of a        *)
(* process; step[p] names the step p is about to take. All statements are  *)
(* keyed by the conversation's id, so one conversation stands for all. The *)
(* minimum age of a tombstone that is swept is time, and left out: a sweep *)
(* may start at any moment after the purge has committed.                  *)
(***************************************************************************)
EXTENDS Naturals, FiniteSets

CONSTANTS Threads,    \* request threads
          Handlers,   \* executions of session_end jobs by the batch loops
          Sweeper,    \* the purge_partial_sweep job of the scheduler
          MaxJobs,    \* bound: session_end jobs enqueued
          MaxTries,   \* BATCH_QUEUE_MAX_ATTEMPTS
          MaxSweeps,  \* LUMOGIS_PURGE_SWEEPER_MAX_ATTEMPTS
          MaxCalls,   \* bound: requests received
          MaxFaults   \* bound: calls that raise, and crashes of the process

Procs   == Threads \cup Handlers \cup {Sweeper}
Purgers == Threads \cup {Sweeper}
Jobs    == 1 .. MaxJobs

\* What is kept: "facts" are the entities and relations that name the
\* conversation as their evidence, "shared" the row of the household copy.
AllRows == {"header", "message", "session", "shared", "facts"}
Erased  == AllRows \ {"facts"}   \* the rows a purge deletes
Points  == {"own", "shared"}

ASSUME ConversationAssumption ==
  /\ Threads \cap Handlers = {}
  /\ Sweeper \notin Threads \cup Handlers
  /\ {MaxJobs, MaxTries, MaxSweeps, MaxCalls, MaxFaults} \subseteq Nat

VARIABLES
  rows,    \* the rows in Postgres, a subset of AllRows
  points,  \* the points in the vector store, a subset of Points
  node,    \* is the Session node in the graph
  tomb,    \* the row of purged_conversations
  jobs,    \* user_batch_jobs of kind session_end
  fired,   \* a SESSION_ENDED callback waits in the hook executor
  step,    \* the next step of each process
  job,     \* the job a handler executes
  res,     \* PurgeResult of a purger; ses: it found a sessions row
  calls, faults,
  due,     \* history: tombstone checks a writer has yet to pass although the
           \*          tombstone exists
  dirty,   \* history: something was written during the delete of a thread
  stray,   \* history: something was written after the tombstone
  spoilt   \* history: a clean-up of the shared copy failed or was cut off

stores  == <<rows, points, node>>
queue   == <<jobs, fired, job>>
counts  == <<calls, faults>>
history == <<dirty, stray, spoilt>>
vars    == <<stores, tomb, queue, step, due, res, counts, history>>

-----------------------------------------------------------------------------
NoTomb   == [there |-> FALSE, q |-> FALSE, g |-> FALSE, resolved |-> FALSE, sweeps |-> 0]
NoResult == [ses |-> FALSE, pg |-> FALSE, q |-> FALSE, g |-> FALSE]

\* PurgeResult.partial
Partial(r) == r.pg /\ ~(r.q /\ r.g)

ThreadSteps == {"put", "header", "append", "owned", "message",
                "publish", "sharedPoint", "sharedRow", "undo",
                "unpublish", "dropRow", "dropPoint"}
DeleteSteps == {"look", "arm", "cancel", "qdrant", "graph", "mark", "reply"}
JobSteps    == {"start", "facts", "recheck", "point", "session", "hook"}
SweepSteps  == {"qdrant", "graph", "mark"}
Requests    == {"put", "append", "publish", "unpublish"}

\* The tombstone checks that lie before a writer at step s.
ChecksAhead(s) ==
  CASE s \in {"put", "append"}     -> {"transcript"}
    [] s = "start"                 -> {"start", "store"}
    [] s \in {"facts", "recheck"}  -> {"store"}
    [] OTHER                       -> {}

At(p, s) == step[p] = s

\* p goes on to step s; begins with step s; commits a purge and goes on.
Goto(p, s) ==
  /\ step' = [step EXCEPT ![p] = s]
  /\ due'  = [due EXCEPT ![p] = IF s = "idle" THEN {} ELSE @]
Begins(p, s) ==
  /\ step' = [step EXCEPT ![p] = s]
  /\ due'  = [due EXCEPT ![p] = IF tomb.there THEN ChecksAhead(s) ELSE {}]
Purges(p, s) ==
  /\ step' = [step EXCEPT ![p] = s]
  /\ due'  = IF tomb.there THEN due ELSE [q \in Procs |-> ChecksAhead(step[q])]

\* A call raises, within the bound, or it does not.
Raises == faults < MaxFaults /\ faults' = faults + 1
Works  == UNCHANGED faults

\* History of a write: it is too late if there is a tombstone, and it happens
\* during every delete in progress.
NoteWrite ==
  /\ stray' = (stray \/ tomb.there)
  /\ dirty' = [t \in Threads |-> dirty[t] \/ step[t] \in DeleteSteps]

-----------------------------------------------------------------------------
\* The conversation has a transcript, a summary, both or neither; it is not
\* shared and nothing was purged.
Init ==
  /\ \E ended \in BOOLEAN, web \in {{}, {"header"}, {"header", "message"}} :
       /\ rows   = web \cup (IF ended THEN {"session", "facts"} ELSE {})
       /\ points = IF ended THEN {"own"} ELSE {}
       /\ node   = ended
  /\ tomb   = NoTomb
  /\ jobs   = [j \in Jobs |-> [status |-> "none", tries |-> 0]]
  /\ fired  = FALSE
  /\ step   = [p \in Procs |-> "idle"]
  /\ job    = [h \in Handlers |-> 0]
  /\ res    = [p \in Purgers |-> NoResult]
  /\ calls = 0 /\ faults = 0
  /\ due    = [p \in Procs |-> {}]
  /\ dirty  = [t \in Threads |-> FALSE]
  /\ stray  = FALSE
  /\ spoilt = FALSE

\* A thread takes up a request whose first step is s.
Request(t, s) ==
  /\ At(t, "idle")
  /\ calls < MaxCalls
  /\ calls' = calls + 1
  /\ Begins(t, s)
  /\ UNCHANGED <<stores, tomb, queue, res, faults, dirty, stray, spoilt>>

(***************************************************************************)
(* Transcript requests.                                                    *)
(***************************************************************************)
\* is_conversation_purged() first: a purged conversation answers 404.
CheckTranscript(t, s, ok) ==
  /\ At(t, s)
  /\ Goto(t, IF tomb.there THEN "idle" ELSE ok)
  /\ UNCHANGED <<stores, tomb, queue, res, counts, history>>

WriteHeader(t) ==
  /\ At(t, "header")
  /\ rows' = rows \cup {"header"}
  /\ Goto(t, "idle")
  /\ NoteWrite
  /\ UNCHANGED <<points, node, tomb, queue, res, counts, spoilt>>

CheckOwned(t) ==
  /\ At(t, "owned")
  /\ Goto(t, IF "header" \in rows THEN "message" ELSE "idle")
  /\ UNCHANGED <<stores, tomb, queue, res, counts, history>>

\* The foreign key refuses a message whose conversation row is gone.
WriteMessage(t) ==
  /\ At(t, "message")
  /\ Goto(t, "idle")
  /\ IF "header" \in rows
     THEN rows' = rows \cup {"message"} /\ NoteWrite
     ELSE UNCHANGED <<rows, dirty, stray>>
  /\ UNCHANGED <<points, node, tomb, queue, res, counts, spoilt>>

Transcript(t) ==
  \/ CheckTranscript(t, "put", "header")
  \/ WriteHeader(t)
  \/ CheckTranscript(t, "append", "owned")
  \/ CheckOwned(t)
  \/ WriteMessage(t)

(***************************************************************************)
(* The household copy. The point is written before the row and erased      *)
(* after it.                                                               *)
(***************************************************************************)
\* The routes fetch the caller's personal row first.
FetchSource(t, s, ok) ==
  /\ At(t, s)
  /\ Goto(t, IF "session" \in rows THEN ok ELSE "idle")
  /\ UNCHANGED <<stores, tomb, queue, res, counts, history>>

\* Without an embedding the point is skipped; when the upsert raises the
\* request ends in 502.
SharePoint(t) ==
  /\ At(t, "sharedPoint")
  /\ \/ /\ points' = points \cup {"shared"}
        /\ Works /\ NoteWrite
        /\ Goto(t, "sharedRow")
     \/ /\ Raises /\ Goto(t, "sharedRow")
        /\ UNCHANGED <<points, dirty, stray>>
     \/ /\ Raises /\ Goto(t, "idle")
        /\ UNCHANGED <<points, dirty, stray>>
  /\ UNCHANGED <<rows, node, tomb, queue, res, calls, spoilt>>

AfterShareFailsKeepsPoint == "idle"
AfterShareFails == "undo"

\* published_from refers to the sessions row; a failed INSERT is compensated.
ShareRow(t) ==
  /\ At(t, "sharedRow")
  /\ \/ /\ "session" \in rows
        /\ rows' = rows \cup {"shared"}
        /\ Works /\ NoteWrite
        /\ Goto(t, "idle")
     \/ /\ IF "session" \in rows THEN Raises ELSE Works
        /\ Goto(t, AfterShareFails)
        /\ UNCHANGED <<rows, dirty, stray>>
  /\ UNCHANGED <<points, node, tomb, queue, res, calls, spoilt>>

\* _qdrant_delete_safe(): best effort.
ErasePoint(t, s) ==
  /\ At(t, s)
  /\ Goto(t, "idle")
  /\ \/ /\ points' = points \ {"shared"}
        /\ Works
        /\ UNCHANGED spoilt
     \/ /\ Raises
        /\ spoilt' = TRUE
        /\ UNCHANGED points
  /\ UNCHANGED <<rows, node, tomb, queue, res, calls, dirty, stray>>

DropRow(t) ==
  /\ At(t, "dropRow")
  /\ rows' = rows \ {"shared"}
  /\ Goto(t, "dropPoint")
  /\ UNCHANGED <<points, node, tomb, queue, res, counts, history>>

Share(t) ==
  \/ FetchSource(t, "publish", "sharedPoint")
  \/ SharePoint(t)
  \/ ShareRow(t)
  \/ ErasePoint(t, "undo")
  \/ FetchSource(t, "unpublish", "dropRow")
  \/ DropRow(t)
  \/ ErasePoint(t, "dropPoint")

(***************************************************************************)
(* The hard delete.                                                        *)
(***************************************************************************)
\* The request is over: its locals, and the history that belongs to it.
Forget(t) ==
  /\ res'   = [res EXCEPT ![t] = NoResult]
  /\ dirty' = [dirty EXCEPT ![t] = FALSE]

\* conversation_purge_target_exists(); otherwise 404.
RequestDelete(t) ==
  /\ At(t, "idle")
  /\ calls < MaxCalls
  /\ rows \cap {"session", "header"} # {} \/ tomb.there
  /\ calls' = calls + 1
  /\ Goto(t, "look")
  /\ UNCHANGED <<stores, tomb, queue, res, faults, history>>

\* Without a sessions row and without a tombstone nothing is done.
Look(t) ==
  /\ At(t, "look")
  /\ res' = [res EXCEPT ![t].ses = ("session" \in rows)]
  /\ Goto(t, IF "session" \in rows \/ tomb.there THEN "arm" ELSE "reply")
  /\ UNCHANGED <<stores, tomb, queue, counts, history>>

WebRows == {"header", "message"}
ErasableWithSession(r) == IF r.ses THEN Erased ELSE {}
Erasable(r) == IF r.ses THEN Erased ELSE WebRows

\* One transaction, which inserts the tombstone when a sessions row was found.
Arm(t) ==
  /\ At(t, "arm")
  /\ \/ /\ Works
        /\ rows' = rows \ Erasable(res[t])
        /\ tomb' = [tomb EXCEPT !.there = @ \/ res[t].ses]
        /\ res'  = [res EXCEPT ![t].pg = TRUE]
        /\ IF res[t].ses THEN Purges(t, "cancel") ELSE Goto(t, "cancel")
     \/ /\ Raises
        /\ Goto(t, "reply")
        /\ UNCHANGED <<rows, tomb, res>>
  /\ UNCHANGED <<points, node, queue, calls, history>>

\* cancel_pending_session_end_jobs(); an error here ends the request in 500.
Cancel(t) ==
  /\ At(t, "cancel")
  /\ \/ /\ Works
        /\ jobs' = [j \in Jobs |-> IF jobs[j].status = "pending"
                                   THEN [jobs[j] EXCEPT !.status = "dead"] ELSE jobs[j]]
        /\ Goto(t, "qdrant")
        /\ UNCHANGED <<res, dirty, spoilt>>
     \/ /\ Raises
        /\ Goto(t, "idle")
        /\ Forget(t)
        /\ spoilt' = TRUE
        /\ UNCHANGED jobs
  /\ UNCHANGED <<stores, tomb, fired, job, calls, stray>>

\* The three deletes of the vector store arm, tried three times. The sweeper
\* skips an arm that its tombstone row says is done.
QdrantNeverSwept(p) == p = Sweeper
QdrantSkips(p) == p = Sweeper /\ res[p].q
GraphSkips(p)  == p = Sweeper /\ res[p].g

QdrantArm(p) ==
  /\ At(p, "qdrant")
  /\ Goto(p, "graph")
  /\ IF QdrantSkips(p)
     THEN Works /\ UNCHANGED <<points, res, spoilt>>
     ELSE \/ /\ Works
             /\ points' = {}
             /\ res' = [res EXCEPT ![p].q = TRUE]
             /\ UNCHANGED spoilt
          \/ /\ Raises
             /\ points' \in SUBSET points
             /\ spoilt' = TRUE
             /\ UNCHANGED res
  /\ UNCHANGED <<rows, node, tomb, queue, calls, dirty, stray>>

GraphArm(p) ==
  /\ At(p, "graph")
  /\ Goto(p, "mark")
  /\ IF GraphSkips(p)
     THEN Works /\ UNCHANGED <<node, res>>
     ELSE \/ /\ Works
             /\ node' = FALSE
             /\ res' = [res EXCEPT ![p].g = TRUE]
          \/ /\ Raises
             /\ UNCHANGED <<node, res>>
  /\ UNCHANGED <<rows, points, tomb, queue, calls, history>>

MarkedAsDone(r) == [tomb EXCEPT !.q = TRUE, !.g = TRUE, !.resolved = TRUE]

\* The outcome of the arms; resolved_at is set when both succeeded and is
\* never cleared.
Marked(r) == [tomb EXCEPT !.q = r.q, !.g = r.g, !.resolved = @ \/ ~Partial(r)]

\* _tombstone_update(): an error is logged and the request answers.
Mark(t) ==
  /\ At(t, "mark")
  /\ Goto(t, "reply")
  /\ \/ Works /\ tomb' = Marked(res[t])
     \/ Raises /\ UNCHANGED tomb
  /\ UNCHANGED <<stores, queue, res, calls, history>>

\* The answer: deleted = true, partial = Partial(res[t]).
Reply(t) ==
  /\ At(t, "reply")
  /\ Goto(t, "idle")
  /\ Forget(t)
  /\ UNCHANGED <<stores, tomb, queue, counts, stray, spoilt>>

Delete(t) == Look(t) \/ Arm(t) \/ Cancel(t) \/ Mark(t) \/ Reply(t)

(***************************************************************************)
(* The sweeper.                                                            *)
(***************************************************************************)
SweepReach == tomb.there /\ ~tomb.resolved /\ tomb.sweeps < MaxSweeps

\* sweep_partial_purges() reads the row; _sweep_one() works from that copy.
StartSweep ==
  /\ At(Sweeper, "idle")
  /\ SweepReach
  /\ res' = [res EXCEPT ![Sweeper] = [ses |-> FALSE, pg |-> TRUE, q |-> tomb.q, g |-> tomb.g]]
  /\ Goto(Sweeper, "qdrant")
  /\ UNCHANGED <<stores, tomb, queue, counts, history>>

\* An error of the UPDATE is logged by the pass: the attempt is not counted.
EndSweep ==
  /\ At(Sweeper, "mark")
  /\ Goto(Sweeper, "idle")
  /\ \/ Works /\ tomb' = [Marked(res[Sweeper]) EXCEPT !.sweeps = @ + 1]
     \/ Raises /\ UNCHANGED tomb
  /\ res' = [res EXCEPT ![Sweeper] = NoResult]
  /\ UNCHANGED <<stores, queue, calls, history>>

(***************************************************************************)
(* session_end jobs.                                                       *)
(***************************************************************************)
\* POST /session/end
Enqueue(j) ==
  /\ jobs[j].status = "none"
  /\ \A i \in 1 .. (j - 1) : jobs[i].status # "none"
  /\ calls < MaxCalls
  /\ calls' = calls + 1
  /\ jobs' = [jobs EXCEPT ![j].status = "pending"]
  /\ UNCHANGED <<stores, tomb, fired, job, step, due, res, faults, history>>

Claim(h, j) ==
  /\ At(h, "idle")
  /\ jobs[j].status = "pending"
  /\ jobs' = [jobs EXCEPT ![j].status = "running"]
  /\ job'  = [job EXCEPT ![h] = j]
  /\ Begins(h, "start")
  /\ UNCHANGED <<stores, tomb, fired, res, counts, dirty, stray, spoilt>>

\* reset_stuck(): the execution may still be going on.
ResetStuck(j) ==
  /\ jobs[j].status = "running"
  /\ jobs' = [jobs EXCEPT ![j] =
                IF @.tries < MaxTries
                THEN [status |-> "pending", tries |-> @.tries + 1]
                ELSE [@ EXCEPT !.status = "dead"]]
  /\ UNCHANGED <<stores, tomb, fired, job, step, due, res, counts, history>>

\* The handler is done: complete() sets the status whatever it is by now.
JobDone(h) ==
  /\ jobs' = [jobs EXCEPT ![job[h]].status = "done"]
  /\ job'  = [job EXCEPT ![h] = 0]
  /\ Goto(h, "idle")

\* The handler raised: fail() touches a job that is still running.
JobFails(h) ==
  /\ Raises
  /\ jobs' = [jobs EXCEPT ![job[h]] =
                IF @.status # "running" THEN @
                ELSE [status |-> IF @.tries + 1 < MaxTries THEN "pending" ELSE "dead",
                      tries  |-> @.tries + 1]]
  /\ job'  = [job EXCEPT ![h] = 0]
  /\ Goto(h, "idle")

\* The handler starts with is_conversation_purged().
Begin(h) ==
  /\ At(h, "start")
  /\ IF tomb.there THEN JobDone(h) ELSE Goto(h, "facts") /\ UNCHANGED <<jobs, job>>
  /\ UNCHANGED <<stores, tomb, fired, res, counts, history>>

\* summarize_session(), extract_entities() and store_entities(): long calls,
\* and no second look at the tombstone before the entities are stored.
StoreFacts(h) ==
  /\ At(h, "facts")
  /\ \/ /\ rows' = rows \cup {"facts"}
        /\ Works /\ NoteWrite
        /\ Goto(h, "recheck")
        /\ UNCHANGED <<jobs, job>>
     \/ JobFails(h) /\ UNCHANGED <<rows, dirty, stray>>
  /\ UNCHANGED <<points, node, tomb, fired, res, calls, spoilt>>

RecheckSkipped(h) ==
  /\ At(h, "recheck")
  /\ Goto(h, "point")
  /\ UNCHANGED <<stores, tomb, queue, res, counts, history>>

\* store_session() looks at the tombstone, once, before it embeds.
Recheck(h) ==
  /\ At(h, "recheck")
  /\ Goto(h, IF tomb.there THEN "hook" ELSE "point")
  /\ UNCHANGED <<stores, tomb, queue, res, counts, history>>

StorePoint(h) ==
  /\ At(h, "point")
  /\ \/ /\ points' = points \cup {"own"}
        /\ Works /\ NoteWrite
        /\ Goto(h, "session")
        /\ UNCHANGED <<jobs, job>>
     \/ JobFails(h) /\ UNCHANGED <<points, dirty, stray>>
  /\ UNCHANGED <<rows, node, tomb, fired, res, calls, spoilt>>

\* An error of the INSERT is logged and swallowed.
StoreSession(h) ==
  /\ At(h, "session")
  /\ Goto(h, "hook")
  /\ \/ rows' = rows \cup {"session"} /\ Works /\ NoteWrite
     \/ Raises /\ UNCHANGED <<rows, dirty, stray>>
  /\ UNCHANGED <<points, node, tomb, queue, res, calls, spoilt>>

\* fire_background(SESSION_ENDED), stored or not; then the job is complete.
FireHook(h) ==
  /\ At(h, "hook")
  /\ fired' = TRUE
  /\ JobDone(h)
  /\ UNCHANGED <<stores, tomb, res, counts, history>>

\* The graph callback runs in the hook executor.
GraphCallback ==
  /\ fired
  /\ fired' = FALSE
  /\ node' = TRUE
  /\ NoteWrite
  /\ UNCHANGED <<rows, points, tomb, jobs, job, step, due, res, counts, spoilt>>

Handle(h) == Begin(h) \/ StoreFacts(h) \/ Recheck(h) \/ StorePoint(h)
             \/ StoreSession(h) \/ FireHook(h)

\* The process dies; its jobs stay running until they are reset.
Crash ==
  /\ Raises
  /\ step'   = [p \in Procs |-> "idle"]
  /\ job'    = [h \in Handlers |-> 0]
  /\ res'    = [p \in Purgers |-> NoResult]
  /\ fired'  = FALSE
  /\ due'    = [p \in Procs |-> {}]
  /\ dirty'  = [t \in Threads |-> FALSE]
  /\ spoilt' = TRUE
  /\ UNCHANGED <<stores, tomb, jobs, calls, stray>>

-----------------------------------------------------------------------------
\* What a process does once it has started.
Work(p) ==
  \/ p \in Threads /\ (Transcript(p) \/ Share(p) \/ Delete(p))
  \/ p = Sweeper /\ EndSweep
  \/ p \in Purgers /\ (QdrantArm(p) \/ GraphArm(p))
  \/ p \in Handlers /\ Handle(p)

Next ==
  \/ \E t \in Threads : RequestDelete(t) \/ \E s \in Requests : Request(t, s)
  \/ \E p \in Procs : Work(p)
  \/ StartSweep
  \/ \E j \in Jobs : Enqueue(j) \/ ResetStuck(j) \/ \E h \in Handlers : Claim(h, j)
  \/ GraphCallback
  \/ Crash

Spec == Init /\ [][Next]_vars

\* Calls return or raise, and the scheduler starts a sweep every five minutes.
Fairness == (\A p \in Procs : WF_vars(Work(p))) /\ WF_vars(StartSweep)
FairSpec == Spec /\ Fairness

-----------------------------------------------------------------------------
\* Types and ranges.
TypeOK ==
  /\ rows \subseteq AllRows
  /\ points \subseteq Points
  /\ node \in BOOLEAN
  /\ tomb \in [there : BOOLEAN, q : BOOLEAN, g : BOOLEAN, resolved : BOOLEAN,
               sweeps : 0 .. MaxSweeps]
  /\ jobs \in [Jobs -> [status : {"none", "pending", "running", "done", "dead"},
                        tries : 0 .. MaxTries + 1]]
  /\ fired \in BOOLEAN
  /\ step \in [Procs -> ThreadSteps \cup DeleteSteps \cup JobSteps \cup {"idle"}]
  /\ \A h \in Handlers : step[h] \in JobSteps \cup {"idle"}
  /\ \A t \in Threads : step[t] \in ThreadSteps \cup DeleteSteps \cup {"idle"}
  /\ step[Sweeper] \in SweepSteps \cup {"idle"}
  /\ job \in [Handlers -> 0 .. MaxJobs]
  /\ \A h \in Handlers : step[h] # "idle" => job[h] \in Jobs
  /\ res \in [Purgers -> [ses : BOOLEAN, pg : BOOLEAN, q : BOOLEAN, g : BOOLEAN]]
  /\ calls \in 0 .. MaxCalls /\ faults \in 0 .. MaxFaults
  /\ due \in [Procs -> SUBSET {"transcript", "start", "store"}]
  /\ dirty \in [Threads -> BOOLEAN]
  /\ stray \in BOOLEAN /\ spoilt \in BOOLEAN

(***************************************************************************)
(* Writers. A writer that had not passed its last check when the tombstone *)
(* was committed, or began later, never stores a row or a point of the     *)
(* conversation, whichever way its job came back (retried, reset by the    *)
(* sweeper of the queue, enqueued after the purge).                        *)
(***************************************************************************)
NoLateWriter ==
  \A p \in Procs :
    /\ At(p, "facts") => "start" \notin due[p]
    /\ step[p] \in {"point", "session"} => due[p] \cap {"start", "store"} = {}
    /\ step[p] \in {"header", "owned", "message"} => "transcript" \notin due[p]

\* As long as nothing was written after the tombstone, the rows are gone for
\* good, and the tombstone never claims that a store is clean when it is not,
\* whatever failed, crashed, was retried or was swept meanwhile.
TombstoneIsTrue ==
  tomb.there /\ ~stray =>
    /\ rows \subseteq {"facts"}
    /\ tomb.q => points = {}
    /\ tomb.g => ~node

NothingLeft == rows \subseteq {"facts"} /\ points = {} /\ ~node

\* A delete that ran its transaction and answers without partial leaves nothing
\* of the conversation, if nothing was written while it ran: a repeated delete
\* also erases what late writers had brought back.
HonestDelete ==
  \A t \in Threads :
    At(t, "reply") /\ res[t].pg /\ ~Partial(res[t]) /\ ~dirty[t] => NothingLeft

\* The household never keeps a copy of a summary that is not shared: the point
\* is without its row only while a publish, an unpublish or a purge is under
\* way, unless one of their clean-ups failed or was cut off.
NoOrphanShare ==
  "shared" \in points /\ "shared" \notin rows /\ ~spoilt =>
    \E t \in Threads : step[t] \in {"sharedRow", "undo", "dropPoint", "cancel", "qdrant"}

\* Every purge that committed is resolved in the end, although the request may
\* crash after its transaction and calls may raise, as long as they do so less
\* often than the sweeper tries.
EveryPurgeResolves == tomb.there ~> tomb.resolved
==============================================================================
