----------------------------- MODULE BatchQueue -----------------------------
(***************************************************************************)
(* The durable per-user job queue of the orchestrator                      *)
(* (services/batch_queue.py, services/ingest_progress.py and the scheduler *)
(* wiring in main.py): rows of the table user_batch_jobs, the worker loop  *)
(* that claims and runs them, the stuck-job sweeper that runs in another   *)
(* thread, the request handlers that enqueue and cancel jobs, and process  *)
(* crashes followed by the start-up reclaim.                               *)
(*                                                                         *)
(* Every SQL statement runs in autocommit, so one statement is one step;   *)
(* what the Python code keeps in local variables between two statements is *)
(* the worker's state (pc, hold, seen).                                    *)
(***************************************************************************)
EXTENDS Naturals, FiniteSets

CONSTANTS NumJobs,        \* bound: jobs enqueued in one behaviour
          Users,          \* owners of jobs
          Kinds,          \* kinds of jobs, a subset of AllKinds
          Workers,        \* worker loops; the deployment runs one
          MaxAttempts,    \* BATCH_QUEUE_MAX_ATTEMPTS
          MaxConcurrent,  \* BATCH_QUEUE_PER_USER_MAX_CONCURRENT
          MaxCrashes      \* bound: process crashes in one behaviour

\* The kinds the queue itself tells apart; share_document stands for
\* unshare_document too, session_end is the only kind a purge cancels.
IngestKinds == {"ingest_upload", "ingest_watch_file"}
AllKinds    == IngestKinds \cup {"share_document", "session_end"}

ASSUME QueueAssumption ==
  /\ NumJobs \in Nat
  /\ Kinds \subseteq AllKinds
  /\ MaxAttempts \in Nat \ {0}
  /\ MaxConcurrent \in Nat \ {0}
  /\ MaxCrashes \in Nat

Jobs  == 1 .. NumJobs      \* BIGSERIAL ids, in the order of the inserts
NoJob == 0

Statuses == {"absent", "pending", "running", "done", "dead"}
Stages   == {"none", "queued", "working", "partial", "done", "failed"}
Phases   == {"idle", "claiming", "handling", "marking", "completing",
             "failing", "recording", "reporting"}

VARIABLES
  \* the table user_batch_jobs, one function per column
  status, owner, kind, attempt,
  due,        \* run_after <= NOW()
  aged,       \* started_at < NOW() - stuck_after
  stage,      \* progress_stage
  \* the orchestrator process
  service,    \* "up", "down", or "boot": between the two start-up statements
  pc, hold,   \* what each worker loop is doing, and the job it has in hand
  seen,       \* new_attempt, computed by fail() from its SELECT
  sweep,      \* the sweeper is between its two statements
  announcing, \* jobs inserted whose request has yet to write stage "queued"
  crashes,
  \* history
  starts,     \* times each job was claimed
  returned    \* jobs of which an execution of the handler returned

table   == <<status, owner, kind, attempt, due, aged, stage>>
process == <<service, pc, hold, seen, sweep, announcing, crashes>>
history == <<starts, returned>>
vars    == <<table, process, history>>

-----------------------------------------------------------------------------
\* _INGEST_JOB_KINDS
HasProgress(j) == kind[j] \in IngestKinds \cup {"share_document"}

RunningOf(u) == {j \in Jobs : status[j] = "running" /\ owner[j] = u}

\* The row is locked by a claim statement that has selected it.
Locked(j) == \E w \in Workers : pc[w] = "claiming" /\ hold[w] = j

UnderCap(u) == Cardinality(RunningOf(u)) < MaxConcurrent

Eligible(j) == /\ status[j] = "pending"
               /\ due[j]
               /\ UnderCap(owner[j])
               /\ ~Locked(j)

Goto(w, p) == pc' = [pc EXCEPT ![w] = p]

\* The worker returns to the top of the drain loop.
Release(w) == /\ pc'   = [pc EXCEPT ![w] = "idle"]
              /\ hold' = [hold EXCEPT ![w] = NoJob]
              /\ seen' = [seen EXCEPT ![w] = 0]

SetStage(j, s) == stage' = [stage EXCEPT ![j] = s]

\* Stages a handler of each kind reports while it runs.
HandlerStages(k) == CASE k \in IngestKinds      -> {"working"}
                      [] k = "share_document"   -> {"working", "partial", "done"}
                      [] OTHER                  -> {}

\* The tick marks the stage of ingest jobs before it completes the row; share
\* handlers have written their own last stage.
AfterHandlerNoMark(k) == "completing"
AfterHandler(k) == IF k \in IngestKinds THEN "marking" ELSE "completing"

\* attempt + 1 < max_attempts decides between a retry and giving up.
Spent(n) == n >= MaxAttempts

\* WHERE ... AND status = 'running' of the UPDATE of fail().
StillRunning(j) == status[j] = "running"

-----------------------------------------------------------------------------
Init ==
  /\ status  = [j \in Jobs |-> "absent"]
  /\ owner   \in [Jobs -> Users]
  /\ kind    \in [Jobs -> Kinds]
  /\ attempt = [j \in Jobs |-> 0]
  /\ due     = [j \in Jobs |-> FALSE]
  /\ aged    = [j \in Jobs |-> FALSE]
  /\ stage   = [j \in Jobs |-> "none"]
  /\ service = "up"
  /\ pc      = [w \in Workers |-> "idle"]
  /\ hold    = [w \in Workers |-> NoJob]
  /\ seen    = [w \in Workers |-> 0]
  /\ sweep   = FALSE
  /\ announcing = {}
  /\ crashes = 0
  /\ starts  = [j \in Jobs |-> 0]
  /\ returned = {}

(***************************************************************************)
(* Requests.                                                               *)
(***************************************************************************)
\* enqueue(): the owner and the kind of the row to come were chosen in Init.
\* A request that shows progress goes on to write stage "queued"; the folder
\* watcher does not.
Enqueue(j) ==
  /\ service = "up"
  /\ status[j] = "absent"
  /\ \A i \in 1 .. (j - 1) : status[i] # "absent"
  /\ status' = [status EXCEPT ![j] = "pending"]
  /\ due'    = [due EXCEPT ![j] = TRUE]
  /\ \/ HasProgress(j) /\ announcing' = announcing \cup {j}
     \/ kind[j] \in {"ingest_watch_file", "session_end"} /\ UNCHANGED announcing
  /\ UNCHANGED <<owner, kind, attempt, aged, stage, history,
                 service, pc, hold, seen, sweep, crashes>>

Announce(j) ==
  /\ service = "up"
  /\ j \in announcing
  /\ ~Locked(j)
  /\ announcing' = announcing \ {j}
  /\ SetStage(j, "queued")
  /\ UNCHANGED <<status, owner, kind, attempt, due, aged, history,
                 service, pc, hold, seen, sweep, crashes>>

\* cancel_pending_session_end_jobs(): one UPDATE over the pending session_end
\* rows of a conversation; a user stands for one conversation of theirs.
CancelledAnyStatus(u) ==
  {j \in Jobs : owner[j] = u /\ kind[j] = "session_end" /\ status[j] # "absent"}

Cancelled(u) ==
  {j \in Jobs : owner[j] = u /\ kind[j] = "session_end" /\ status[j] = "pending"}

CancelPending(u) ==
  LET hit == Cancelled(u)
  IN  /\ service = "up"
      /\ hit # {}
      /\ \A j \in hit : ~Locked(j)
      /\ status' = [j \in Jobs |-> IF j \in hit THEN "dead" ELSE status[j]]
      /\ UNCHANGED <<owner, kind, attempt, due, aged, stage, process, history>>

(***************************************************************************)
(* The worker loop: _run_one_tick() under _batch_tick().                   *)
(***************************************************************************)
\* claim_next(): the SELECT ... FOR UPDATE SKIP LOCKED of the claim statement.
\* The running count is read from the statement's snapshot, so two workers
\* may both pass it before either has written.
ClaimPick(w) ==
  /\ service = "up"
  /\ pc[w] = "idle"
  /\ \E j \in Jobs :
       /\ Eligible(j)
       /\ \A i \in Jobs : Eligible(i) => j <= i
       /\ hold' = [hold EXCEPT ![w] = j]
  /\ Goto(w, "claiming")
  /\ UNCHANGED <<table, history, service, seen, sweep, announcing, crashes>>

\* The UPDATE of the claim statement, and the dispatch of the handler.
ClaimCommit(w) ==
  LET j == hold[w] IN
  /\ pc[w] = "claiming"
  /\ status' = [status EXCEPT ![j] = "running"]
  /\ aged'   = [aged EXCEPT ![j] = FALSE]
  /\ starts' = [starts EXCEPT ![j] = @ + 1]
  /\ Goto(w, "handling")
  /\ UNCHANGED <<owner, kind, attempt, due, stage, returned,
                 service, hold, seen, sweep, announcing, crashes>>

\* on_progress(): keyed by the id of the job only.
HandlerReports(w) ==
  LET j == hold[w] IN
  /\ pc[w] = "handling"
  /\ ~Locked(j)
  /\ \E s \in HandlerStages(kind[j]) : SetStage(j, s)
  /\ UNCHANGED <<status, owner, kind, attempt, due, aged, process, history>>

HandlerReturns(w) ==
  /\ pc[w] = "handling"
  /\ returned' = returned \cup {hold[w]}
  /\ Goto(w, AfterHandler(kind[hold[w]]))
  /\ UNCHANGED <<table, starts, service, hold, seen, sweep, announcing, crashes>>

\* The handler, or the validation of its payload, raises; or the kind has no
\* handler any more.
HandlerRaisesSwallowed(w) ==
  /\ pc[w] = "handling"
  /\ Goto(w, "completing")
  /\ UNCHANGED <<table, history, service, hold, seen, sweep, announcing, crashes>>

HandlerRaises(w) ==
  /\ pc[w] = "handling"
  /\ Goto(w, "failing")
  /\ UNCHANGED <<table, history, service, hold, seen, sweep, announcing, crashes>>

\* mark_ingest_job_done()
MarkDone(w) ==
  LET j == hold[w] IN
  /\ pc[w] = "marking"
  /\ ~Locked(j)
  /\ SetStage(j, "done")
  /\ Goto(w, "completing")
  /\ UNCHANGED <<status, owner, kind, attempt, due, aged, history,
                 service, hold, seen, sweep, announcing, crashes>>

\* complete(): no condition on the status of the row.
Complete(w) ==
  LET j == hold[w] IN
  /\ pc[w] = "completing"
  /\ ~Locked(j)
  /\ status' = [status EXCEPT ![j] = "done"]
  /\ Release(w)
  /\ UNCHANGED <<owner, kind, attempt, due, aged, stage, history,
                 service, sweep, announcing, crashes>>

\* mark_ingest_job_done() or complete() raises inside the try block.
ReportingRaises(w) ==
  /\ pc[w] \in {"marking", "completing"}
  /\ Goto(w, "failing")
  /\ UNCHANGED <<table, history, service, hold, seen, sweep, announcing, crashes>>

\* fail(): its SELECT of the running row ...
FailSelect(w) ==
  LET j == hold[w] IN
  /\ pc[w] = "failing"
  /\ IF status[j] = "running"
     THEN /\ seen' = [seen EXCEPT ![w] = attempt[j] + 1]
          /\ Goto(w, "recording")
          /\ UNCHANGED hold
     ELSE Release(w)
  /\ UNCHANGED <<table, history, service, sweep, announcing, crashes>>

\* ... its UPDATE, which again requires a running row ...
FailUpdate(w) ==
  LET j     == hold[w]
      spent == Spent(attempt[j] + 1)
  IN
  /\ pc[w] = "recording"
  /\ ~Locked(j)
  /\ IF StillRunning(j)
     THEN /\ status'  = [status EXCEPT ![j] = IF spent THEN "dead" ELSE "pending"]
          /\ attempt' = [attempt EXCEPT ![j] = @ + 1]
          /\ due'     = [due EXCEPT ![j] = spent]
          /\ aged'    = [aged EXCEPT ![j] = FALSE]
     ELSE UNCHANGED <<status, attempt, due, aged>>
  /\ IF HasProgress(j)
     THEN Goto(w, "reporting") /\ UNCHANGED <<hold, seen>>
     ELSE Release(w)
  /\ UNCHANGED <<owner, kind, stage, history, service, sweep, announcing, crashes>>

\* ... and maybe_handle_ingest_job_failure(), from the attempt it had read.
FailReport(w) ==
  LET j == hold[w] IN
  /\ pc[w] = "reporting"
  /\ ~Locked(j)
  /\ SetStage(j, IF Spent(seen[w]) THEN "failed" ELSE "queued")
  /\ Release(w)
  /\ UNCHANGED <<status, owner, kind, attempt, due, aged, history,
                 service, sweep, announcing, crashes>>

\* The claim or a statement of fail() raises: _batch_tick() logs it and the
\* row stays as it is.
TickRaises(w) ==
  /\ pc[w] \in {"claiming", "failing", "recording", "reporting"}
  /\ Release(w)
  /\ UNCHANGED <<table, history, service, sweep, announcing, crashes>>

(***************************************************************************)
(* The sweeper, restarts, and time.                                        *)
(***************************************************************************)
\* The two statements of reset_stuck() over the rows of a set.
ResetPendingFree(rows) ==
  LET hit == {j \in rows : status[j] = "running" /\ attempt[j] < MaxAttempts}
  IN  /\ status'  = [j \in Jobs |-> IF j \in hit THEN "pending" ELSE status[j]]
      /\ aged'    = [j \in Jobs |-> aged[j] /\ j \notin hit]
      /\ UNCHANGED <<owner, kind, attempt, due, stage>>

ResetPending(rows) ==
  LET hit == {j \in rows : status[j] = "running" /\ attempt[j] < MaxAttempts}
  IN  /\ status'  = [j \in Jobs |-> IF j \in hit THEN "pending" ELSE status[j]]
      /\ attempt' = [j \in Jobs |-> IF j \in hit THEN attempt[j] + 1 ELSE attempt[j]]
      /\ aged'    = [j \in Jobs |-> aged[j] /\ j \notin hit]
      /\ UNCHANGED <<owner, kind, due, stage>>

ResetDeadOffByOne(rows) ==
  LET hit == {j \in rows : status[j] = "running" /\ attempt[j] > MaxAttempts}
  IN  /\ status' = [j \in Jobs |-> IF j \in hit THEN "dead" ELSE status[j]]
      /\ UNCHANGED <<owner, kind, attempt, due, aged, stage>>

ResetDead(rows) ==
  LET hit == {j \in rows : status[j] = "running" /\ attempt[j] >= MaxAttempts}
  IN  /\ status' = [j \in Jobs |-> IF j \in hit THEN "dead" ELSE status[j]]
      /\ UNCHANGED <<owner, kind, attempt, due, aged, stage>>

AgedJobs == {j \in Jobs : aged[j]}

\* The periodic sweep is skipped here when no row is old enough: it would
\* change nothing.
SweepPending ==
  /\ service = "up"
  /\ ~sweep
  /\ \E j \in AgedJobs : status[j] = "running"
  /\ ResetPending(AgedJobs)
  /\ sweep' = TRUE
  /\ UNCHANGED <<history, service, pc, hold, seen, announcing, crashes>>

SweepDead ==
  /\ service = "up"
  /\ sweep
  /\ ResetDead(AgedJobs)
  /\ sweep' = FALSE
  /\ UNCHANGED <<history, service, pc, hold, seen, announcing, crashes>>

\* The process dies: threads and requests are lost, the table stays.
Crash ==
  /\ service # "down"
  /\ crashes < MaxCrashes
  /\ crashes' = crashes + 1
  /\ service' = "down"
  /\ pc'      = [w \in Workers |-> "idle"]
  /\ hold'    = [w \in Workers |-> NoJob]
  /\ seen'    = [w \in Workers |-> 0]
  /\ sweep'   = FALSE
  /\ announcing' = {}
  /\ UNCHANGED <<table, history>>

\* Start-up reclaim: reset_stuck(stuck_after_seconds=0) before the scheduler
\* runs any job. If it raises, the error is logged and start-up goes on.
BootPending ==
  /\ service = "down"
  /\ \/ ResetPending(Jobs) /\ service' = "boot"
     \/ UNCHANGED table /\ service' = "up"
  /\ UNCHANGED <<history, pc, hold, seen, sweep, announcing, crashes>>

BootDead ==
  /\ service = "boot"
  /\ ResetDead(Jobs)
  /\ service' = "up"
  /\ UNCHANGED <<history, pc, hold, seen, sweep, announcing, crashes>>

\* A running row gets older than BATCH_QUEUE_STUCK_AFTER_SECONDS.
Age(j) ==
  /\ status[j] = "running"
  /\ ~aged[j]
  /\ aged' = [aged EXCEPT ![j] = TRUE]
  /\ UNCHANGED <<status, owner, kind, attempt, due, stage, process, history>>

\* The backoff of a retried row has elapsed.
BackoffElapses(j) ==
  /\ status[j] = "pending"
  /\ ~due[j]
  /\ due' = [due EXCEPT ![j] = TRUE]
  /\ UNCHANGED <<status, owner, kind, attempt, aged, stage, process, history>>

-----------------------------------------------------------------------------
HandlerEnds(w) == HandlerReturns(w) \/ HandlerRaises(w)
FailStep(w)    == FailSelect(w) \/ FailUpdate(w) \/ FailReport(w)

Worker(w) ==
  \/ ClaimPick(w) \/ ClaimCommit(w)
  \/ HandlerReports(w) \/ HandlerEnds(w)
  \/ MarkDone(w) \/ Complete(w) \/ ReportingRaises(w)
  \/ FailStep(w) \/ TickRaises(w)

Next ==
  \/ \E j \in Jobs : Enqueue(j) \/ Announce(j) \/ Age(j) \/ BackoffElapses(j)
  \/ \E u \in Users : CancelPending(u)
  \/ \E w \in Workers : Worker(w)
  \/ SweepPending \/ SweepDead
  \/ Crash \/ BootPending \/ BootDead

Spec == Init /\ [][Next]_vars

\* The scheduler keeps running the tick and the sweep, handlers end, the
\* container restarts, and time passes; the database may fail any claim, but
\* not every claim of a loop for ever (hence SF).
Fairness ==
  /\ \A w \in Workers : /\ WF_vars(ClaimPick(w))
                        /\ SF_vars(ClaimCommit(w))
                        /\ WF_vars(HandlerEnds(w))
                        /\ WF_vars(MarkDone(w) \/ Complete(w) \/ FailStep(w))
  /\ WF_vars(SweepPending) /\ WF_vars(SweepDead)
  /\ WF_vars(BootPending) /\ WF_vars(BootDead)
  /\ \A j \in Jobs : WF_vars(Age(j)) /\ WF_vars(BackoffElapses(j))

FairSpec == Spec /\ Fairness

-----------------------------------------------------------------------------
(***************************************************************************)
(* Properties.                                                             *)
(***************************************************************************)
TypeOK ==
  /\ status  \in [Jobs -> Statuses]
  /\ owner   \in [Jobs -> Users]
  /\ kind    \in [Jobs -> Kinds]
  /\ attempt \in [Jobs -> 0 .. MaxAttempts + 1]
  /\ due     \in [Jobs -> BOOLEAN]
  /\ aged    \in [Jobs -> BOOLEAN]
  /\ stage   \in [Jobs -> Stages]
  /\ service \in {"up", "boot", "down"}
  /\ pc      \in [Workers -> Phases]
  /\ hold    \in [Workers -> Jobs \cup {NoJob}]
  /\ seen    \in [Workers -> Nat]
  /\ sweep   \in BOOLEAN
  /\ announcing \subseteq Jobs
  /\ crashes \in 0 .. MaxCrashes
  /\ starts  \in [Jobs -> Nat]
  /\ returned \subseteq Jobs

\* However claims, failures, sweeps, crashes and late completions interleave,
\* a job is claimed at most MaxAttempts + 1 times: the sweeper of
\* reset_stuck() compares attempt before it adds one, hence the extra claim.
ExecutionsBounded == \A j \in Jobs : starts[j] <= MaxAttempts + 1

\* fail() and reset_stuck() give a job up only after MaxAttempts claims of it;
\* only a session_end job dies sooner, by cancel_pending_session_end_jobs().
DeadOnlyWhenSpent ==
  \A j \in Jobs : status[j] = "dead" /\ kind[j] # "session_end"
                    => starts[j] >= MaxAttempts

\* complete() has no condition on the row, yet a row is done only if some
\* execution of its handler returned.
DoneWasReturned ==
  \A j \in Jobs : status[j] = "done" => j \in returned

\* A row that is done stays done, and neither a done, a dead nor a cancelled
\* job is claimed again, even when a sweep gave it back while it ran.
SettledIsFinal ==
  [][\A j \in Jobs :
       /\ status[j] = "done" => status'[j] = "done"
       /\ status[j] \in {"done", "dead"} => starts'[j] = starts[j]]_vars

\* mark_ingest_job_done() comes before complete(), so with one worker loop a
\* done ingest row never shows a stage of work or a failure; the late write
\* of "queued" by the request that enqueued it is the one stage it may show.
CompletedShowsDone ==
  \A j \in Jobs : status[j] = "done" /\ kind[j] \in IngestKinds
                    => stage[j] \in {"done", "queued"}

\* Every job that is enqueued ends done or dead, whatever is lost on the way:
\* rows orphaned by a failed statement or a crash are reclaimed by the sweep
\* or by start-up, and a user's cap never blocks the queue for good.
EveryJobSettles ==
  \A j \in Jobs : status[j] = "pending" ~> status[j] \in {"done", "dead"}

\* Every step of the queue is a step of the ledger: the promise to the code
\* that enqueues jobs (submitted once, started within its budget, done only
\* after an execution, given up only when spent or cancelled).
Ledger == INSTANCE JobLedger WITH
            phase <- status, runs <- starts,
            cancellable <- {j \in Jobs : kind[j] = "session_end"}

ImplementsLedger == Ledger!Spec
=============================================================================
