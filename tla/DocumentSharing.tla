-------------------------- MODULE DocumentSharing --------------------------
(***************************************************************************)
(* One document path of one owner, shared with the household and purged:   *)
(*   - the row of the document in file_index and its shared projection     *)
(*     row (services/projection.py, services/documents.py);                *)
(*   - its chunks in the vector store: the owner's, keyed by path and      *)
(*     index, and the shared copies, keyed by document and index;          *)
(*   - the batch worker, which runs share, unshare and ingest jobs one at  *)
(*     a time (services/batch_handlers, services/ingest.py);               *)
(*   - request threads: share and unshare requests that enqueue jobs, the  *)
(*     raw publish routes that project inline (routes/scope.py), the       *)
(*     purge with its tombstone (services/document_purge.py) and the       *)
(*     admin's unshare (services/admin_unshare.py);                        *)
(*   - the per-document advisory lock (services/share_lock.py).            *)
(*                                                                         *)
(* Every SQL statement and every call of the vector store is one step. An  *)
(* operation is the sequence of its steps (Program); what it holds in      *)
(* local variables is the record proc[p]. Entities of the document are the *)
(* subject of EntityCascade.                                               *)
(***************************************************************************)
EXTENDS Naturals, Sequences, FiniteSets

CONSTANTS MaxDocs,    \* bound: rows the path is given, one after the other
          Ix,         \* chunk indices
          Versions,   \* versions of the file on disk, positive numbers
          Chunks,     \* Chunks[v]: the indices of the chunks of version v
          Worker,     \* the batch worker loop
          Threads,    \* request threads
          Requests,   \* the requests that are made, a subset of AllRequests
          MaxJobs,    \* bound: jobs enqueued
          MaxTries,   \* BATCH_QUEUE_MAX_ATTEMPTS
          MaxCalls,   \* bound: requests other than those that only enqueue
          FaultAt,    \* the steps that may raise, a subset of Steps
          MaxFaults,  \* bound: raised errors
          MaxCrashes  \* bound: process crashes

Docs  == 1 .. MaxDocs    \* SERIAL ids
NoDoc == 0
Procs == Threads \cup {Worker}
Free  == "free"

JobKinds    == {"share", "unshare", "ingest"}
AllRequests == JobKinds \cup {"publish", "unpublish", "admin", "purge"}

\* The steps of each operation: for every step the one that follows it. Ingest
\* goes on with the re-projection of a document that is shared; repurge is a
\* purge that finds only a tombstone; enqueue is the step of a request thread
\* that has yet to insert the job.
Program ==
  [share     |-> [read |-> "lock", lock |-> "recheck", recheck |-> "insert",
                  insert |-> "clear", clear |-> "scroll", scroll |-> "upsert",
                  upsert |-> "unlock", unlock |-> "complete", complete |-> "idle",
                  enqueue |-> "idle"],
   unshare   |-> [read |-> "lock", lock |-> "recheck", recheck |-> "delete",
                  delete |-> "clear", clear |-> "unlock", unlock |-> "complete",
                  complete |-> "idle", enqueue |-> "idle"],
   ingest    |-> [hash |-> "wipe", wipe |-> "write", write |-> "index", index |-> "look",
                  look |-> "lock", lock |-> "clear", clear |-> "scroll", scroll |-> "upsert",
                  upsert |-> "unlock", unlock |-> "complete", complete |-> "idle"],
   publish   |-> [insert |-> "clear", clear |-> "scroll", scroll |-> "upsert",
                  upsert |-> "idle"],
   unpublish |-> [delete |-> "clear", clear |-> "idle"],
   admin     |-> [delete |-> "clear", clear |-> "verify", verify |-> "idle"],
   purge     |-> [lock |-> "remove", remove |-> "check", check |-> "sweep",
                  sweep |-> "clear", clear |-> "stamp", stamp |-> "unlock",
                  unlock |-> "idle"],
   repurge   |-> [lock |-> "check", check |-> "sweep", sweep |-> "clear",
                  clear |-> "stamp", stamp |-> "unlock", unlock |-> "idle"]]

Operations == DOMAIN Program
StepsOf(o) == DOMAIN Program[o]
Steps      == UNION {StepsOf(o) : o \in Operations}

\* The first step of a job, by its kind.
FirstStep(k) == IF k = "ingest" THEN "hash" ELSE "read"

ASSUME SharingAssumption ==
  /\ MaxDocs \in Nat \ {0}
  /\ Versions \subseteq Nat \ {0}
  /\ Chunks \in [Versions -> SUBSET Ix]
  /\ Worker \notin Threads
  /\ Free \notin Procs
  /\ Requests \subseteq AllRequests
  /\ FaultAt \subseteq Steps
  /\ {MaxJobs, MaxTries, MaxCalls, MaxFaults, MaxCrashes} \subseteq Nat

VARIABLES
  row,       \* the personal row of the path: its id (or NoDoc) and version
  shared,    \* documents with a shared projection row
  born,      \* ids given so far
  personal,  \* the owner's chunks of the path: the version of each, 0 if none
  mirror,    \* the shared chunks of each document, likewise
  tomb,      \* purged_documents, per document
  lock,      \* the advisory lock of each document
  jobs,      \* user_batch_jobs, in the order of the ids
  proc,      \* what each process is doing
  calls, faults, crashes,
  wanted     \* history: the last share or unshare request accepted

content == <<row, shared, born, personal, mirror, tomb>>
counts  == <<calls, faults, crashes>>
vars    == <<content, lock, jobs, proc, counts, wanted>>

-----------------------------------------------------------------------------
NoChunks == [i \in Ix |-> 0]
Whole(v) == [i \in Ix |-> IF i \in Chunks[v] THEN v ELSE 0]

Idle == [op |-> "none", pc |-> "idle", doc |-> NoDoc, ver |-> 0, job |-> 0,
         todo |-> NoChunks,   \* chunks scrolled or extracted, still to write
         clean |-> TRUE,      \* no chunk failed; in a purge, no arm failed
         path |-> TRUE]       \* in a purge, the path-wide delete is to run

At(p, s) == proc[p].pc = s

\* p goes to step s with its locals r; after the last step nothing is kept.
Goto(p, r, s) ==
  proc' = [proc EXCEPT ![p] = IF s = "idle" THEN Idle ELSE [r EXCEPT !.pc = s]]
Following(o, s) == Program[o][s]
Advance(p, r)   == Goto(p, r, Following(proc[p].op, proc[p].pc))
Continue(p)     == Advance(p, proc[p])

Start(p, o, s, d, v, j) ==
  proc' = [proc EXCEPT ![p] = [Idle EXCEPT !.op = o, !.pc = s,
                                           !.doc = d, !.ver = v, !.job = j]]

FreedBy(p) == [d \in Docs |-> IF lock[d] = p THEN Free ELSE lock[d]]

\* Postgres grants the advisory lock of a document to one session.
CanLockAlways(d) == TRUE
CanLock(d) == lock[d] = Free

\* Mutants: a job that fails is left running, or given up at once.
RetriedLeftRunning(job, t) == [job EXCEPT !.tries = @ + t]
RetriedAtOnce(job, t) == [job EXCEPT !.status = "dead", !.tries = @ + t]

Retried(job, t) ==
  IF job.tries + t < MaxTries
  THEN [job EXCEPT !.status = "pending", !.tries = @ + t, !.due = FALSE]
  ELSE [job EXCEPT !.status = "dead", !.tries = @ + t]

InFlight(d, kinds) ==
  {j \in DOMAIN jobs : /\ jobs[j].kind \in kinds
                       /\ jobs[j].doc = d
                       /\ jobs[j].status \in {"pending", "running"}}

\* An in-flight job of the same kind absorbs the request, when it is the most
\* recent of the share and unshare jobs of the document.
CoalescesAnyKind(d, k) == InFlight(d, {"share", "unshare"}) # {}
Coalesces(d, k) ==
  \E j \in InFlight(d, {k}) :
    \A i \in InFlight(d, {"share", "unshare"}) : i <= j

\* The bound on jobs, counting the requests that are about to enqueue one.
Room == Len(jobs) + Cardinality({t \in Threads : At(t, "enqueue")}) < MaxJobs

NewJob(k, d, v) == [kind |-> k, doc |-> d, ver |-> v,
                    status |-> "pending", tries |-> 0, due |-> TRUE]

-----------------------------------------------------------------------------
\* The path is new, or holds a document that is personal or already shared.
Init ==
  /\ \E d \in {NoDoc, 1}, v \in Versions, sh \in BOOLEAN :
       /\ row      = [id |-> d, ver |-> IF d = 1 THEN v ELSE 0]
       /\ born     = d
       /\ personal = IF d = 1 THEN Whole(v) ELSE NoChunks
       /\ shared   = IF d = 1 /\ sh THEN {1} ELSE {}
       /\ mirror   = [c \in Docs |-> IF c \in shared THEN Whole(v) ELSE NoChunks]
  /\ tomb    = [d \in Docs |-> "none"]
  /\ lock    = [d \in Docs |-> Free]
  /\ jobs    = <<>>
  /\ proc    = [p \in Procs |-> Idle]
  /\ calls = 0 /\ faults = 0 /\ crashes = 0
  /\ wanted  = [d \in Docs |-> IF d \in shared THEN "share" ELSE "none"]

(***************************************************************************)
(* Requests that enqueue a job.                                            *)
(***************************************************************************)
\* An upload, a file event or a re-ingest request.
RequestIngest ==
  /\ "ingest" \in Requests
  /\ Room
  /\ \E v \in Versions : jobs' = Append(jobs, NewJob("ingest", NoDoc, v))
  /\ UNCHANGED <<content, lock, proc, counts, wanted>>

\* share_document() and unshare_document(): the guards and the look for a job
\* in flight; the INSERT is a step of its own.
RequestToggle(t, k) ==
  /\ k \in Requests
  /\ At(t, "idle")
  /\ row.id # NoDoc
  /\ k = "unshare" => row.id \in shared \/ InFlight(row.id, {"share", "unshare"}) # {}
  /\ IF Coalesces(row.id, k)
     THEN /\ wanted' = [wanted EXCEPT ![row.id] = k]
          /\ UNCHANGED proc
     ELSE /\ Room
          /\ Start(t, k, "enqueue", row.id, 0, 0)
          /\ UNCHANGED wanted
  /\ UNCHANGED <<content, lock, jobs, counts>>

EnqueueToggle(t) ==
  /\ At(t, "enqueue")
  /\ jobs'   = Append(jobs, NewJob(proc[t].op, proc[t].doc, 0))
  /\ wanted' = [wanted EXCEPT ![proc[t].doc] = proc[t].op]
  /\ proc'   = [proc EXCEPT ![t] = Idle]
  /\ UNCHANGED <<content, lock, counts>>

(***************************************************************************)
(* Requests that a thread serves by itself.                                *)
(***************************************************************************)
Serve(t, o, s, d) ==
  /\ At(t, "idle")
  /\ calls < MaxCalls
  /\ calls' = calls + 1
  /\ Start(t, o, s, d, 0, 0)
  /\ UNCHANGED <<content, lock, jobs, faults, crashes>>

\* publish_file() and unpublish_file() fetch the caller's personal row first.
RequestPublish(t) ==
  /\ "publish" \in Requests
  /\ row.id # NoDoc
  /\ wanted' = [wanted EXCEPT ![row.id] = "share"]
  /\ Serve(t, "publish", "insert", row.id)

RequestUnpublish(t) ==
  /\ "unpublish" \in Requests
  /\ row.id # NoDoc
  /\ wanted' = [wanted EXCEPT ![row.id] = "unshare"]
  /\ Serve(t, "unpublish", "delete", row.id)

\* admin_unshare() looks at the shared row and, without one, for shared chunks
\* that an earlier call left; it takes no lock.
RequestAdmin(t, d) ==
  /\ "admin" \in Requests
  /\ d \in shared \/ mirror[d] # NoChunks
  /\ Serve(t, "admin", "delete", d)
  /\ UNCHANGED wanted

\* purge_document() and _handle_missing_row(): the row is read before the lock.
RequestPurge(t, d) ==
  /\ "purge" \in Requests
  /\ IF row.id = d
     THEN Serve(t, "purge", "lock", d)
     ELSE tomb[d] = "partial" /\ Serve(t, "repurge", "lock", d)
  /\ UNCHANGED wanted

(***************************************************************************)
(* The worker.                                                             *)
(***************************************************************************)
Claim ==
  /\ At(Worker, "idle")
  /\ \E j \in DOMAIN jobs :
       /\ jobs[j].status = "pending" /\ jobs[j].due
       /\ \A i \in 1 .. (j - 1) : ~(jobs[i].status = "pending" /\ jobs[i].due)
       /\ jobs' = [jobs EXCEPT ![j].status = "running"]
       /\ Start(Worker, jobs[j].kind, FirstStep(jobs[j].kind), jobs[j].doc, jobs[j].ver, j)
  /\ UNCHANGED <<content, lock, counts, wanted>>

Complete ==
  /\ At(Worker, "complete")
  /\ jobs' = [jobs EXCEPT ![proc[Worker].job].status = "done"]
  /\ Continue(Worker)
  /\ UNCHANGED <<content, lock, counts, wanted>>

BackoffElapses(j) ==
  /\ jobs[j].status = "pending" /\ ~jobs[j].due
  /\ jobs' = [jobs EXCEPT ![j].due = TRUE]
  /\ UNCHANGED <<content, lock, proc, counts, wanted>>

\* handle_share() and handle_unshare(): a document that is gone ends the job.
ReadSource ==
  /\ At(Worker, "read")
  /\ IF row.id = proc[Worker].doc
     THEN Continue(Worker)
     ELSE Goto(Worker, proc[Worker], "complete")
  /\ UNCHANGED <<content, lock, jobs, counts, wanted>>

Recheck ==
  /\ At(Worker, "recheck")
  /\ IF row.id = proc[Worker].doc
     THEN Continue(Worker)
     ELSE Goto(Worker, proc[Worker], "unlock")
  /\ UNCHANGED <<content, lock, jobs, counts, wanted>>

\* ingest_file(): a version that is already indexed is skipped, unless forced.
Hash ==
  /\ At(Worker, "hash")
  /\ \/ Continue(Worker)
     \/ /\ row = [id |-> row.id, ver |-> proc[Worker].ver] /\ row.id # NoDoc
        /\ Goto(Worker, proc[Worker], "complete")
  /\ UNCHANGED <<content, lock, jobs, counts, wanted>>

\* _delete_document_vectors_for_path(): the filter has no scope, the shared
\* copies go too.
WipePersonal ==
  /\ personal' = NoChunks
  /\ UNCHANGED mirror
WipePath ==
  /\ personal' = NoChunks
  /\ mirror'   = [d \in Docs |-> NoChunks]

Wipe ==
  /\ At(Worker, "wipe")
  /\ WipePath
  /\ Advance(Worker, [proc[Worker] EXCEPT !.todo = Whole(proc[Worker].ver)])
  /\ UNCHANGED <<row, shared, born, tomb, lock, jobs, counts, wanted>>

\* _ingest_chunked_text(): one upsert for each chunk, in any order.
Write ==
  /\ At(Worker, "write")
  /\ LET r == proc[Worker] IN
       IF r.todo = NoChunks
       THEN Continue(Worker) /\ UNCHANGED personal
       ELSE \E i \in Ix :
              /\ r.todo[i] # 0
              /\ personal' = [personal EXCEPT ![i] = r.todo[i]]
              /\ Goto(Worker, [r EXCEPT !.todo[i] = 0], "write")
  /\ UNCHANGED <<row, shared, born, mirror, tomb, lock, jobs, counts, wanted>>

\* The row is inserted, or updated when the path has one; a file without text
\* updates a row but inserts none.
Index ==
  /\ At(Worker, "index")
  /\ LET v == proc[Worker].ver IN
       IF row.id # NoDoc THEN row' = [row EXCEPT !.ver = v] /\ UNCHANGED born
       ELSE IF Chunks[v] = {} THEN UNCHANGED <<row, born>>
       ELSE /\ born < MaxDocs
            /\ born' = born + 1
            /\ row'  = [id |-> born + 1, ver |-> v]
  /\ Continue(Worker)
  /\ UNCHANGED <<shared, personal, mirror, tomb, lock, jobs, counts, wanted>>

LookAtAny ==
  /\ At(Worker, "look")
  /\ IF row.id # NoDoc
     THEN Advance(Worker, [proc[Worker] EXCEPT !.doc = row.id])
     ELSE Goto(Worker, proc[Worker], "complete")
  /\ UNCHANGED <<content, lock, jobs, counts, wanted>>

\* reproject_shared_on_reingest(): both rows are read before the lock and not
\* again under it.
Look ==
  /\ At(Worker, "look")
  /\ IF row.id \in shared
     THEN Advance(Worker, [proc[Worker] EXCEPT !.doc = row.id])
     ELSE Goto(Worker, proc[Worker], "complete")
  /\ UNCHANGED <<content, lock, jobs, counts, wanted>>

(***************************************************************************)
(* Steps that several operations share.                                    *)
(***************************************************************************)
\* share_document_lock(): an error acquiring it (FaultAt) is not a failure of
\* the operation, which goes on without the lock.
Acquire(p) ==
  /\ At(p, "lock")
  /\ \/ /\ CanLock(proc[p].doc)
        /\ lock' = [lock EXCEPT ![proc[p].doc] = p]
        /\ UNCHANGED faults
     \/ /\ "lock" \in FaultAt /\ faults < MaxFaults
        /\ faults' = faults + 1
        /\ UNCHANGED lock
  /\ Continue(p)
  /\ UNCHANGED <<content, jobs, calls, crashes, wanted>>

Unlock(p) ==
  /\ At(p, "unlock")
  /\ lock' = FreedBy(p)
  /\ Continue(p)
  /\ UNCHANGED <<content, jobs, counts, wanted>>

InsertSharedNoForeignKey(p) ==
  /\ At(p, "insert")
  /\ shared' = shared \cup {proc[p].doc}
  /\ Continue(p)
  /\ UNCHANGED <<row, born, personal, mirror, tomb, lock, jobs, counts, wanted>>

\* _project_file_row(): the foreign key wants the personal row; see Raise.
InsertShared(p) ==
  /\ At(p, "insert")
  /\ row.id = proc[p].doc
  /\ shared' = shared \cup {proc[p].doc}
  /\ Continue(p)
  /\ UNCHANGED <<row, born, personal, mirror, tomb, lock, jobs, counts, wanted>>

AfterNoRow(o) == CASE o = "unshare" -> "unlock"
                   [] o = "admin"   -> "verify"
                   [] OTHER         -> "idle"

\* unproject_file(): when the DELETE returns no row, the chunks are left alone.
DeleteShared(p) ==
  /\ At(p, "delete")
  /\ LET d == proc[p].doc IN
       IF d \in shared
       THEN shared' = shared \ {d} /\ Continue(p)
       ELSE /\ Goto(p, proc[p], AfterNoRow(proc[p].op))
            /\ UNCHANGED shared
  /\ UNCHANGED <<row, born, personal, mirror, tomb, lock, jobs, counts, wanted>>

\* _unproject_file_chunks(), and the published_from delete of a purge.
Clear(p) ==
  /\ At(p, "clear")
  /\ mirror' = [mirror EXCEPT ![proc[p].doc] = NoChunks]
  /\ Continue(p)
  /\ UNCHANGED <<row, shared, born, personal, tomb, lock, jobs, counts, wanted>>

\* _project_file_chunks(): the personal chunks of the path are read at once,
\* and each is copied under the id of the document.
Scroll(p) ==
  /\ At(p, "scroll")
  /\ Advance(p, [proc[p] EXCEPT !.todo = personal])
  /\ UNCHANGED <<content, lock, jobs, counts, wanted>>

ChunkFailsUncounted(r) == r
ChunkFails(r) == [r EXCEPT !.clean = FALSE]

Upsert(p) ==
  /\ At(p, "upsert")
  /\ LET r == proc[p] IN
       IF r.todo = NoChunks
       THEN Continue(p) /\ UNCHANGED <<mirror, faults>>
       ELSE \E i \in Ix :
              /\ r.todo[i] # 0
              /\ \/ /\ mirror' = [mirror EXCEPT ![r.doc][i] = r.todo[i]]
                    /\ Goto(p, [r EXCEPT !.todo[i] = 0], "upsert")
                    /\ UNCHANGED faults
                 \/ /\ "upsert" \in FaultAt /\ faults < MaxFaults
                    /\ faults' = faults + 1
                    /\ Goto(p, ChunkFails([r EXCEPT !.todo[i] = 0]), "upsert")
                    /\ UNCHANGED mirror
  /\ UNCHANGED <<row, shared, born, personal, tomb, lock, jobs, calls, crashes, wanted>>

(***************************************************************************)
(* The purge and the admin's unshare.                                      *)
(***************************************************************************)
\* _postgres_arm(): one transaction. The shared row goes first, the personal
\* row last, with the tombstone; nothing is read again under the lock.
Remove(t) ==
  /\ At(t, "remove")
  /\ LET d == proc[t].doc IN
       /\ shared' = shared \ {d}
       /\ row'    = IF row.id = d THEN [id |-> NoDoc, ver |-> 0] ELSE row
       /\ tomb'   = IF tomb[d] = "none" THEN [tomb EXCEPT ![d] = "partial"] ELSE tomb
  /\ Continue(t)
  /\ UNCHANGED <<born, personal, mirror, lock, jobs, counts, wanted>>

\* _path_reclaimed_by_other_document()
CheckPath(t) ==
  /\ At(t, "check")
  /\ Advance(t, [proc[t] EXCEPT !.path = row.id \in {NoDoc, proc[t].doc}])
  /\ UNCHANGED <<content, lock, jobs, counts, wanted>>

\* _run_qdrant_arm(), its path-wide delete.
Sweep(t) ==
  /\ At(t, "sweep")
  /\ IF proc[t].path THEN WipePath ELSE UNCHANGED <<personal, mirror>>
  /\ Continue(t)
  /\ UNCHANGED <<row, shared, born, tomb, lock, jobs, counts, wanted>>

\* _tombstone_update()
Stamp(t) ==
  /\ At(t, "stamp")
  /\ tomb' = [tomb EXCEPT ![proc[t].doc] = IF proc[t].clean THEN "resolved" ELSE "partial"]
  /\ Continue(t)
  /\ UNCHANGED <<row, shared, born, personal, mirror, lock, jobs, counts, wanted>>

\* The count of shared chunks that are left, reported to the admin.
Verify(t) ==
  /\ At(t, "verify")
  /\ Continue(t)
  /\ UNCHANGED <<content, lock, jobs, counts, wanted>>

(***************************************************************************)
(* Errors and crashes.                                                     *)
(***************************************************************************)
\* The steps of an ingest job whose errors are only logged.
Reprojecting(p) == /\ proc[p].op = "ingest"
                   /\ proc[p].pc \in {"clear", "scroll"}

JobFailsKeepsLock ==
  /\ jobs' = [jobs EXCEPT ![proc[Worker].job] = Retried(@, 1)]
  /\ UNCHANGED lock
  /\ Goto(Worker, proc[Worker], "idle")

\* The batch tick fails the job; the lock is released on the way out.
JobFails ==
  /\ jobs' = [jobs EXCEPT ![proc[Worker].job] = Retried(@, 1)]
  /\ lock' = FreedBy(Worker)
  /\ Goto(Worker, proc[Worker], "idle")

Aborts(p) ==
  IF Reprojecting(p) THEN Goto(p, proc[p], "unlock") /\ UNCHANGED <<jobs, lock>>
  ELSE IF p = Worker THEN JobFails
  ELSE IF proc[p].op \in {"purge", "repurge"} /\ proc[p].pc \in {"sweep", "clear"}
  THEN \* _retry_store_arm() gives up and the tombstone stays partial.
       /\ Goto(p, [proc[p] EXCEPT !.clean = FALSE], "stamp")
       /\ UNCHANGED <<jobs, lock>>
  ELSE Goto(p, proc[p], "idle") /\ lock' = FreedBy(p) /\ UNCHANGED jobs

\* A statement or a call of the vector store raises before it has an effect.
Raise(p) ==
  /\ proc[p].pc \in FaultAt \ {"lock", "upsert", "unlock"}
  /\ faults < MaxFaults
  /\ faults' = faults + 1
  /\ Aborts(p)
  /\ UNCHANGED <<content, calls, crashes, wanted>>

\* The INSERT of the shared row violates its foreign key.
ForeignKeyFails(p) ==
  /\ At(p, "insert")
  /\ row.id # proc[p].doc
  /\ Aborts(p)
  /\ UNCHANGED <<content, counts, wanted>>

\* The process dies: Postgres drops its advisory locks, and the start-up
\* reclaim gives its running job back.
Crash ==
  /\ crashes < MaxCrashes
  /\ crashes' = crashes + 1
  /\ lock' = [d \in Docs |-> Free]
  /\ proc' = [p \in Procs |-> Idle]
  /\ jobs' = [j \in DOMAIN jobs |->
                IF jobs[j].status = "running"
                THEN [Retried(jobs[j], 1) EXCEPT !.due = TRUE] ELSE jobs[j]]
  /\ UNCHANGED <<content, calls, faults, wanted>>

-----------------------------------------------------------------------------
WorkerStep == \/ Claim \/ Complete \/ ReadSource \/ Recheck
              \/ Hash \/ Wipe \/ Write \/ Index \/ Look
ThreadStep(t) == EnqueueToggle(t) \/ Remove(t) \/ CheckPath(t) \/ Sweep(t) \/ Stamp(t) \/ Verify(t)
CommonStep(p) == \/ Acquire(p) \/ Unlock(p) \/ InsertShared(p) \/ DeleteShared(p)
                 \/ Clear(p) \/ Scroll(p) \/ Upsert(p)
                 \/ Raise(p) \/ ForeignKeyFails(p)

Next ==
  \/ RequestIngest
  \/ \E t \in Threads : \/ \E k \in {"share", "unshare"} : RequestToggle(t, k)
                        \/ RequestPublish(t) \/ RequestUnpublish(t)
                        \/ \E d \in Docs : RequestAdmin(t, d) \/ RequestPurge(t, d)
                        \/ ThreadStep(t)
  \/ WorkerStep
  \/ \E p \in Procs : CommonStep(p)
  \/ \E j \in DOMAIN jobs : BackoffElapses(j)
  \/ Crash

Spec == Init /\ [][Next]_vars

\* Threads and the worker loop run on, and time passes; requests, errors and
\* crashes are not owed. An operation waiting for the lock is served when the
\* lock is free again and again: Postgres queues the waiters.
Fairness == /\ WF_vars(WorkerStep)
            /\ \A p \in Procs : WF_vars(CommonStep(p)) /\ SF_vars(Acquire(p))
            /\ \A t \in Threads : WF_vars(ThreadStep(t))
            /\ WF_vars(\E j \in DOMAIN jobs : BackoffElapses(j))

FairSpec == Spec /\ Fairness

-----------------------------------------------------------------------------
TypeOK ==
  /\ row \in [id : Docs \cup {NoDoc}, ver : Versions \cup {0}]
  /\ shared \subseteq Docs
  /\ born \in 0 .. MaxDocs
  /\ personal \in [Ix -> Versions \cup {0}]
  /\ mirror \in [Docs -> [Ix -> Versions \cup {0}]]
  /\ tomb \in [Docs -> {"none", "partial", "resolved"}]
  /\ lock \in [Docs -> Procs \cup {Free}]
  /\ Len(jobs) <= MaxJobs
  /\ \A j \in DOMAIN jobs :
       jobs[j] \in [kind : JobKinds, doc : Docs \cup {NoDoc}, ver : Versions \cup {0},
                    status : {"pending", "running", "done", "dead"},
                    tries : 0 .. MaxTries, due : BOOLEAN]
  /\ \A p \in Procs :
       proc[p] \in [op : Operations \cup {"none"}, pc : Steps \cup {"idle"},
                    doc : Docs \cup {NoDoc}, ver : Versions \cup {0},
                    job : 0 .. MaxJobs, todo : [Ix -> Versions \cup {0}],
                    clean : BOOLEAN, path : BOOLEAN]
  /\ calls \in 0 .. MaxCalls /\ faults \in 0 .. MaxFaults /\ crashes \in 0 .. MaxCrashes
  /\ wanted \in [Docs -> {"none", "share", "unshare"}]

\* services/document_purge.py, purge_document: the lock keeps a purge from
\* interleaving with a half-finished projection, which would bring shared
\* chunks back. Once a tombstone is resolved, nothing of the document returns,
\* whatever fails or crashes before or after, and however many purges ran.
PurgedStaysPurged ==
  \A d \in Docs : tomb[d] = "resolved" =>
    /\ row.id # d
    /\ d \notin shared
    /\ mirror[d] = NoChunks

\* services/projection.py, reproject_shared_on_reingest: members never see
\* content of a version that the owner's chunks no longer have. (A chunk that
\* a purge has already deleted from the owner may still be shared.)
NeverStale ==
  \A d \in Docs, i \in Ix :
    mirror[d][i] # 0 /\ personal[i] # 0 => mirror[d][i] = personal[i]

\* services/batch_handlers/share_document.py, handle_share: a share that ends
\* "done", not "partial", of a document that is still there, has copied every
\* chunk the owner has.
SharedCleanly(d) == /\ At(Worker, "unlock") /\ proc[Worker].op = "share"
                    /\ proc[Worker].clean
                    /\ proc[Worker].doc = d /\ row.id = d
HonestShare ==
  \A d \in Docs : SharedCleanly(d) =>
    \A i \in Ix : personal[i] # 0 => mirror[d][i] = personal[i]

\* No job of the document has failed or been interrupted.
Undisturbed == \A j \in DOMAIN jobs : jobs[j].tries = 0

Quiet == /\ \A p \in Procs : At(p, "idle")
         /\ \A j \in DOMAIN jobs : jobs[j].status \in {"done", "dead"}

InStateAskedFor ==
  \A d \in Docs : row.id = d /\ wanted[d] # "none"
                     => (d \in shared <=> wanted[d] = "share")

\* services/documents.py, _enqueue_share_job: share and unshare requests in any
\* order, coalesced or not, end in the state the owner asked for last, when no
\* job had to be retried.
LastRequestWins == Quiet /\ Undisturbed => InStateAskedFor

\* services/document_purge.py, _postgres_arm: the transaction that removes a
\* document is final for its rows, locks or not, whoever was about to share it.
PurgedRowsStayGone ==
  \A d \in Docs : tomb[d] # "none" => row.id # d /\ d \notin shared

\* services/projection.py: neither an ingest nor a purge nor a failure shares a
\* document that its owner never asked to share, locks or not.
UnaskedStaysPrivate ==
  \A d \in Docs : wanted[d] = "none" => d \notin shared /\ mirror[d] = NoChunks

\* services/share_lock.py: an operation that waits for the lock gets it and
\* ends; no error path keeps the lock.
EveryOperationEnds == \A p \in Procs : ~At(p, "idle") ~> At(p, "idle")

\* The jobs of the document settle too: whatever is queued is run and either
\* succeeds or is given up.
EveryJobSettles ==
  \A j \in 1 .. MaxJobs :
    j \in DOMAIN jobs ~> j \in DOMAIN jobs /\ jobs[j].status \in {"done", "dead"}

\* What is kept of the queue here, the order, the retries and the backoff of the
\* jobs of one path, keeps the promise that BatchQueue keeps: a job was started
\* once more than it has failed, unless it waits or was given up.
Phase  == [j \in 1 .. MaxJobs |-> IF j \in DOMAIN jobs THEN jobs[j].status ELSE "absent"]
Starts == [j \in 1 .. MaxJobs |->
             IF j \in DOMAIN jobs
             THEN jobs[j].tries + IF jobs[j].status \in {"running", "done"} THEN 1 ELSE 0
             ELSE 0]

Ledger == INSTANCE JobLedger WITH Jobs <- 1 .. MaxJobs, MaxAttempts <- MaxTries,
                                  phase <- Phase, runs <- Starts, cancellable <- {}

\* services/batch_queue.py, fail() and complete(): no job of the path is started
\* again once it is done or given up, none is given up before its attempts are
\* spent, and none is done that was not started, over errors and crashes.
ImplementsJobLedger == Ledger!Spec
=============================================================================
