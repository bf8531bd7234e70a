# Verification of the Lumogis orchestrator

Lumogis keeps a household's memory: documents, conversations, captures, entities. The
orchestrator (`src/orchestrator`, FastAPI) writes each of them to several stores that share
no transaction: Postgres, the Qdrant vector store, files on disk, and optionally a graph.
Around them run request threads, a durable job queue, schedulers, and background hooks. What
is hard to test is what happens *between* the calls: a purge that meets a projection, a crash
between two stores, a job that is retried after the conversation it summarises was deleted.

This directory holds TLA+ modules that model those parts statement by statement, the TLC
configurations that check them on small instances, and theorems checked by TLAPS.
`PROJECT.json` lists components, runs, theorems, hazards and, under `map`, the source lines
each definition models.

    tlc -workers 4 -config BatchQueue_deployed.cfg MCBatchQueue.tla
    tlapm BatchQueueProofs.tla

Every safety property that a passing run checks is also proved for all values of the
constants. Liveness is model-checked only.

## 1. The system

| part | state | operations | hard behaviour | correct when |
|---|---|---|---|---|
| Batch queue (`services/batch_queue.py`, `main.py`) | table `user_batch_jobs` | enqueue, claim, complete, fail, reset stuck, cancel | executions outlive their lease; crash; snapshots | bounded executions, honest final states, every job settles |
| Document sharing and purge (`projection.py`, `documents.py`, `document_purge.py`, `admin_unshare.py`, `share_lock.py`) | `file_index` rows, chunks, `purged_documents`, advisory locks | share, unshare, publish, ingest, purge, admin unshare | unlocked paths, retries, half-done store arms | nothing shared that was not asked for, nothing survives a purge, no stale copies |
| Document entity cascade (`document_entity_cascade.py`) | personal entities, `entity_relations`, shared entities with `share_origin`, points | share, retract, downgrade, re-ingest, purge | reference counts read and applied in different statements | an entity is shared iff something shared mentions it, or its owner asked |
| Conversation memory and purge (`memory.py`, `conversations.py`, `memory_purge.py`) | `sessions`, `web_*`, points, graph node, `purged_conversations` | transcript writes, session_end, publish, delete, sweep | check-then-write across stores | a deleted conversation stays deleted, the tombstone tells the truth |
| Postgres connection (`adapters/postgres_store.py`) | one psycopg2 connection | execute, transaction, merge | threads share it; silent reconnect | what returned is kept, what raised is undone |
| Action proposals, executor, reversal (`proposal_queue.py`, `actions/`) | `action_proposals`, audit rows | claim, execute, done, fail, sweep, reverse | sweep during execution, bookkeeping fails after the action | an action takes effect at most once, the rows tell the truth |
| Connector permissions (`permissions.py`) | rows and a cache | read, set mode, grant, delete | a read overtaken by a change is cached | a revoked permission takes effect |
| Captures (`captures.py`) | rows, files, notes, points | patch, attach, transcribe, index, delete | status read first, written last | an indexed capture is in memory and says what was reviewed |
| Capture outbox (`captureOutbox.ts`) | IndexedDB keys | save, discard, sync | async read-modify-write, lost answers | nothing saved is lost or doubled |
| Circuit breaker (`circuit_breaker.py`) | state, failure count | allow, success, failure | late answers | one probe while half open |
| Ingest (`ingest.py`, watcher) | chunks, hash, progress | extract, chunk, index | chunks and row in two stores | the index row and the chunks agree |
| The rest (auth, credentials, capabilities, routines, model pulls, notifications, signals, search and chat, adapters, clients, deployment) | mostly one row, or none | | I/O, or single guarded statements | see `components` |

How they meet: requests and handlers enqueue jobs in the batch queue, whose handlers call
projection and memory code; a share or unshare of a document ends with the cascade over its
entities; the purges cancel jobs, take the advisory lock and write tombstones that the other
writers look at; the executor asks the permission cache before every action; every statement
goes through the one Postgres connection; hooks write the graph after a job has ended.

## 2. Modules

    model                 for TLC                proofs                    implements
    BatchQueue            MCBatchQueue           BatchQueueProofs          JobLedger
    DocumentSharing       MCDocumentSharing      DocumentSharingProofs     JobLedger (its jobs)
    EntityCascade         MCEntityCascade        EntityCascadeProofs
    ConversationPurge     MCConversationPurge    ConversationPurgeProofs
    StoreConnection       MCStoreConnection      StoreConnectionProofs     AtomicStore
    ConnectorPermissions
      ^ EXTENDS
    ActionProposals       MCActionProposals      ActionProposalsProofs     ProposalLedger
    Captures              MCCaptures             CapturesProofs
    CaptureOutbox         MCCaptureOutbox        CaptureOutboxProofs       DeliveryLedger

The modules on the right are abstract: they say what a part promises to its callers, without
statements, threads, locks, retries or crashes. Each is an `INSTANCE` in the module that
implements it, with the mapping of the variables, and is both a `PROPERTY` of a run and a
theorem.

**BatchQueue.** The rows of `user_batch_jobs` are functions of the job number (the id, which
orders the claims). A worker is a tick of the scheduler: `ClaimPick` is the snapshot the
`_CLAIM_SQL` reads with `FOR UPDATE SKIP LOCKED`, `ClaimCommit` the update; then the handler
reports its stage, returns or raises; `MarkDone` and `Complete`, or `FailSelect`, `FailUpdate`
and `FailReport`, are the statements of `complete()` and `fail()`. `SweepPending` and
`SweepDead` are the two statements of `reset_stuck()`, `BootPending` and `BootDead` the same
at start-up. `Announce` is the late progress write of the ingest request. Time is two
booleans per row: the backoff has elapsed (`due`), the row is older than the stuck limit
(`aged`).

**JobLedger.** A job is submitted once, started at most `MaxAttempts + 1` times, done only
after an execution, given up only when its attempts are spent or it was cancelled while
waiting. Settled is final. `BatchQueue` implements it with `phase <- status`,
`runs <- starts`. `DocumentSharing` keeps only what it needs of the queue, and implements the
same ledger (`Phase`, `Starts`), so its short form of the queue is not more lenient than the
queue.

**DocumentSharing.** One path of one owner, given several rows one after the other. Every SQL
statement and vector-store call is a step; `Program` lists the steps of share, unshare,
ingest, inline publish and unpublish, purge, repurge and admin unshare, and the record
`proc[p]` holds an operation's local variables (the row it has read, the chunks still to copy,
whether all could be copied). The advisory lock is a variable; a crash releases it. The batch
worker is the sequential consumer of `main.py`. Its jobs keep only the part of the queue that
matters here: order, retry, backoff.

**EntityCascade.** All documents of one owner and the entities they mention. `personal`,
`mentions` and `source` are the owner's rows, `shared` and `origin` the household's rows of
documents and entities (`origin` is `share_origin`, none when there is no row), `points` the
shared points. The worker runs share, unshare and ingest jobs under the document's lock, and
so does a purge; publishing an entity, unpublishing it and withdrawing a document take none.
`Cover`/`List`/`UpsertPoint`/`InsertRow`/`UndoPoint` project, `Uncover`/`Plan`/`DropRow`/
`ErasePoint`/`EndPlan` retract: the plan is computed from one reading of the tables and carried
out in later steps. `Orphans`, `Commit`, `WipePoints` and `EntityArm` are the purge. `crossed`
holds the entities that two operations handled across one another, `spoilt` those whose point
could not be deleted; the properties of the count speak of the others, and so tell exactly
which interleavings break it. `late` holds the entities the owner published between the plan
of a retraction and its delete, or unpublished between the plan of a downgrade and its update:
the two orders in which what the owner asked for is overwritten.

**ConversationPurge.** One conversation in three stores: `rows`, `points`, `node`. Since all
statements are keyed by the conversation id, one stands for all. Threads serve transcript,
publish and delete requests; handlers run session_end jobs; the sweeper repeats failed arms.
`due`, `dirty`, `stray` and `spoilt` are history variables, read by properties only. The
graph plugin (`plugins.graph`) is not in the repository; its node is modelled from the calls
and marked external. Looking up the target, the row and the tombstone, which are reads in a
row, is one step. The minimum age of swept tombstones is time and left out.

**StoreConnection.** `PostgresStore._conn` is one object shared by all threads. `execute`,
`transaction()` and `merge_entities` are followed through `_ensure_conn` (`Probe`, `Close`,
`Connect`), the switching of autocommit, the statements, commit, rollback and the finally
block. What psycopg2 does is external: autocommit can be assigned only outside a transaction;
outside autocommit any statement, `SELECT 1` included, begins one; a refused statement spoils
the transaction; committing a spoilt one rolls back silently; a lost connection is noticed by
the next statement. A lost acknowledgement of a commit is left out. Nothing keeps the threads
apart and nothing keeps a body on its connection, in the code as in the model. Two history
variables, which no guard reads, tell what that does: `mixed` holds the calls that met the
body of another thread's transaction or merge, or a connection that such a body has left
behind, and those whose own body lost its connection or began on a lost one; `spoiled` the
connections that had such a body, until they are at rest again.

**AtomicStore.** What callers count on: all statements of a call enter the database in one
step, and the call returns; or it raises, and none of them is ever there. The calls of a
thread take effect in the order it makes them. `StoreConnection` implements it for every call
that is not mixed, beside any number that are (`excused <- mixed`). **The other modules take
each transaction for atomic and isolated, which is what `AtomicStore` says**; for a call that
is mixed the code does not give it, and their results do not carry over to that call.

**ConnectorPermissions.** The row of a user and connector (`mode`) and the dictionary in front
of it (`cache`). `ReadRow` and `StoreRead` are the miss of `get_connector_mode`, two steps;
`SetMode`, `GrantScopes` and `DeleteRow` write the row, `DropSlot` drops the cached value in a
later step. `overlapped` notes a change that came between the two steps of a read.

**ActionProposals** extends it with rows of `action_proposals`. `Select` is the dispatcher's
read with its refusals, `Claim`/`ClaimRefused`/`ClaimLost` the conditional UPDATE, whose
answer may be lost; `Check` and `FillCache` the permission check, `HandlerSucceeds` the effect
of the action, `WriteAudit`, `MarkDone` and `FailExecution` the statements after it; `Sweep`
dead-letters old claims; `ReadEntry` to `MarkReversed` are a reversal. Threads are the
dispatchers and reversals that run at once. Who approves proposals is not in the repository;
`Approve` is external. `effects` and `undone` count what the action really did.

**ProposalLedger.** A proposal is approved once; its action has its effect at most once, from
an execution; it is tried again only while it has had none, as long as attempts are left; it
is done only after its effect. An execution the sweep gave up on may still have its effect,
late, and the row stays dead. A reversal follows an effect. `ActionProposals` implements it,
with late approvals (section 5) and without any condition on them.

**Captures.** One capture after its creation. The row, the attachments `atts` and transcripts
`trs` are Postgres, `files` the disk, `notes` and `points` the memory it is promoted to. A
request of any kind reads the status first and writes by id later; uploads and both halves of
a transcription run on the event loop, one at a time (`OnLoop`). `Abandon` is a call that
fails, `Crash` takes all requests. `torn`, `contested` and `doubtful` are history: the bytes,
notes and contents that a failure or an overlapping request may have left wrong.

**CaptureOutbox.** The keys of IndexedDB (`index`, `metas`, `blobs`), each changed by a
transaction of its own, used by several tabs. `Add`, `PutBlob`, `ReadIndex`, `WriteAppended`,
`SaveMeta` save an item, `ReadKind` to `WriteRemoved` discard one, `Sync` to `Upload` send
what is listed. The server's handlers find a repeated request by `client_id`
(`CreateSelect`, `CreateInsert`, `Upload`); a request the tab gave up on may still be served
(`late`). The owner may edit, promote or delete the capture meanwhile.

**DeliveryLedger.** Of each item: it reaches the server only after its save was acknowledged,
as one capture that nobody but the owner replaces, and leaves the device only when the server
has it whole or its owner let it go. `CaptureOutbox` implements it (`Held`, `Copies`,
`Whole`); what is excused is a device whose tabs have clashed.

## 3. Runs

| run | instance | shows |
|---|---|---|
| queue_deployed | 2 jobs of two kinds, 1 worker, cap 1, 2 attempts, 1 crash, fair | bounded executions, `done` only after a return, truthful stages, the job ledger (settled is final, no early death), and every job settles |
| sharing_protected | share, unshare, ingest and purge; 2 rows, 2 threads, 2 jobs, 2 tries, 2 purges, a fault at any step but taking the lock, a crash | purged content never returns, shared chunks are never stale, a share reported done is complete, the last request wins, the jobs keep the job ledger |
| sharing_unlocked | all requests, the inline and admin routes too; 3 rows, 1 thread, 1 job, the lock may fail, fair | purged rows stay gone, nothing unasked is shared, every operation ends, jobs settle |
| cascade_counts | 2 documents, 2 entities one of which other evidence keeps, worker and 2 threads, 3 operations, 1 fault | the reference count is neither too high nor too low, a direct share is lost in no order but the one named, no point without its row |
| conversation_stores | 2 threads, 1 handler, 1 job, 3 requests, 1 fault or crash | no late writer, true tombstones, honest deletes, no orphaned household copy |
| conversation_resolves | 1 thread, 2 faults, 3 sweeps, fair | every purge is resolved |
| store_shared | 2 threads, 3 calls of any kind in all, a refused statement, 1 drop (4.2 M states) | every call that is not mixed is atomic (what raised is undone) and what it returned for is kept; autocommit is lost only with an open transaction, on a connection that had mixed bodies |
| store_promises | 2 threads, one call each, statements and merges, a refused statement | **violated**: a write that returned is committed |
| proposals_execute | 2 threads, 2 editors, 1 proposal, 3 attempts, 2 lost answers or crashes, fair (0.7 M states) | at most one effect, the proposal ledger (true rows), one reversal, no stale permission but by overlap, every claim ends |
| captures_lifecycle | 2 requests at a time, 5 in all, 2 recordings, 2 notes, 3 contents, 2 transcripts, 1 fault (2.4 M states) | an indexed capture is in memory, nothing else of it is, the note says what was reviewed, rows and bytes agree, transcripts are kept |
| outbox_sync | 2 tabs, a note and a recording, 5 operations, 2 faults (1.8 M states) | nothing saved is lost or doubled, no recording is stranded, the delivery ledger |
| outbox_replay | 1 tab, 3 operations, 1 fault | **violated**: a replay of a create is answered with the original capture |

Two promises are violated, and stand in the findings. `ports/metadata_store.py:41` says of
execute "Commits on success", and `entity_merge.py:32` that switching autocommit off on the
shared connection is safe. In store_promises a merge is refused a statement and rolls back;
before its finally block another thread's execute probes the connection, which begins a
transaction: the statement returns, is not committed, and autocommit cannot be assigned any
more. The other way to the same end is to join the merge's transaction and be rolled back
with it.

`routes/api_v1/captures.py:104` promises 200
with the original id to a replay of a create, but `services/captures.py:161` compares the type
of the request with the `capture_type` of the row, which the upload of the recording has
changed to `mixed`. When the answer of that upload is lost the item is sent again, answered
409, now and at every later sync, and cannot leave the outbox.

### Bounds, and why they are enough

Every bound is a constant (`Max...`). Two jobs contend for the order of claims; two attempts
let a job be retried, swept and given up, and the sweep's extra claim needs no third. Two
chunk versions, of which the second is shorter or empty, make stale and left-over chunks
possible; two rows of one path make the reuse of a path by a new document possible. Two
threads and a handler give every pair of purge, publish, transcript and job, with the sweeper
as a fourth. One fault reaches every single failed call; conversation_resolves,
outbox_sync and proposals_execute spend two. Two documents that both mention an entity are the least for a count that is wrong
by one; three operations are a share, an unshare and whatever comes between. Two requests on a
capture make every pair of kinds overlap at every step; five let a capture be recorded,
transcribed twice, indexed and disturbed. Two threads with three calls on a connection are
two that reconnect over each other or join each other's body, and a call that comes after them.
One proposal is enough, since nothing but an editor's slot connects two of them; three attempts
let it fail, be tried again and fail for good with another retry between. Its action is not
hard-limited: the refusal of one that is only removes behaviours, and no fairness is asked of
dispatchers, so what holds of this row holds of that one.

Deadlock is checked in proposals_execute, where the environment goes on for ever; elsewhere
requests are bounded and not owed, so the system may stop.

Each property of a passing run has a mutant (`PROJECT.json`): a plausible slip in one mapped
definition, such as a missing guard in the claim or a skipped recheck, under which the run's
own configuration violates the property. The variants stand beside the definitions they
replace (`CanLockAlways`, `RecheckSkipped`, `RollbackSkipped`, `ResetPendingFree`, ...);
`Next` does not use them.

### Fairness

* Queue: the scheduler keeps calling the tick and the sweep, handlers end (weak fairness on
  each), the container restarts, time passes. `ClaimCommit` has strong fairness: the database
  may fail any one claim, not every one for ever. Errors, crashes and requests are not owed.
* Sharing: threads and the worker go on; a waiter for the advisory lock has strong fairness,
  since Postgres queues lock waiters; backoffs elapse.
* Conversation: calls that have begun return or raise; the scheduler starts a sweep every five
  minutes (`main.py`, 596-617).
* Proposals: time passes and `_proposal_stuck_sweep` (`main.py`, 570-593) runs. The dispatcher
  owes nothing: a claim ends even when its thread never comes back.
* The other modules have safety only.

## 4. Theorems

Each module of theorems assumes the named assumptions on the constants of the module it
proves about, and nothing else unless the table says so. Constants are arbitrary: any number
of processes, jobs, documents, requests, faults and crashes.

| module | theorems | further assumption |
|---|---|---|
| BatchQueueProofs | BoundedExecutions, NoEarlyDeath, HonestDone, SettledForGood, QueueImplementsLedger | - |
| | DoneShowsDone | `SingleWorker`: there is one worker loop, as deployed |
| DocumentSharingProofs | RowsStayGone, NothingUnasked | - : every route, and a lock that could not be taken |
| | NeverStaleChunks | `NoInline`: no raw publish route |
| | PurgeIsFinal | `Locked`: and taking the lock never fails |
| | SharingKeepsLedger | - |
| | HonestShares | `JobsOnly`: and no raw unpublish, no admin unshare |
| | LastWins | `NoRequests`: no raw publish and unpublish, no admin unshare; the lock is not needed |
| EntityCascadeProofs | NoStrays, NoneMissing, AskedStays, NoneHidden | - |
| ConversationPurgeProofs | WritersStop, TrueTombstone, DeleteIsHonest, NoCopyWithoutRow | - |
| StoreConnectionProofs | Kept, Undone, BackAtRest, StoreIsAtomic | - |
| ActionProposalsProofs | AtMostOnce, TrueStatus, ReversalOnce, CacheIsFresh, QueueImplementsProposalLedger | - |
| CapturesProofs | Stands, NothingElse, NoteIsTrue, RowsHaveBytes, KeepsTranscripts | - |
| CaptureOutboxProofs | NothingLost, NothingStranded, OutboxImplementsDelivery | - |

None of these properties is inductive but `NoOrphanShare`, which is with the types. What each
proof adds, and why:

* **BatchQueue.** A step can start a job once more without knowing its attempts. `IInv` adds
  *Counted*: claims and the attempt counter move together (equal while pending, one apart
  while running), the counter of a pending row is at most `MaxAttempts`; *Leased*: the row a
  claim has locked is still pending and locked by one worker; *Held*: what a worker holds was
  claimed, and what it is about to complete has returned. The refinement maps each action to a
  ledger step of every job, one sweep statement moving several. For `DoneShowsDone`, a worker
  past `MarkDone` has left the stage at done, and with one loop nobody else writes it.
* **DocumentSharing.** `Base` says where each process is in its program and what it must have
  read to get there. *Fresh*: what the worker has still to copy is what the owner has, because
  only the worker rewrites the owner's chunks, after it has wiped every copy. *Sealed*: whoever
  is between lock and unlock has the lock; a share works on the row that is there; when the
  document of a re-projection was purged meanwhile, the purge has taken the owner's chunks too
  and nothing is left to copy. *Honest*: a share past its scroll has copied, or still has to
  copy, every chunk the owner has.
  *Ordered*: while no job was retried the jobs are done in the order of their ids, the latest
  toggle of a document that is not done is what was asked for last, and one that is done has
  left the row as asked; a request absorbed by a job in flight leaves that job the latest.
* **EntityCascade.** What would break the count when everything rests is accounted for while
  something runs: a row that nothing justifies is one that an operation under way goes on to
  retract (*Strays*); an entity that a shared document mentions has a row that no plan deletes,
  or gets one (*Complete*); a point without its row is in the hands of the process between the
  two calls (*Hidden*); no plan deletes what the owner published, nor calls a row theirs that is
not, but for the entities of `late` (*Asked*). They rest on who
  holds a document's lock (*LockHeld*), on what a cascade may insert (*Inserted*) and on the
  foreign keys (*Tables*).
* **ConversationPurge.** A writer stops at its check only if nobody owes a check of a
  tombstone that is not there (*Owed*). A tombstone flag is true only if what the purger says
  it has erased stays so until a write the history notes (*Erasing*), for which a purger past
  its transaction must have a tombstone (*Armed*); the answer of a delete depends on the same
  of the writes during that delete (*Cleared*), and there the household copy goes with its
  source row by the foreign key (*Copied*).
* **StoreConnection.** A body that is not mixed is the only one, on a live connection that
  holds exactly its writes (*InBody*), because every step that could take this from it, of
  whichever thread, mixes the call. It begins on a connection in autocommit, because one that is
  not is in use or spoiled (*InUse*, *Spoilt*, *Rest*). No transaction holds a write of a call
  that was left to itself but of one in its body (*HeldPure*), so no commit or rollback of
  others reaches it. Every write has a number that tells its call (*Control*, *Written*,
  *Filed*).
* **ActionProposals.** A row has at most one runner, and one that took effect is executing,
  done or swept (*Ledger*); a row that may be claimed has attempts left (*AttemptsLeft*); of an
  audit entry nobody contested at most one request works on the reversal (*Uncontested*). A
  read that is out of date is of a slot written meanwhile (*PermissionInv*).
* **Captures.** Requests that are active together know of one another (*Overlap*). A note
  belongs to the request that inserted it until that request ends (*Memory*), and one that
  fails takes it back (*Cleaned*); what a request that indexes alone leaves is what the capture
  names (*Settled*, *Stays*). An index that no edit overlaps sees the capture as it is (*Seen*),
  and afterwards nobody is left to change it (*Sealed*). Bytes are there before their row and
  go before it (*Fresh*, *Bytes*).
* **CaptureOutbox.** An item being saved is known to its tab alone (*Owned*); a tab that
  changes the index alone has read the index there is (*Alone*); captures have ids of their
  own, one for an item (*Numbered*); an item leaves the device only when the server has it whole
  or its owner said so (*Removable*); a blob is listed or being saved (*Written*, *Erased*,
  *Listed*).

The action properties `SettledIsFinal` and `TranscriptKept` and the five refinements are
temporal theorems. `NoEarlyDeath`, `SettledForGood`, `TrueStatus` and `Undone` are proved and
no longer checked by a run of their own: the ledgers and `AtomicStore` say as much and more.
One lemma per action, with a step per conjunct the action can disturb; what several actions
share is a lemma of its own.

### The refinements

Each proof states on the variables of the model how the abstract module lets one item (job,
call, proposal) move in a step, proves that the abstract `Next` follows when every item moves
so, and then goes through the actions. What the inductive invariant needs besides:

* **QueueImplementsLedger, SharingKeepsLedger.** That a job which waits has a start left
  (*Counted*; *Waiting*), and that the worker's job is running (*Running*). The second holds
  for every lock and route: of the other steps of a document it is only used that they leave
  `jobs` alone or append to it.
* **StoreIsAtomic.** A body that is committed has sent its last statement (*Counted*), what a
  commit adds is all that the call has sent (*InBody*), and a call is mixed before it is over,
  never after (*Filed*). What a step shows of the calls that are not mixed is of one thread;
  of mixed calls only the excuse is used.
* **QueueImplementsProposalLedger.** The sweep gives up only on rows with attempts left
  (*SweptEarly*).
* **OutboxImplementsDelivery.** Whatever is at the server or on its way to it was saved
  (*Arrived*). A tab alone with the index changes it by its own item; of tabs that clash only
  the excuse is used. A late insert finds no row (*Numbered*), so it is an arrival or nothing.

Only model-checked: liveness under fairness (`EveryJobSettles`, `EveryOperationEnds`,
`EveryPurgeResolves`, `ClaimsEnd`), which is beyond the proof system, and the violated
`ReplayAnswered`.

## 5. Where code and documents disagree, or the code surprises

Met while modelling. Where constants are given, they make TLC show it.

* **Queue.** `fail()` writes with the attempt it read after an UPDATE that may have matched
  nothing: a row the sweeper gave back shows stage `failed` while it is pending
  (`batch_queue.py:209`, ADR 110:22). `complete()` has no guard at all (migration 017:13 draws a
  lifecycle). `ingest_upload.py:6` calls failed jobs terminal; they are retried.
* **Inline routes.** The raw publish route projects without the lock (`routes/scope.py:238`),
  so its upserts can follow a purge that has stamped its tombstone (`document_purge.py:268`
  promises the opposite): `PurgedStaysPurged` with `Requests = {"publish", "purge"}`,
  `MaxJobs = 0`. During a re-ingest it leaves stale copies (`LUMOGIS_REFERENCE_MANUAL.md:161`).
* **Re-projection** reads both rows before it waits for the lock (`projection.py:612`): after
  an inline or admin unshare in between, chunks without a row.
* **Unshare.** `unproject_file` does nothing once the shared row is gone
  (`projection.py:927`): after an error between row and chunks no retry, not even a second
  admin unshare (`admin_unshare.py:227`), clears the chunks. A share job that waits for its
  retry runs after a later unshare (`documents.py:577`, ADR 157-157-577:31), hence
  `Undisturbed` in `LastRequestWins`.
* **Purge.** It checks that its path is not reclaimed and then deletes by path
  (`document_purge.py:471`): chunks of a document indexed in between go too.
* **Cascade.** Counts are read and applied in different statements
  (`document_entity_cascade.py:287`), and the lock is per document: operations on two
  documents that mention one entity can leave it shared with nothing that justifies it, or
  unshared while a shared document mentions it. A downgrade writes `user` over, and a
  retraction deletes, whatever the origin became since (`:355`), so a direct publish or
  unpublish in between is lost: a household stops seeing what its owner had just shared with it.
  `crossed` exempts the first two, `late` the last; `AskedIsShared` over all entities shows it.
* **Ingest.** A forced re-ingest that fails after the wipe leaves an index row with the
  current hash and no chunks (`ingest.py:407`); the next unforced ingest is skipped. When the
  progress write after the enqueue fails, the request deletes the upload and answers 500 while
  the job stays queued (`routes/api_v1/ingest.py:167`).
* **Conversations.** Deleting a conversation that was never summarised answers
  `deleted=true, partial=false` and deletes nothing (`memory_purge.py:159`). `store_session`
  looks at the tombstone, then embeds and writes: a purge in between is followed by the INSERT
  (migration 029:2). `resolved_at` is never cleared: a repeated delete that fails after a late
  writer leaves a resolved tombstone the sweeper never visits (migration 034:7). A delete whose
  transaction fails still answers `deleted=true, partial=false`. The SESSION_ENDED hook fires
  even when `store_session` was skipped. Entities and relations of a deleted conversation stay.
  `store_session` swallows an error of its INSERT.
* **Connection.** Every thread sends its statements on one connection and nothing keeps them
  apart (`postgres_store.py:99`, `entity_merge.py:277`). A statement of its own that meets a
  transaction or a merge joins it and is rolled back with it, or spoils it for its owner. One
  that comes between the commit or the rollback and the finally block begins a transaction;
  autocommit cannot be restored and later writes stay uncommitted (`postgres_store.py:127`):
  store_promises shows it, against `ports/metadata_store.py:41` and `entity_merge.py:32`. A
  connection lost inside a transaction is replaced silently, the first statement lost, the
  second kept (`postgres_store.py:33`, `ports/metadata_store.py:56`). A merge that starts on a
  dead connection switches off the autocommit of that one and writes on the next, so it is half
  applied when it fails (`entity_merge.py:10` says all or nothing). The calls to which this
  happens are the mixed ones, of which the passing run promises nothing.
* **Proposals.** The hard limit on action types is tested on a row read before the claim, and
  only when that row was approved already (`proposal_execute.py:75`): a row approved between
  read and claim runs. The model takes this step; no document says what a late approval should
  do, so no property speaks of it. The sweep calls an action
  dead that still executes, and the late `mark_done` matches nothing (`proposal_queue.py:94`).
  Two requests can reverse one action twice (`reversibility.py:51`).
* **Permissions.** A read overtaken by a change caches the old mode until the next change
  (`permissions.py:95`): a revoked DO goes on authorizing. `overlapped` exempts it.
* **Captures.** Two index requests that overlap make two notes and two points, of which the
  capture names one; one that fails overwrites `indexed` with `failed`; a patch or a transcript
  that overlaps an index changes an indexed capture, although every later edit is refused;
  the replay of an upload to an indexed capture is answered 409, though it is described as 200.
* **Outbox.** Two tabs lose each other's updates of the index (`captureOutbox.ts:110`):
  `clashed` exempts it. The replay of a create: see the finding in section 3.
* **Circuit breaker** (not modelled). Half open is described as letting a single probe through
  (`circuit_breaker.py:64`); `allow()` admits every call until one has answered, and a success
  of a call that began before the circuit opened closes it.

## 6. What is left

In this order, when the suite has room (it is kept at a dozen runs of a few minutes, so that
all of it is rerun after every change):

1. **CircuitBreaker**: closed, open, half open over calls whose answers arrive late.
2. The ingest pipeline as a module of its own: extraction that fails after the wipe, the
   upload that is deleted, the index row against its chunks.
3. The candidate lifecycle of entities and the biography conflicts.
4. The composition of DocumentSharing and EntityCascade over one lock, so that a document's
   rows, chunks and entities are purged together.
5. Liveness of captures and of the outbox, once the code says who retries.

## 7. Not modelled

* Of the modelled parts: the graph arm of the document purge and the five other shareable
  resources, which follow the projection pattern of files and sessions with fewer steps; in
  EntityCascade crashes, a lock that could not be taken, staged entities, the raw publish of a
  file (it runs no cascade) and the rollback of a purge; the counters of `routine_do_tracking`
  and `action_log`, `claim_next` (no caller outside the tests); a background hook refused by a pool that is being
  shut down after the handler has succeeded (`executor.py:134`), which records the action as
  failed (`proposal_execute.py:161`) and so lets it be executed again, outside what
  `RunsAtMostOnce` says; in Captures images and the
  derived `capture_type`; the caps of the outbox; the single-memory purge.
* The other components of `PROJECT.json`, each with its reason there: adapters, search, chat
  and scanners keep no state of their own; credentials, authentication and invites are guarded
  single rows; model pulls are one table and one download stream; clients and deployment carry
  no shared state but the capture outbox. Configuration, request and response models and
  exports, which are much of the code by lines, have no behaviour of several steps.
* Embeddings, texts, summaries, wording and ranking are data and abstracted everywhere.
