----------------------- MODULE DocumentSharingProofs -----------------------
(***************************************************************************)
(* Proofs about DocumentSharing, for any number of documents, versions,     *)
(* chunks, threads, requests, jobs, errors and crashes.  Whatever routes    *)
(* are used and whether or not the lock could be taken: purged rows stay    *)
(* gone and what nobody asked to share stays private.  Without the inline   *)
(* routes: shared chunks are never stale.  When the lock is always taken,   *)
(* too: purged content never returns.  When only jobs share and unshare: a  *)
(* share that is done is complete, and the last request wins.  The jobs     *)
(* implement JobLedger.                                                     *)
(***************************************************************************)
EXTENDS DocumentSharing, TLAPS

USE SharingAssumption

-----------------------------------------------------------------------------
(***************************************************************************)
(* The parts of the inductive invariant                                    *)
(***************************************************************************)
Jobs == [kind : JobKinds, doc : Docs \cup {NoDoc}, ver : Versions \cup {0},
         status : {"pending", "running", "done", "dead"}, tries : Nat, due : BOOLEAN]
OpNames == {"none", "share", "unshare", "ingest", "publish", "unpublish", "admin", "purge", "repurge"}
Places == {"idle", "enqueue", "read", "lock", "recheck", "insert", "delete", "clear", "scroll",
           "upsert", "unlock", "complete", "hash", "wipe", "write", "index", "look", "verify",
           "remove", "check", "sweep", "stamp"}
Locals == [op : OpNames, pc : Places, doc : Docs \cup {NoDoc}, ver : Versions \cup {0}, job : Nat,
           todo : [Ix -> Versions \cup {0}], clean : BOOLEAN, path : BOOLEAN]

Stored ==
  /\ row \in [id : Docs \cup {NoDoc}, ver : Versions \cup {0}]
  /\ shared \subseteq Docs /\ born \in 0 .. MaxDocs
  /\ personal \in [Ix -> Versions \cup {0}]
  /\ mirror \in [Docs -> [Ix -> Versions \cup {0}]]
  /\ tomb \in [Docs -> {"none", "partial", "resolved"}]
  /\ lock \in [Docs -> Procs \cup {Free}]
  /\ jobs \in Seq(Jobs)
  /\ wanted \in [Docs -> {"none", "share", "unshare"}]

\* Which operations have which steps.
Legal(o, s) ==
  /\ s = "idle" <=> o = "none"
  /\ s \in {"read", "recheck", "enqueue"} => o \in {"share", "unshare"}
  /\ s = "lock" => o \in {"share", "unshare", "ingest", "purge", "repurge"}
  /\ s = "insert" => o \in {"share", "publish"}
  /\ s = "delete" => o \in {"unshare", "unpublish", "admin"}
  /\ s = "clear" => o \in OpNames \ {"none"}
  /\ s \in {"scroll", "upsert"} => o \in {"share", "ingest", "publish"}
  /\ s = "unlock" => o \in {"share", "unshare", "ingest", "purge", "repurge"}
  /\ s = "complete" => o \in {"share", "unshare", "ingest"}
  /\ s \in {"hash", "wipe", "write", "index", "look"} => o = "ingest"
  /\ s = "verify" => o = "admin"
  /\ s = "remove" => o = "purge"
  /\ s \in {"check", "sweep", "stamp"} => o \in {"purge", "repurge"}

\* What a process with the locals r is at, when b ids were given, and the
\* tombstones and the requests accepted so far are tb and w: whoever works on
\* a document works on one there was, a purge past its transaction has left a
\* tombstone, and whoever copies chunks does so for a document that was to be
\* shared.
Fits(p, r, b, tb, w) ==
  /\ Legal(r.op, r.pc)
  /\ p = Worker => r.op \in {"none", "share", "unshare", "ingest"} /\ r.pc # "enqueue"
  /\ p # Worker => r.op # "ingest" /\ (r.op \in {"share", "unshare"} => r.pc = "enqueue")
  /\ r.doc <= b /\ (r.op \notin {"none", "ingest"} => r.doc \in Docs)
  /\ r.op = "repurge" => tb[r.doc] # "none"
  /\ r.op = "purge" /\ r.pc \in {"check", "sweep", "clear", "stamp", "unlock"} => tb[r.doc] # "none"
  /\ r.op = "publish" \/ (r.op = "share" /\ r.pc # "enqueue") => w[r.doc] # "none"
  /\ r.op = "ingest" /\ r.pc \in {"lock", "clear", "scroll", "upsert", "unlock"}
       => r.doc \in Docs /\ w[r.doc] # "none"

Manned == /\ proc \in [Procs -> Locals]
          /\ \A p \in Procs : Fits(p, proc[p], born, tomb, wanted)

Queued == \A j \in DOMAIN jobs : /\ jobs[j].doc <= born
                                 /\ jobs[j].kind # "ingest" => jobs[j].doc \in Docs
                                 /\ jobs[j].kind = "share" => wanted[jobs[j].doc] # "none"

\* Ids are given once; the foreign key.
Known == /\ row.id <= born
         /\ \A d \in Docs : wanted[d] # "none" \/ tomb[d] # "none" => d <= born
         /\ \A d \in shared : row.id = d

Base == Stored /\ Manned /\ Queued /\ Known /\ PurgedRowsStayGone /\ UnaskedStaysPrivate

\* What no step takes back.
Growing == /\ born' \in Nat /\ born <= born'
           /\ \A d \in Docs : /\ tomb[d] # "none" => tomb'[d] # "none"
                              /\ wanted[d] # "none" => wanted'[d] # "none"

-----------------------------------------------------------------------------
\* The steps of the operations.
LEMMA Successors ==
    ASSUME NEW o \in OpNames, NEW s \in Places, Legal(o, s), s # "idle"
    PROVE  /\ s = "read" => Following(o, s) = "lock"
           /\ s = "lock" => Following(o, s) = IF o \in {"share", "unshare"} THEN "recheck"
                              ELSE IF o = "ingest" THEN "clear" ELSE IF o = "purge" THEN "remove" ELSE "check"
           /\ s = "recheck" => Following(o, s) = IF o = "share" THEN "insert" ELSE "delete"
           /\ s \in {"insert", "delete"} => Following(o, s) = "clear"
           /\ s = "clear" => Following(o, s) = IF o \in {"share", "ingest", "publish"} THEN "scroll"
                               ELSE IF o = "unshare" THEN "unlock" ELSE IF o = "unpublish" THEN "idle"
                               ELSE IF o = "admin" THEN "verify" ELSE "stamp"
           /\ s = "scroll" => Following(o, s) = "upsert"
           /\ s = "upsert" => Following(o, s) = IF o = "publish" THEN "idle" ELSE "unlock"
           /\ s = "unlock" => Following(o, s) = IF o \in {"purge", "repurge"} THEN "idle" ELSE "complete"
           /\ s \in {"complete", "verify", "enqueue"} => Following(o, s) = "idle"
           /\ s = "hash" => Following(o, s) = "wipe"
           /\ s = "wipe" => Following(o, s) = "write"
           /\ s = "write" => Following(o, s) = "index"
           /\ s = "index" => Following(o, s) = "look"
           /\ s = "look" => Following(o, s) = "lock"
           /\ s = "remove" => Following(o, s) = "check"
           /\ s = "check" => Following(o, s) = "sweep"
           /\ s = "sweep" => Following(o, s) = "clear"
           /\ s = "stamp" => Following(o, s) = "unlock"
  <1> USE DEF Legal, OpNames, Places, Following
  <1>1. CASE o = "share"
    BY <1>1 DEF Program
  <1>2. CASE o = "unshare"
    BY <1>2 DEF Program
  <1>3. CASE o = "ingest"
    BY <1>3 DEF Program
  <1>4. CASE o = "publish"
    BY <1>4 DEF Program
  <1>5. CASE o = "unpublish"
    BY <1>5 DEF Program
  <1>6. CASE o = "admin"
    BY <1>6 DEF Program
  <1>7. CASE o = "purge"
    BY <1>7 DEF Program
  <1>8. CASE o = "repurge"
    BY <1>8 DEF Program
  <1> QED
    BY <1>1, <1>2, <1>3, <1>4, <1>5, <1>6, <1>7, <1>8

\* What is left of a process that has ended.
LEMMA IdleIs ==
    /\ Idle \in Locals /\ Idle.op = "none" /\ Idle.pc = "idle" /\ Idle.doc = NoDoc /\ Idle.todo = NoChunks
    /\ NoChunks \in [Ix -> Versions \cup {0}] /\ \A i \in Ix : NoChunks[i] = 0
  BY DEF Idle, Locals, OpNames, Places, NoChunks, NoDoc, Docs

LEMMA WholeIs == \A v \in Versions \cup {0} : Whole(v) \in [Ix -> Versions \cup {0}]
  BY DEF Whole

\* Changing a job, adding one, retrying one.
LEMMA JobChanged ==
    ASSUME jobs \in Seq(Jobs), NEW j \in DOMAIN jobs, NEW x \in Jobs
    PROVE  [jobs EXCEPT ![j] = x] \in Seq(Jobs)
  OBVIOUS

LEMMA RetriedIs ==
    ASSUME NEW job \in Jobs
    PROVE  /\ Retried(job, 1) \in Jobs
           /\ Retried(job, 1).kind = job.kind /\ Retried(job, 1).doc = job.doc
  <1>1. /\ [job EXCEPT !.status = "pending", !.tries = job.tries + 1, !.due = FALSE] \in Jobs
        /\ [job EXCEPT !.status = "dead", !.tries = job.tries + 1] \in Jobs
    <2>1. job.tries + 1 \in Nat
      BY DEF Jobs
    <2> DEFINE n == job.tries + 1
    <2> HIDE DEF n
    <2>2. n \in Nat => /\ [job EXCEPT !.status = "pending", !.tries = n, !.due = FALSE] \in Jobs
                       /\ [job EXCEPT !.status = "dead", !.tries = n] \in Jobs
      BY DEF Jobs
    <2> QED
      BY <2>1, <2>2 DEF n
  <1>2. \/ Retried(job, 1) = [job EXCEPT !.status = "pending", !.tries = job.tries + 1, !.due = FALSE]
        \/ Retried(job, 1) = [job EXCEPT !.status = "dead", !.tries = job.tries + 1]
    BY DEF Retried
  <1> QED
    BY <1>1, <1>2 DEF Jobs

LEMMA JobIs ==
    ASSUME NEW job \in Jobs
    PROVE  /\ [job EXCEPT !.due = TRUE] \in Jobs
           /\ \A s \in {"running", "done"} : [job EXCEPT !.status = s] \in Jobs
  BY DEF Jobs

LEMMA JobsAre == ASSUME Stored, NEW j \in DOMAIN jobs PROVE jobs[j] \in Jobs
  BY DEF Stored

LEMMA JobAdded ==
    ASSUME Stored, NEW k \in JobKinds, NEW d \in Docs \cup {NoDoc}, NEW v \in Versions \cup {0}
    PROVE  LET after == Append(jobs, NewJob(k, d, v)) IN
           /\ after \in Seq(Jobs)
           /\ \A j \in DOMAIN after : \/ j \in DOMAIN jobs /\ after[j] = jobs[j]
                                      \/ after[j].kind = k /\ after[j].doc = d
  <1>1. NewJob(k, d, v) \in Jobs /\ NewJob(k, d, v).kind = k /\ NewJob(k, d, v).doc = d
    BY DEF NewJob, Jobs
  <1> HIDE DEF NewJob
  <1> QED
    BY <1>1 DEF Stored

LEMMA Stays ==
    ASSUME Stored, Manned, Growing, NEW p \in Procs
    PROVE  Fits(p, proc[p], born', tomb', wanted')
  BY DEF Manned, Fits, Growing, Stored, Docs, NoDoc, Locals, Legal, OpNames

\* Going to a step with some locals, or to the end.
LEMMA Moves ==
    ASSUME Stored, Manned, Growing, NEW p \in Procs, NEW r \in Locals, NEW s \in Places, Goto(p, r, s),
           s = "idle" \/ Fits(p, [r EXCEPT !.pc = s], born', tomb', wanted')
    PROVE  Manned'
  <1>1. CASE s = "idle"
    <2>1. Fits(p, Idle, born', tomb', wanted')
      BY IdleIs DEF Fits, Legal, Growing, NoDoc, Stored
    <2>2. proc' = [proc EXCEPT ![p] = Idle] /\ proc' \in [Procs -> Locals]
      BY <1>1, IdleIs DEF Goto, Manned
    <2> QED
      BY <2>1, <2>2, Stays DEF Manned
  <1>2. CASE s # "idle"
    <2>1. [r EXCEPT !.pc = s] \in Locals
      BY DEF Locals
    <2>2. proc' = [proc EXCEPT ![p] = [r EXCEPT !.pc = s]] /\ proc' \in [Procs -> Locals]
      BY <1>2, <2>1 DEF Goto, Manned
    <2> QED
      BY <1>2, <2>2, Stays DEF Manned
  <1> QED
    BY <1>1, <1>2

\* Starting an operation.
LEMMA Begins ==
    ASSUME Stored, Manned, Growing, NEW p \in Procs, NEW o \in OpNames, NEW s \in Places,
           NEW d \in Docs \cup {NoDoc}, NEW v \in Versions \cup {0}, NEW j \in Nat,
           Start(p, o, s, d, v, j),
           Fits(p, [Idle EXCEPT !.op = o, !.pc = s, !.doc = d, !.ver = v, !.job = j], born', tomb', wanted')
    PROVE  Manned'
  <1>1. [Idle EXCEPT !.op = o, !.pc = s, !.doc = d, !.ver = v, !.job = j] \in Locals
    BY IdleIs DEF Locals
  <1>2. proc' \in [Procs -> Locals]
    BY <1>1 DEF Start, Manned
  <1> QED
    BY <1>2, Stays DEF Start, Manned

\* Going on with the next step, about the same document.
LEMMA Continues ==
    ASSUME Stored, Manned, Growing, NEW p \in Procs, NEW r \in Locals, Advance(p, r),
           r.op = proc[p].op, r.doc = proc[p].doc, proc[p].pc \notin {"idle", "look"},
           proc[p].pc = "remove" => tomb'[r.doc] # "none"
    PROVE  Manned'
  <1> DEFINE s == Following(proc[p].op, proc[p].pc)
  <1>1. proc[p] \in Locals /\ Fits(p, proc[p], born', tomb', wanted') /\ Legal(proc[p].op, proc[p].pc)
    BY Stays DEF Manned, Fits
  <1>2. s \in Places
    BY <1>1, Successors DEF Locals, Places, OpNames, Legal
  <1>3. s = "idle" \/ Fits(p, [r EXCEPT !.pc = s], born', tomb', wanted')
    <2>1. [r EXCEPT !.pc = s] \in Locals
      BY <1>2 DEF Locals
    <2>2. s = "idle" \/ Legal(r.op, s)
      BY <1>1, Successors DEF Locals, Places, OpNames, Legal
    <2>3. /\ s # "enqueue"
          /\ p # Worker /\ r.op \in {"share", "unshare"} => s = "idle"
          /\ s \in {"check", "sweep", "clear", "stamp", "unlock"} /\ r.op = "purge"
               => proc[p].pc \in {"remove", "check", "sweep", "clear", "stamp"}
          /\ s \in {"lock", "clear", "scroll", "upsert", "unlock"} /\ r.op = "ingest"
               => proc[p].pc \in {"lock", "clear", "scroll", "upsert"}
          /\ r.op = "share" /\ s # "idle" => proc[p].pc # "enqueue"
      BY <1>1, Successors DEF Locals, Places, OpNames, Legal, Fits
    <2> QED
      BY <1>1, <2>1, <2>2, <2>3 DEF Fits, Locals
  <1> QED
    BY <1>2, <1>3, Moves DEF Advance

-----------------------------------------------------------------------------
(***************************************************************************)
(* Every step keeps Base                                                    *)
(***************************************************************************)
LEMMA RequestIngestKeeps ==
    ASSUME Base, RequestIngest
    PROVE  Base'
  <1> USE DEF Base
  <1>0. Worker \in Procs /\ Threads \subseteq Procs /\ Worker \in Procs
        /\ proc[Worker] \in Locals /\ Fits(Worker, proc[Worker], born, tomb, wanted)
    BY DEF Manned, Procs
  <1>1. Growing
    BY <1>0 DEF RequestIngest, content, counts, Room, Growing, Stored, Fits, Legal, Locals, At, NoDoc, Docs
  <1>2. Stored'
    <2>1. PICK v \in Versions : jobs' = Append(jobs, NewJob("ingest", NoDoc, v))
      BY DEF RequestIngest
    <2>2. jobs' \in Seq(Jobs)
      BY <2>1, JobAdded DEF JobKinds
    <2> QED
      BY <2>2 DEF RequestIngest, content, Stored
  <1>3. Manned'
    BY <1>1, Stays DEF Manned, RequestIngest
  <1>4. Queued'
    <2>1. PICK v \in Versions : jobs' = Append(jobs, NewJob("ingest", NoDoc, v))
      BY DEF RequestIngest
    <2>2. \A j \in DOMAIN jobs' : (j \in DOMAIN jobs /\ jobs'[j] = jobs[j])
                                 \/ (jobs'[j].kind = "ingest" /\ jobs'[j].doc = NoDoc)
      BY <2>1, JobAdded DEF JobKinds
    <2> QED
      BY <1>1, <2>2 DEF RequestIngest, content, Queued, Growing, Stored, NoDoc
  <1>5. Known'
    BY <1>0, <1>1 DEF RequestIngest, content, counts, Room, Known, Stored, PurgedRowsStayGone,
       UnaskedStaysPrivate, Fits, Legal, Locals, At, NoDoc, Docs
  <1>6. PurgedRowsStayGone'
    BY <1>0, <1>1 DEF RequestIngest, content, counts, Room, PurgedRowsStayGone, Known, Stored, Fits, Legal,
       Locals, At, NoDoc, Docs
  <1>7. UnaskedStaysPrivate'
    BY <1>0, <1>1 DEF RequestIngest, content, counts, Room, UnaskedStaysPrivate, Stored, Fits, Legal, Locals,
       At, NoDoc, Docs
  <1> QED
    BY <1>2, <1>3, <1>4, <1>5, <1>6, <1>7

LEMMA RequestToggleKeeps ==
    ASSUME Base, NEW t \in Threads, NEW k \in {"share", "unshare"}, RequestToggle(t, k)
    PROVE  Base'
  <1> USE DEF Base
  <1>0. Worker \in Procs /\ Threads \subseteq Procs /\ t \in Procs
        /\ proc[t] \in Locals /\ Fits(t, proc[t], born, tomb, wanted)
    BY DEF Manned, Procs
  <1>1. Growing
    BY <1>0 DEF RequestToggle, content, counts, Growing, Stored, Fits, Legal, Locals, At, NoDoc, Docs
  <1>2. Stored'
    <2>1. wanted' \in [Docs -> {"none", "share", "unshare"}]
      BY DEF RequestToggle, Stored
    <2> QED
      BY <2>1 DEF RequestToggle, content, Stored
  <1>3. Manned'
    <2>1. CASE UNCHANGED proc
      BY <1>1, <2>1, Stays DEF Manned
    <2>2. CASE Start(t, k, "enqueue", row.id, 0, 0)
      <3>1. Fits(t, [Idle EXCEPT !.op = k, !.pc = "enqueue", !.doc = row.id, !.ver = 0, !.job = 0], born', tomb', wanted')
        BY IdleIs, SharingAssumption DEF Fits, Legal, OpNames, Known, Stored, RequestToggle, content, NoDoc,
           Idle, Procs
      <3>2. t \in Procs /\ k \in OpNames /\ "enqueue" \in Places
        BY DEF Procs, OpNames, Places
      <3> QED
        BY <1>1, <2>2, <3>1, <3>2, Begins DEF Stored
    <2> QED
      BY <2>1, <2>2 DEF RequestToggle
  <1>4. Queued'
    BY <1>0, <1>1 DEF RequestToggle, content, counts, Queued, Stored, Growing, Fits, Legal, Locals, At, NoDoc,
       Docs
  <1>5. Known'
    <2>1. UNCHANGED content /\ \A d \in Docs : wanted'[d] # "none" => wanted[d] # "none" \/ d = row.id
      BY DEF RequestToggle, content, Stored
    <2> QED
      BY <2>1 DEF content, Known
  <1>6. PurgedRowsStayGone'
    BY <1>0, <1>1 DEF RequestToggle, content, counts, PurgedRowsStayGone, Known, Stored, Fits, Legal, Locals,
       At, NoDoc, Docs
  <1>7. UnaskedStaysPrivate'
    BY <1>0, <1>1 DEF RequestToggle, content, counts, UnaskedStaysPrivate, Stored, Fits, Legal, Locals, At,
       NoDoc, Docs
  <1> QED
    BY <1>2, <1>3, <1>4, <1>5, <1>6, <1>7

LEMMA EnqueueToggleKeeps ==
    ASSUME Base, NEW t \in Threads, EnqueueToggle(t)
    PROVE  Base'
  <1> USE DEF Base
  <1>0. Worker \in Procs /\ Threads \subseteq Procs /\ t \in Procs
        /\ proc[t] \in Locals /\ Fits(t, proc[t], born, tomb, wanted)
    BY DEF Manned, Procs
  <1>1. Growing
    BY <1>0 DEF EnqueueToggle, content, counts, NewJob, Growing, Stored, Fits, Legal, Locals, At, NoDoc, Docs
  <1>2. Stored'
    <2>1. proc[t].op \in JobKinds /\ proc[t].doc \in Docs /\ proc[t].op \in {"share", "unshare"}
      BY <1>0 DEF EnqueueToggle, Fits, Legal, Locals, JobKinds, At
    <2>2. jobs' \in Seq(Jobs)
      BY <2>1, JobAdded DEF EnqueueToggle
    <2>3. wanted' \in [Docs -> {"none", "share", "unshare"}]
      BY <2>1 DEF EnqueueToggle, Stored
    <2> QED
      BY <2>2, <2>3 DEF EnqueueToggle, content, Stored
  <1>3. Manned'
    <2>1. Goto(t, proc[t], "idle") /\ t \in Procs /\ proc[t] \in Locals
      BY DEF EnqueueToggle, Goto, Procs, Manned
    <2> QED
      BY <1>1, <2>1, Moves DEF Places
  <1>4. Queued'
    <2>1. proc[t].op \in JobKinds /\ proc[t].doc \in Docs /\ proc[t].op \in {"share", "unshare"}
          /\ proc[t].doc <= born
      BY <1>0 DEF EnqueueToggle, Fits, Legal, Locals, JobKinds, At
    <2>2. \A j \in DOMAIN jobs' : (j \in DOMAIN jobs /\ jobs'[j] = jobs[j])
                                 \/ (jobs'[j].kind = proc[t].op /\ jobs'[j].doc = proc[t].doc)
      BY <2>1, JobAdded DEF EnqueueToggle
    <2>3. wanted'[proc[t].doc] = proc[t].op /\ UNCHANGED born
      BY <2>1 DEF EnqueueToggle, Stored, content
    <2> QED
      BY <1>1, <2>1, <2>2, <2>3 DEF Queued, Growing, Stored
  <1>5. Known'
    BY <1>0, <1>1 DEF EnqueueToggle, content, counts, NewJob, Known, Stored, PurgedRowsStayGone,
       UnaskedStaysPrivate, Fits, Legal, Locals, At, NoDoc, Docs
  <1>6. PurgedRowsStayGone'
    BY <1>0, <1>1 DEF EnqueueToggle, content, counts, NewJob, PurgedRowsStayGone, Known, Stored, Fits, Legal,
       Locals, At, NoDoc, Docs
  <1>7. UnaskedStaysPrivate'
    BY <1>0, <1>1 DEF EnqueueToggle, content, counts, NewJob, UnaskedStaysPrivate, Stored, Fits, Legal,
       Locals, At, NoDoc, Docs
  <1> QED
    BY <1>2, <1>3, <1>4, <1>5, <1>6, <1>7

LEMMA RequestPublishKeeps ==
    ASSUME Base, NEW t \in Threads, RequestPublish(t)
    PROVE  Base'
  <1> USE DEF Base
  <1>0. Worker \in Procs /\ Threads \subseteq Procs /\ t \in Procs
        /\ proc[t] \in Locals /\ Fits(t, proc[t], born, tomb, wanted)
    BY DEF Manned, Procs
  <1>1. Growing
    BY <1>0 DEF RequestPublish, Serve, content, counts, Growing, Stored, Fits, Legal, Locals, At, NoDoc, Docs
  <1>2. Stored'
    BY <1>0, <1>1, IdleIs DEF RequestPublish, Serve, content, counts, Stored, Fits, Legal, Locals, At, NoDoc,
       Docs
  <1>3. Manned'
    <2>1. Start(t, "publish", "insert", row.id, 0, 0) /\ t \in Procs /\ "publish" \in OpNames /\ "insert" \in Places
      BY DEF RequestPublish, Serve, Procs, OpNames, Places
    <2>2. Fits(t, [Idle EXCEPT !.op = "publish", !.pc = "insert", !.doc = row.id, !.ver = 0, !.job = 0], born', tomb', wanted')
      BY IdleIs DEF Fits, Legal, OpNames, Known, Stored, RequestPublish, Serve, content, NoDoc, Idle, Procs
    <2> QED
      BY <1>1, <2>1, <2>2, Begins DEF Stored
  <1>4. Queued'
    BY <1>0, <1>1 DEF RequestPublish, Serve, content, counts, Queued, Stored, Growing, Fits, Legal, Locals,
       At, NoDoc, Docs
  <1>5. Known'
    <2>1. UNCHANGED content /\ \A d \in Docs : wanted'[d] # "none" => wanted[d] # "none" \/ d = row.id
      BY DEF RequestPublish, Serve, content, Stored
    <2> QED
      BY <2>1 DEF content, Known
  <1>6. PurgedRowsStayGone'
    BY <1>0, <1>1 DEF RequestPublish, Serve, content, counts, PurgedRowsStayGone, Known, Stored, Fits, Legal,
       Locals, At, NoDoc, Docs
  <1>7. UnaskedStaysPrivate'
    BY <1>0, <1>1 DEF RequestPublish, Serve, content, counts, UnaskedStaysPrivate, Stored, Fits, Legal,
       Locals, At, NoDoc, Docs
  <1> QED
    BY <1>2, <1>3, <1>4, <1>5, <1>6, <1>7

LEMMA RequestUnpublishKeeps ==
    ASSUME Base, NEW t \in Threads, RequestUnpublish(t)
    PROVE  Base'
  <1> USE DEF Base
  <1>0. Worker \in Procs /\ Threads \subseteq Procs /\ t \in Procs
        /\ proc[t] \in Locals /\ Fits(t, proc[t], born, tomb, wanted)
    BY DEF Manned, Procs
  <1>1. Growing
    BY <1>0 DEF RequestUnpublish, Serve, content, counts, Growing, Stored, Fits, Legal, Locals, At, NoDoc, Docs
  <1>2. Stored'
    BY <1>0, <1>1, IdleIs DEF RequestUnpublish, Serve, content, counts, Stored, Fits, Legal, Locals, At,
       NoDoc, Docs
  <1>3. Manned'
    <2>1. Start(t, "unpublish", "delete", row.id, 0, 0) /\ t \in Procs /\ "unpublish" \in OpNames /\ "delete" \in Places
      BY DEF RequestUnpublish, Serve, Procs, OpNames, Places
    <2>2. Fits(t, [Idle EXCEPT !.op = "unpublish", !.pc = "delete", !.doc = row.id, !.ver = 0, !.job = 0], born', tomb', wanted')
      BY IdleIs DEF Fits, Legal, OpNames, Known, Stored, RequestUnpublish, Serve, content, NoDoc, Idle, Procs
    <2> QED
      BY <1>1, <2>1, <2>2, Begins DEF Stored
  <1>4. Queued'
    BY <1>0, <1>1 DEF RequestUnpublish, Serve, content, counts, Queued, Stored, Growing, Fits, Legal, Locals,
       At, NoDoc, Docs
  <1>5. Known'
    <2>1. UNCHANGED content /\ \A d \in Docs : wanted'[d] # "none" => wanted[d] # "none" \/ d = row.id
      BY DEF RequestUnpublish, Serve, content, Stored
    <2> QED
      BY <2>1 DEF content, Known
  <1>6. PurgedRowsStayGone'
    BY <1>0, <1>1 DEF RequestUnpublish, Serve, content, counts, PurgedRowsStayGone, Known, Stored, Fits,
       Legal, Locals, At, NoDoc, Docs
  <1>7. UnaskedStaysPrivate'
    BY <1>0, <1>1 DEF RequestUnpublish, Serve, content, counts, UnaskedStaysPrivate, Stored, Fits, Legal,
       Locals, At, NoDoc, Docs
  <1> QED
    BY <1>2, <1>3, <1>4, <1>5, <1>6, <1>7

LEMMA RequestAdminKeeps ==
    ASSUME Base, NEW t \in Threads, NEW d \in Docs, RequestAdmin(t, d)
    PROVE  Base'
  <1> USE DEF Base
  <1>0. Worker \in Procs /\ Threads \subseteq Procs /\ t \in Procs
        /\ proc[t] \in Locals /\ Fits(t, proc[t], born, tomb, wanted)
    BY DEF Manned, Procs
  <1>1. Growing
    BY <1>0 DEF RequestAdmin, Serve, content, counts, Growing, Stored, Fits, Legal, Locals, At, NoDoc, Docs
  <1>2. Stored'
    BY <1>0, <1>1, IdleIs DEF RequestAdmin, Serve, content, counts, Stored, Fits, Legal, Locals, At, NoDoc, Docs
  <1>3. Manned'
    <2>1. Start(t, "admin", "delete", d, 0, 0) /\ t \in Procs /\ "admin" \in OpNames /\ "delete" \in Places
      BY DEF RequestAdmin, Serve, Procs, OpNames, Places
    <2>2. d <= born
      BY DEF RequestAdmin, Known, UnaskedStaysPrivate, Stored
    <2>3. Fits(t, [Idle EXCEPT !.op = "admin", !.pc = "delete", !.doc = d, !.ver = 0, !.job = 0], born', tomb', wanted')
      BY <2>2, IdleIs DEF Fits, Legal, OpNames, Stored, RequestAdmin, Serve, content, NoDoc, Idle, Procs
    <2> QED
      BY <1>1, <2>1, <2>3, Begins
  <1>4. Queued'
    BY <1>0, <1>1 DEF RequestAdmin, Serve, content, counts, Queued, Stored, Growing, Fits, Legal, Locals, At,
       NoDoc, Docs
  <1>5. Known'
    BY <1>0, <1>1 DEF RequestAdmin, Serve, content, counts, Known, Stored, PurgedRowsStayGone,
       UnaskedStaysPrivate, Fits, Legal, Locals, At, NoDoc, Docs
  <1>6. PurgedRowsStayGone'
    BY <1>0, <1>1 DEF RequestAdmin, Serve, content, counts, PurgedRowsStayGone, Known, Stored, Fits, Legal,
       Locals, At, NoDoc, Docs
  <1>7. UnaskedStaysPrivate'
    BY <1>0, <1>1 DEF RequestAdmin, Serve, content, counts, UnaskedStaysPrivate, Stored, Fits, Legal, Locals,
       At, NoDoc, Docs
  <1> QED
    BY <1>2, <1>3, <1>4, <1>5, <1>6, <1>7

LEMMA RequestPurgeKeeps ==
    ASSUME Base, NEW t \in Threads, NEW d \in Docs, RequestPurge(t, d)
    PROVE  Base'
  <1> USE DEF Base
  <1>0. Worker \in Procs /\ Threads \subseteq Procs /\ t \in Procs
        /\ proc[t] \in Locals /\ Fits(t, proc[t], born, tomb, wanted)
    BY DEF Manned, Procs
  <1>1. Growing
    BY <1>0 DEF RequestPurge, Serve, content, counts, Growing, Stored, Fits, Legal, Locals, At, NoDoc, Docs
  <1>2. Stored'
    BY <1>0, <1>1, IdleIs DEF RequestPurge, Serve, content, counts, Stored, Fits, Legal, Locals, At, NoDoc, Docs
  <1>3. Manned'
    <2>1. t \in Procs /\ {"purge", "repurge"} \subseteq OpNames /\ "lock" \in Places /\ UNCHANGED content
      BY DEF RequestPurge, Serve, Procs, OpNames, Places
    <2>2. CASE row.id = d /\ Start(t, "purge", "lock", d, 0, 0)
      <3>1. Fits(t, [Idle EXCEPT !.op = "purge", !.pc = "lock", !.doc = d, !.ver = 0, !.job = 0], born', tomb', wanted')
        BY <2>1, <2>2, IdleIs DEF Fits, Legal, OpNames, Known, Stored, content, NoDoc, Idle, Procs
      <3> QED
        BY <1>1, <2>1, <2>2, <3>1, Begins
    <2>3. CASE tomb[d] = "partial" /\ Start(t, "repurge", "lock", d, 0, 0)
      <3>1. Fits(t, [Idle EXCEPT !.op = "repurge", !.pc = "lock", !.doc = d, !.ver = 0, !.job = 0], born', tomb', wanted')
        BY <2>1, <2>3, IdleIs DEF Fits, Legal, OpNames, Known, Stored, content, NoDoc, Idle, Procs
      <3> QED
        BY <1>1, <2>1, <2>3, <3>1, Begins
    <2> QED
      BY <2>2, <2>3 DEF RequestPurge, Serve
  <1>4. Queued'
    BY <1>0, <1>1 DEF RequestPurge, Serve, content, counts, Queued, Stored, Growing, Fits, Legal, Locals, At,
       NoDoc, Docs
  <1>5. Known'
    BY DEF RequestPurge, Serve, content, Known
  <1>6. PurgedRowsStayGone'
    BY <1>0, <1>1 DEF RequestPurge, Serve, content, counts, PurgedRowsStayGone, Known, Stored, Fits, Legal,
       Locals, At, NoDoc, Docs
  <1>7. UnaskedStaysPrivate'
    BY <1>0, <1>1 DEF RequestPurge, Serve, content, counts, UnaskedStaysPrivate, Stored, Fits, Legal, Locals,
       At, NoDoc, Docs
  <1> QED
    BY <1>2, <1>3, <1>4, <1>5, <1>6, <1>7

LEMMA RemoveKeeps ==
    ASSUME Base, NEW t \in Threads, Remove(t)
    PROVE  Base'
  <1> USE DEF Base
  <1>0. Worker \in Procs /\ Threads \subseteq Procs /\ t \in Procs
        /\ proc[t] \in Locals /\ Fits(t, proc[t], born, tomb, wanted)
    BY DEF Manned, Procs
  <1>1. Growing
    BY <1>0 DEF Remove, content, counts, Continue, Procs, Growing, Stored, Fits, Legal, Locals, At, NoDoc, Docs
  <1>2. Stored'
    BY <1>0 DEF Remove, Stored, NoDoc, Docs, Locals
  <1>3. Manned'
    <2>1. proc[t] \in Locals 
          /\ proc[t].op = proc[t].op
          /\ proc[t].doc = proc[t].doc
      BY <1>0, IdleIs, WholeIs DEF Locals, Stored
    <2>2. proc[t].pc \notin {"idle", "look"} /\ Advance(t, proc[t])
      BY DEF At, Continue, Remove, content, Procs
    <2>3. proc[t].pc = "remove" => tomb'[proc[t].doc] # "none"
      BY <1>0, <2>1 DEF At, Fits, Legal, Stored, Remove, content, Procs
    <2> QED
      BY <1>0, <1>1, <2>1, <2>2, <2>3, Continues
  <1>4. Queued'
    BY <1>0, <1>1 DEF Remove, content, counts, Continue, Procs, Queued, Stored, Growing, Fits, Legal, Locals,
       At, NoDoc, Docs
  <1>5. Known'
    BY <1>0, <1>1 DEF Remove, content, counts, Continue, Procs, Known, Stored, PurgedRowsStayGone,
       UnaskedStaysPrivate, Fits, Legal, Locals, At, NoDoc, Docs
  <1>6. PurgedRowsStayGone'
    BY <1>0, <1>1 DEF Remove, content, counts, Continue, Procs, PurgedRowsStayGone, Known, Stored, Fits,
       Legal, Locals, At, NoDoc, Docs
  <1>7. UnaskedStaysPrivate'
    BY <1>0, <1>1 DEF Remove, content, counts, Continue, Procs, UnaskedStaysPrivate, Stored, Fits, Legal,
       Locals, At, NoDoc, Docs
  <1> QED
    BY <1>2, <1>3, <1>4, <1>5, <1>6, <1>7

LEMMA CheckPathKeeps ==
    ASSUME Base, NEW t \in Threads, CheckPath(t)
    PROVE  Base'
  <1> USE DEF Base
  <1>0. Worker \in Procs /\ Threads \subseteq Procs /\ t \in Procs
        /\ proc[t] \in Locals /\ Fits(t, proc[t], born, tomb, wanted)
    BY DEF Manned, Procs
  <1>1. Growing
    BY <1>0 DEF CheckPath, content, counts, Continue, Procs, Growing, Stored, Fits, Legal, Locals, At, NoDoc,
       Docs
  <1>2. Stored'
    BY <1>0, <1>1, IdleIs DEF CheckPath, content, counts, Continue, Procs, Stored, Fits, Legal, Locals, At,
       NoDoc, Docs
  <1>3. Manned'
    <2> DEFINE b == row.id \in {NoDoc, proc[t].doc}
    <2>1. \A c \in BOOLEAN : LET r == [proc[t] EXCEPT !.path = c] IN
             r \in Locals /\ r.op = proc[t].op /\ r.doc = proc[t].doc
      BY <1>0 DEF Locals
    <2>2. b \in BOOLEAN
      OBVIOUS
    <2>3. proc[t].pc = "check" /\ Advance(t, [proc[t] EXCEPT !.path = b])
      BY DEF CheckPath, At
    <2> HIDE DEF b
    <2>4. LET r == [proc[t] EXCEPT !.path = b] IN
             r \in Locals /\ r.op = proc[t].op /\ r.doc = proc[t].doc
      BY <2>1, <2>2
    <2> QED
      BY <1>0, <1>1, <2>3, <2>4, Continues
  <1>4. Queued'
    BY <1>0, <1>1 DEF CheckPath, content, counts, Continue, Procs, Queued, Stored, Growing, Fits, Legal,
       Locals, At, NoDoc, Docs
  <1>5. Known'
    BY <1>0, <1>1 DEF CheckPath, content, counts, Continue, Procs, Known, Stored, PurgedRowsStayGone,
       UnaskedStaysPrivate, Fits, Legal, Locals, At, NoDoc, Docs
  <1>6. PurgedRowsStayGone'
    BY <1>0, <1>1 DEF CheckPath, content, counts, Continue, Procs, PurgedRowsStayGone, Known, Stored, Fits,
       Legal, Locals, At, NoDoc, Docs
  <1>7. UnaskedStaysPrivate'
    BY <1>0, <1>1 DEF CheckPath, content, counts, Continue, Procs, UnaskedStaysPrivate, Stored, Fits, Legal,
       Locals, At, NoDoc, Docs
  <1> QED
    BY <1>2, <1>3, <1>4, <1>5, <1>6, <1>7

LEMMA SweepKeeps ==
    ASSUME Base, NEW t \in Threads, Sweep(t)
    PROVE  Base'
  <1> USE DEF Base
  <1>0. Worker \in Procs /\ Threads \subseteq Procs /\ t \in Procs
        /\ proc[t] \in Locals /\ Fits(t, proc[t], born, tomb, wanted)
    BY DEF Manned, Procs
  <1>1. Growing
    BY <1>0 DEF Sweep, content, counts, Continue, Procs, WipePath, Growing, Stored, Fits, Legal, Locals, At,
       NoDoc, Docs
  <1>2. Stored'
    BY <1>0, IdleIs DEF Sweep, WipePath, content, Stored
  <1>3. Manned'
    <2>1. proc[t] \in Locals 
          /\ proc[t].op = proc[t].op
          /\ proc[t].doc = proc[t].doc
      BY <1>0, IdleIs, WholeIs DEF Locals, Stored
    <2>2. proc[t].pc \notin {"idle", "look"} /\ Advance(t, proc[t])
      BY DEF At, Continue, Sweep, content, Procs, WipePath
    <2>3. proc[t].pc = "remove" => tomb'[proc[t].doc] # "none"
      BY <1>0, <2>1 DEF At, Fits, Legal, Stored, Sweep, content, Procs, WipePath
    <2> QED
      BY <1>0, <1>1, <2>1, <2>2, <2>3, Continues
  <1>4. Queued'
    BY <1>0, <1>1 DEF Sweep, content, counts, Continue, Procs, WipePath, Queued, Stored, Growing, Fits, Legal,
       Locals, At, NoDoc, Docs
  <1>5. Known'
    BY <1>0, <1>1 DEF Sweep, content, counts, Continue, Procs, WipePath, Known, Stored, PurgedRowsStayGone,
       UnaskedStaysPrivate, Fits, Legal, Locals, At, NoDoc, Docs
  <1>6. PurgedRowsStayGone'
    BY <1>0, <1>1 DEF Sweep, content, counts, Continue, Procs, WipePath, PurgedRowsStayGone, Known, Stored,
       Fits, Legal, Locals, At, NoDoc, Docs
  <1>7. UnaskedStaysPrivate'
    BY <1>0, <1>1 DEF Sweep, content, counts, Continue, Procs, WipePath, UnaskedStaysPrivate, Stored, Fits,
       Legal, Locals, At, NoDoc, Docs
  <1> QED
    BY <1>2, <1>3, <1>4, <1>5, <1>6, <1>7

LEMMA StampKeeps ==
    ASSUME Base, NEW t \in Threads, Stamp(t)
    PROVE  Base'
  <1> USE DEF Base
  <1>0. Worker \in Procs /\ Threads \subseteq Procs /\ t \in Procs
        /\ proc[t] \in Locals /\ Fits(t, proc[t], born, tomb, wanted)
    BY DEF Manned, Procs
  <1>1. Growing
    BY <1>0 DEF Stamp, content, counts, Continue, Procs, Growing, Stored, Fits, Legal, Locals, At, NoDoc, Docs
  <1>2. Stored'
    BY <1>0, <1>1, IdleIs DEF Stamp, content, counts, Continue, Procs, Stored, Fits, Legal, Locals, At, NoDoc,
       Docs
  <1>3. Manned'
    <2>1. proc[t] \in Locals 
          /\ proc[t].op = proc[t].op
          /\ proc[t].doc = proc[t].doc
      BY <1>0, IdleIs, WholeIs DEF Locals, Stored
    <2>2. proc[t].pc \notin {"idle", "look"} /\ Advance(t, proc[t])
      BY DEF At, Continue, Stamp, content, Procs
    <2>3. proc[t].pc = "remove" => tomb'[proc[t].doc] # "none"
      BY <1>0, <2>1 DEF At, Fits, Legal, Stored, Stamp, content, Procs
    <2> QED
      BY <1>0, <1>1, <2>1, <2>2, <2>3, Continues
  <1>4. Queued'
    BY <1>0, <1>1 DEF Stamp, content, counts, Continue, Procs, Queued, Stored, Growing, Fits, Legal, Locals,
       At, NoDoc, Docs
  <1>5. Known'
    BY <1>0, <1>1 DEF Stamp, content, counts, Continue, Procs, Known, Stored, PurgedRowsStayGone,
       UnaskedStaysPrivate, Fits, Legal, Locals, At, NoDoc, Docs
  <1>6. PurgedRowsStayGone'
    BY <1>0, <1>1 DEF Stamp, content, counts, Continue, Procs, PurgedRowsStayGone, Known, Stored, Fits, Legal,
       Locals, At, NoDoc, Docs
  <1>7. UnaskedStaysPrivate'
    BY <1>0, <1>1 DEF Stamp, content, counts, Continue, Procs, UnaskedStaysPrivate, Stored, Fits, Legal,
       Locals, At, NoDoc, Docs
  <1> QED
    BY <1>2, <1>3, <1>4, <1>5, <1>6, <1>7

LEMMA VerifyKeeps ==
    ASSUME Base, NEW t \in Threads, Verify(t)
    PROVE  Base'
  <1> USE DEF Base
  <1>0. Worker \in Procs /\ Threads \subseteq Procs /\ t \in Procs
        /\ proc[t] \in Locals /\ Fits(t, proc[t], born, tomb, wanted)
    BY DEF Manned, Procs
  <1>1. Growing
    BY <1>0 DEF Verify, content, counts, Continue, Procs, Growing, Stored, Fits, Legal, Locals, At, NoDoc, Docs
  <1>2. Stored'
    BY <1>0, <1>1, IdleIs DEF Verify, content, counts, Continue, Procs, Stored, Fits, Legal, Locals, At,
       NoDoc, Docs
  <1>3. Manned'
    <2>1. proc[t] \in Locals 
          /\ proc[t].op = proc[t].op
          /\ proc[t].doc = proc[t].doc
      BY <1>0, IdleIs, WholeIs DEF Locals, Stored
    <2>2. proc[t].pc \notin {"idle", "look"} /\ Advance(t, proc[t])
      BY DEF At, Continue, Verify, content, Procs
    <2>3. proc[t].pc = "remove" => tomb'[proc[t].doc] # "none"
      BY <1>0, <2>1 DEF At, Fits, Legal, Stored, Verify, content, Procs
    <2> QED
      BY <1>0, <1>1, <2>1, <2>2, <2>3, Continues
  <1>4. Queued'
    BY <1>0, <1>1 DEF Verify, content, counts, Continue, Procs, Queued, Stored, Growing, Fits, Legal, Locals,
       At, NoDoc, Docs
  <1>5. Known'
    BY <1>0, <1>1 DEF Verify, content, counts, Continue, Procs, Known, Stored, PurgedRowsStayGone,
       UnaskedStaysPrivate, Fits, Legal, Locals, At, NoDoc, Docs
  <1>6. PurgedRowsStayGone'
    BY <1>0, <1>1 DEF Verify, content, counts, Continue, Procs, PurgedRowsStayGone, Known, Stored, Fits,
       Legal, Locals, At, NoDoc, Docs
  <1>7. UnaskedStaysPrivate'
    BY <1>0, <1>1 DEF Verify, content, counts, Continue, Procs, UnaskedStaysPrivate, Stored, Fits, Legal,
       Locals, At, NoDoc, Docs
  <1> QED
    BY <1>2, <1>3, <1>4, <1>5, <1>6, <1>7

LEMMA ClaimKeeps ==
    ASSUME Base, Claim
    PROVE  Base'
  <1> USE DEF Base
  <1>0. Worker \in Procs /\ Threads \subseteq Procs /\ Worker \in Procs
        /\ proc[Worker] \in Locals /\ Fits(Worker, proc[Worker], born, tomb, wanted)
    BY DEF Manned, Procs
  <1>1. Growing
    BY <1>0 DEF Claim, content, counts, Growing, Stored, Fits, Legal, Locals, At, NoDoc, Docs
  <1>2. Stored'
    <2>0. PICK j \in DOMAIN jobs : jobs' = [jobs EXCEPT ![j] = [jobs[j] EXCEPT !.status = "running"]]
      BY DEF Claim
    <2>1. jobs[j] \in Jobs /\ [jobs[j] EXCEPT !.status = "running"] \in Jobs
      BY JobsAre, JobIs
    <2>2. jobs' \in Seq(Jobs)
      BY <2>0, <2>1, JobChanged DEF Stored
    <2> QED
      BY <2>2 DEF Claim, content, Stored
  <1>3. Manned'
    <2>1. PICK j \in DOMAIN jobs : Start(Worker, jobs[j].kind, FirstStep(jobs[j].kind), jobs[j].doc, jobs[j].ver, j)
      BY DEF Claim
    <2> DEFINE k == jobs[j].kind
               s == FirstStep(jobs[j].kind)
    <2>2. /\ jobs[j] \in Jobs /\ j \in Nat /\ Worker \in Procs /\ k \in OpNames /\ s \in Places
          /\ k = "ingest" => s = "hash"
          /\ k # "ingest" => s = "read"
          /\ k \in {"share", "unshare", "ingest"}
      BY <1>0, JobsAre DEF Stored, Jobs, JobKinds, OpNames, Places, FirstStep, Procs
    <2>3. Fits(Worker, [Idle EXCEPT !.op = k, !.pc = s, !.doc = jobs[j].doc, !.ver = jobs[j].ver, !.job = j], born', tomb', wanted')
      BY <2>2, IdleIs DEF Fits, Legal, OpNames, Queued, Stored, Claim, content, Idle, Jobs, JobKinds
    <2> QED
      BY <1>1, <2>1, <2>2, <2>3, Begins DEF Jobs
  <1>4. Queued'
    BY <1>0, <1>1 DEF Claim, content, counts, Queued, Stored, Growing, Fits, Legal, Locals, At, NoDoc, Docs
  <1>5. Known'
    BY <1>0, <1>1 DEF Claim, content, counts, Known, Stored, PurgedRowsStayGone, UnaskedStaysPrivate, Fits,
       Legal, Locals, At, NoDoc, Docs
  <1>6. PurgedRowsStayGone'
    BY <1>0, <1>1 DEF Claim, content, counts, PurgedRowsStayGone, Known, Stored, Fits, Legal, Locals, At,
       NoDoc, Docs
  <1>7. UnaskedStaysPrivate'
    BY <1>0, <1>1 DEF Claim, content, counts, UnaskedStaysPrivate, Stored, Fits, Legal, Locals, At, NoDoc, Docs
  <1> QED
    BY <1>2, <1>3, <1>4, <1>5, <1>6, <1>7

LEMMA CompleteKeeps ==
    ASSUME Base, Complete
    PROVE  Base'
  <1> USE DEF Base
  <1>0. Worker \in Procs /\ Threads \subseteq Procs /\ Worker \in Procs
        /\ proc[Worker] \in Locals /\ Fits(Worker, proc[Worker], born, tomb, wanted)
    BY DEF Manned, Procs
  <1>1. Growing
    BY <1>0 DEF Complete, content, counts, Growing, Stored
  <1>2. Stored'
    <2> DEFINE j == proc[Worker].job
    <2>0. jobs' = [jobs EXCEPT ![j] = [jobs[j] EXCEPT !.status = "done"]]
      BY DEF Complete
    <2>1. CASE j \in DOMAIN jobs
      <3>1. jobs[j] \in Jobs /\ [jobs[j] EXCEPT !.status = "done"] \in Jobs
        BY <2>1, JobsAre, JobIs
      <3>2. jobs' \in Seq(Jobs)
        BY <2>0, <2>1, <3>1, JobChanged DEF Stored
      <3> QED
        BY <3>2 DEF Complete, content, Stored
    <2>2. CASE j \notin DOMAIN jobs
      <3>1. jobs' = jobs
        BY <2>0, <2>2 DEF Stored
      <3> QED
        BY <3>1 DEF Complete, content, Stored
    <2> QED
      BY <2>1, <2>2
  <1>3. Manned'
    <2>1. proc[Worker] \in Locals 
          /\ proc[Worker].op = proc[Worker].op
          /\ proc[Worker].doc = proc[Worker].doc
      BY <1>0, IdleIs, WholeIs DEF Locals, Stored
    <2>2. proc[Worker].pc \notin {"idle", "look"} /\ Advance(Worker, proc[Worker])
      BY DEF At, Continue, Complete, content, Procs
    <2>3. proc[Worker].pc = "remove" => tomb'[proc[Worker].doc] # "none"
      BY <1>0, <2>1 DEF At, Fits, Legal, Stored, Complete, content, Procs
    <2> QED
      BY <1>0, <1>1, <2>1, <2>2, <2>3, Continues
  <1>4. Queued'
    BY <1>0, <1>1 DEF Complete, content, counts, Queued, Stored, Growing
  <1>5. Known'
    BY <1>0, <1>1 DEF Complete, content, counts, Continue, Procs, Known, Stored, PurgedRowsStayGone,
       UnaskedStaysPrivate, Fits, Legal, Locals, At, NoDoc, Docs
  <1>6. PurgedRowsStayGone'
    BY <1>0, <1>1 DEF Complete, content, counts, Continue, Procs, PurgedRowsStayGone, Known, Stored, Fits,
       Legal, Locals, At, NoDoc, Docs
  <1>7. UnaskedStaysPrivate'
    BY <1>0, <1>1 DEF Complete, content, counts, Continue, Procs, UnaskedStaysPrivate, Stored, Fits, Legal,
       Locals, At, NoDoc, Docs
  <1> QED
    BY <1>2, <1>3, <1>4, <1>5, <1>6, <1>7

LEMMA ReadSourceKeeps ==
    ASSUME Base, ReadSource
    PROVE  Base'
  <1> USE DEF Base
  <1>0. Worker \in Procs /\ Threads \subseteq Procs /\ Worker \in Procs
        /\ proc[Worker] \in Locals /\ Fits(Worker, proc[Worker], born, tomb, wanted)
    BY DEF Manned, Procs
  <1>1. Growing
    BY <1>0 DEF ReadSource, content, counts, Continue, Growing, Stored, Fits, Legal, Locals, At, NoDoc, Docs
  <1>2. Stored'
    BY <1>0, <1>1, IdleIs DEF ReadSource, content, counts, Continue, Stored, Fits, Legal, Locals, At, NoDoc,
       Docs
  <1>3. Manned'
    <2>1. CASE Advance(Worker, proc[Worker])
      <3>1. Worker \in Procs /\ proc[Worker] \in Locals /\ proc[Worker].pc \notin {"idle", "look", "remove"}
            /\ proc[Worker].op = proc[Worker].op /\ proc[Worker].doc = proc[Worker].doc
        BY DEF Manned, Locals, Stored, At, ReadSource, Procs
      <3> QED
        BY <1>1, <2>1, <3>1, Continues
    <2>2. CASE Goto(Worker, proc[Worker], "complete")
      <3>1. Worker \in Procs /\ proc[Worker] \in Locals /\ Fits(Worker, proc[Worker], born', tomb', wanted')
        BY <1>1, Stays DEF Manned, Locals, Stored, Procs
      <3>2. "complete" = "idle" \/ Fits(Worker, [proc[Worker] EXCEPT !.pc = "complete"], born', tomb', wanted')
        BY <3>1 DEF Manned, Locals, Fits, Legal, OpNames, At, ReadSource
      <3> QED
        BY <1>1, <2>2, <3>1, <3>2, Moves DEF Places
    <2> QED
      BY <2>1, <2>2 DEF ReadSource, Continue
  <1>4. Queued'
    BY <1>0, <1>1 DEF ReadSource, content, counts, Continue, Queued, Stored, Growing, Fits, Legal, Locals, At,
       NoDoc, Docs
  <1>5. Known'
    BY <1>0, <1>1 DEF ReadSource, content, counts, Continue, Known, Stored, PurgedRowsStayGone,
       UnaskedStaysPrivate, Fits, Legal, Locals, At, NoDoc, Docs
  <1>6. PurgedRowsStayGone'
    BY <1>0, <1>1 DEF ReadSource, content, counts, Continue, PurgedRowsStayGone, Known, Stored, Fits, Legal,
       Locals, At, NoDoc, Docs
  <1>7. UnaskedStaysPrivate'
    BY <1>0, <1>1 DEF ReadSource, content, counts, Continue, UnaskedStaysPrivate, Stored, Fits, Legal, Locals,
       At, NoDoc, Docs
  <1> QED
    BY <1>2, <1>3, <1>4, <1>5, <1>6, <1>7

LEMMA RecheckKeeps ==
    ASSUME Base, Recheck
    PROVE  Base'
  <1> USE DEF Base
  <1>0. Worker \in Procs /\ Threads \subseteq Procs /\ Worker \in Procs
        /\ proc[Worker] \in Locals /\ Fits(Worker, proc[Worker], born, tomb, wanted)
    BY DEF Manned, Procs
  <1>1. Growing
    BY <1>0 DEF Recheck, content, counts, Continue, Growing, Stored, Fits, Legal, Locals, At, NoDoc, Docs
  <1>2. Stored'
    BY <1>0, <1>1, IdleIs DEF Recheck, content, counts, Continue, Stored, Fits, Legal, Locals, At, NoDoc, Docs
  <1>3. Manned'
    <2>1. CASE Advance(Worker, proc[Worker])
      <3>1. Worker \in Procs /\ proc[Worker] \in Locals /\ proc[Worker].pc \notin {"idle", "look", "remove"}
            /\ proc[Worker].op = proc[Worker].op /\ proc[Worker].doc = proc[Worker].doc
        BY DEF Manned, Locals, Stored, At, Recheck, Procs
      <3> QED
        BY <1>1, <2>1, <3>1, Continues
    <2>2. CASE Goto(Worker, proc[Worker], "unlock")
      <3>1. Worker \in Procs /\ proc[Worker] \in Locals /\ Fits(Worker, proc[Worker], born', tomb', wanted')
        BY <1>1, Stays DEF Manned, Locals, Stored, Procs
      <3>2. "unlock" = "idle" \/ Fits(Worker, [proc[Worker] EXCEPT !.pc = "unlock"], born', tomb', wanted')
        BY <3>1 DEF Manned, Locals, Fits, Legal, OpNames, At, Recheck
      <3> QED
        BY <1>1, <2>2, <3>1, <3>2, Moves DEF Places
    <2> QED
      BY <2>1, <2>2 DEF Recheck, Continue
  <1>4. Queued'
    BY <1>0, <1>1 DEF Recheck, content, counts, Continue, Queued, Stored, Growing, Fits, Legal, Locals, At,
       NoDoc, Docs
  <1>5. Known'
    BY <1>0, <1>1 DEF Recheck, content, counts, Continue, Known, Stored, PurgedRowsStayGone,
       UnaskedStaysPrivate, Fits, Legal, Locals, At, NoDoc, Docs
  <1>6. PurgedRowsStayGone'
    BY <1>0, <1>1 DEF Recheck, content, counts, Continue, PurgedRowsStayGone, Known, Stored, Fits, Legal,
       Locals, At, NoDoc, Docs
  <1>7. UnaskedStaysPrivate'
    BY <1>0, <1>1 DEF Recheck, content, counts, Continue, UnaskedStaysPrivate, Stored, Fits, Legal, Locals,
       At, NoDoc, Docs
  <1> QED
    BY <1>2, <1>3, <1>4, <1>5, <1>6, <1>7

LEMMA HashKeeps ==
    ASSUME Base, Hash
    PROVE  Base'
  <1> USE DEF Base
  <1>0. Worker \in Procs /\ Threads \subseteq Procs /\ Worker \in Procs
        /\ proc[Worker] \in Locals /\ Fits(Worker, proc[Worker], born, tomb, wanted)
    BY DEF Manned, Procs
  <1>1. Growing
    BY <1>0 DEF Hash, content, counts, Continue, Growing, Stored, Fits, Legal, Locals, At, NoDoc, Docs
  <1>2. Stored'
    BY <1>0, <1>1, IdleIs DEF Hash, content, counts, Continue, Stored, Fits, Legal, Locals, At, NoDoc, Docs
  <1>3. Manned'
    <2>1. CASE Advance(Worker, proc[Worker])
      <3>1. Worker \in Procs /\ proc[Worker] \in Locals /\ proc[Worker].pc \notin {"idle", "look", "remove"}
            /\ proc[Worker].op = proc[Worker].op /\ proc[Worker].doc = proc[Worker].doc
        BY DEF Manned, Locals, Stored, At, Hash, Procs
      <3> QED
        BY <1>1, <2>1, <3>1, Continues
    <2>2. CASE Goto(Worker, proc[Worker], "complete")
      <3>1. Worker \in Procs /\ proc[Worker] \in Locals /\ Fits(Worker, proc[Worker], born', tomb', wanted')
        BY <1>1, Stays DEF Manned, Locals, Stored, Procs
      <3>2. "complete" = "idle" \/ Fits(Worker, [proc[Worker] EXCEPT !.pc = "complete"], born', tomb', wanted')
        BY <3>1 DEF Manned, Locals, Fits, Legal, OpNames, At, Hash
      <3> QED
        BY <1>1, <2>2, <3>1, <3>2, Moves DEF Places
    <2> QED
      BY <2>1, <2>2 DEF Hash, Continue
  <1>4. Queued'
    BY <1>0, <1>1 DEF Hash, content, counts, Continue, Queued, Stored, Growing, Fits, Legal, Locals, At,
       NoDoc, Docs
  <1>5. Known'
    BY <1>0, <1>1 DEF Hash, content, counts, Continue, Known, Stored, PurgedRowsStayGone, UnaskedStaysPrivate,
       Fits, Legal, Locals, At, NoDoc, Docs
  <1>6. PurgedRowsStayGone'
    BY <1>0, <1>1 DEF Hash, content, counts, Continue, PurgedRowsStayGone, Known, Stored, Fits, Legal, Locals,
       At, NoDoc, Docs
  <1>7. UnaskedStaysPrivate'
    BY <1>0, <1>1 DEF Hash, content, counts, Continue, UnaskedStaysPrivate, Stored, Fits, Legal, Locals, At,
       NoDoc, Docs
  <1> QED
    BY <1>2, <1>3, <1>4, <1>5, <1>6, <1>7

LEMMA WipeKeeps ==
    ASSUME Base, Wipe
    PROVE  Base'
  <1> USE DEF Base
  <1>0. Worker \in Procs /\ Threads \subseteq Procs /\ Worker \in Procs
        /\ proc[Worker] \in Locals /\ Fits(Worker, proc[Worker], born, tomb, wanted)
    BY DEF Manned, Procs
  <1>1. Growing
    BY <1>0 DEF Wipe, content, counts, Continue, Procs, WipePath, Whole, Growing, Stored, Fits, Legal, Locals,
       At, NoDoc, Docs
  <1>2. Stored'
    BY IdleIs DEF Wipe, WipePath, Stored
  <1>3. Manned'
    <2>1. [proc[Worker] EXCEPT !.todo = Whole(proc[Worker].ver)] \in Locals 
          /\ [proc[Worker] EXCEPT !.todo = Whole(proc[Worker].ver)].op = proc[Worker].op
          /\ [proc[Worker] EXCEPT !.todo = Whole(proc[Worker].ver)].doc = proc[Worker].doc
      BY <1>0, IdleIs, WholeIs DEF Locals, Stored
    <2>2. proc[Worker].pc \notin {"idle", "look"} /\ Advance(Worker, [proc[Worker] EXCEPT !.todo = Whole(proc[Worker].ver)])
      BY DEF At, Continue, Wipe, content, Procs, WipePath, Whole
    <2>3. proc[Worker].pc = "remove" => tomb'[[proc[Worker] EXCEPT !.todo = Whole(proc[Worker].ver)].doc] # "none"
      BY <1>0, <2>1 DEF At, Fits, Legal, Stored, Wipe, content, Procs, WipePath, Whole
    <2> QED
      BY <1>0, <1>1, <2>1, <2>2, <2>3, Continues
  <1>4. Queued'
    BY <1>0, <1>1 DEF Wipe, content, counts, Continue, Procs, WipePath, Whole, Queued, Stored, Growing, Fits,
       Legal, Locals, At, NoDoc, Docs
  <1>5. Known'
    BY <1>0, <1>1 DEF Wipe, content, counts, Continue, Procs, WipePath, Whole, Known, Stored,
       PurgedRowsStayGone, UnaskedStaysPrivate, Fits, Legal, Locals, At, NoDoc, Docs
  <1>6. PurgedRowsStayGone'
    BY <1>0, <1>1 DEF Wipe, content, counts, Continue, Procs, WipePath, Whole, PurgedRowsStayGone, Known,
       Stored, Fits, Legal, Locals, At, NoDoc, Docs
  <1>7. UnaskedStaysPrivate'
    BY <1>0, <1>1 DEF Wipe, content, counts, Continue, Procs, WipePath, Whole, UnaskedStaysPrivate, Stored,
       Fits, Legal, Locals, At, NoDoc, Docs
  <1> QED
    BY <1>2, <1>3, <1>4, <1>5, <1>6, <1>7

LEMMA WriteKeeps ==
    ASSUME Base, Write
    PROVE  Base'
  <1> USE DEF Base
  <1>0. Worker \in Procs /\ Threads \subseteq Procs /\ Worker \in Procs
        /\ proc[Worker] \in Locals /\ Fits(Worker, proc[Worker], born, tomb, wanted)
    BY DEF Manned, Procs
  <1>1. Growing
    BY <1>0 DEF Write, content, counts, Continue, Growing, Stored, Fits, Legal, Locals, At, NoDoc, Docs
  <1>2. Stored'
    <2>1. personal' \in [Ix -> Versions \cup {0}]
      <3>1. CASE UNCHANGED personal
        BY <3>1 DEF Stored
      <3>2. CASE \E i \in Ix : personal' = [personal EXCEPT ![i] = proc[Worker].todo[i]]
        BY <1>0, <3>2 DEF Stored, Locals
      <3> QED
        BY <3>1, <3>2 DEF Write
    <2> QED
      BY <2>1 DEF Write, Stored
  <1>3. Manned'
    <2>0. Worker \in Procs /\ proc[Worker] \in Locals /\ Fits(Worker, proc[Worker], born', tomb', wanted')
          /\ At(Worker, "write")
      BY <1>1, Stays DEF Manned, Procs, Write
    <2>1. CASE Continue(Worker)
      BY <1>1, <2>0, <2>1, Continues DEF Continue, At
    <2>2. CASE \E i \in Ix : Goto(Worker, [proc[Worker] EXCEPT !.todo[i] = 0], "write")
      <3>1. PICK i \in Ix : Goto(Worker, [proc[Worker] EXCEPT !.todo[i] = 0], "write")
        BY <2>2
      <3> DEFINE r == [proc[Worker] EXCEPT !.todo[i] = 0]
      <3>2. r \in Locals
        BY <2>0 DEF Locals
      <3>3. Fits(Worker, [r EXCEPT !.pc = "write"], born', tomb', wanted')
        BY <2>0 DEF Fits, Legal, Locals, OpNames, At
      <3> QED
        BY <1>1, <2>0, <3>1, <3>2, <3>3, Moves DEF Places
    <2> QED
      BY <2>1, <2>2 DEF Write
  <1>4. Queued'
    BY <1>0, <1>1 DEF Write, content, counts, Continue, Queued, Stored, Growing, Fits, Legal, Locals, At,
       NoDoc, Docs
  <1>5. Known'
    BY <1>0, <1>1 DEF Write, content, counts, Continue, Known, Stored, PurgedRowsStayGone,
       UnaskedStaysPrivate, Fits, Legal, Locals, At, NoDoc, Docs
  <1>6. PurgedRowsStayGone'
    BY <1>0, <1>1 DEF Write, content, counts, Continue, PurgedRowsStayGone, Known, Stored, Fits, Legal,
       Locals, At, NoDoc, Docs
  <1>7. UnaskedStaysPrivate'
    BY <1>0, <1>1 DEF Write, content, counts, Continue, UnaskedStaysPrivate, Stored, Fits, Legal, Locals, At,
       NoDoc, Docs
  <1> QED
    BY <1>2, <1>3, <1>4, <1>5, <1>6, <1>7

LEMMA IndexKeeps ==
    ASSUME Base, Index
    PROVE  Base'
  <1> USE DEF Base
  <1>0. Worker \in Procs /\ Threads \subseteq Procs /\ Worker \in Procs
        /\ proc[Worker] \in Locals /\ Fits(Worker, proc[Worker], born, tomb, wanted)
    BY DEF Manned, Procs
  <1>1. Growing
    <2>1. born' \in Nat /\ born <= born'
      BY DEF Index, Stored
    <2> QED
      BY <2>1 DEF Index, Growing
  <1>2. Stored'
    <2>0. proc[Worker].ver \in Versions \cup {0} /\ row.id \in Docs \cup {NoDoc} /\ born \in 0 .. MaxDocs
      BY <1>0 DEF Locals, Stored
    <2>1. CASE row.id # NoDoc /\ row' = [row EXCEPT !.ver = proc[Worker].ver] /\ born' = born
      BY <2>0, <2>1 DEF Index, Stored, NoDoc, Docs
    <2>2. CASE UNCHANGED <<row, born>>
      BY <2>2 DEF Index, Stored, NoDoc, Docs
    <2>3. CASE /\ row.id = NoDoc /\ born < MaxDocs /\ born' = born + 1
               /\ row' = [id |-> born + 1, ver |-> proc[Worker].ver]
      BY SMTT(40), <2>0, <2>3, <1>1 DEF Index, Stored, NoDoc, Docs
    <2> QED
      BY <2>1, <2>2, <2>3 DEF Index
  <1>3. Manned'
    <2>1. proc[Worker] \in Locals 
          /\ proc[Worker].op = proc[Worker].op
          /\ proc[Worker].doc = proc[Worker].doc
      BY <1>0, IdleIs, WholeIs DEF Locals, Stored
    <2>2. proc[Worker].pc \notin {"idle", "look"} /\ Advance(Worker, proc[Worker])
      BY DEF At, Continue, Index, content, Procs
    <2>3. proc[Worker].pc = "remove" => tomb'[proc[Worker].doc] # "none"
      BY <1>0, <2>1 DEF At, Fits, Legal, Stored, Index, content, Procs
    <2> QED
      BY <1>0, <1>1, <2>1, <2>2, <2>3, Continues
  <1>4. Queued'
    <2>1. \A j \in DOMAIN jobs : jobs[j].doc \in Nat
      BY JobsAre DEF Jobs, NoDoc, Docs
    <2> QED
      BY <1>1, <2>1 DEF Index, Queued, Growing, Stored
  <1>5. Known'
    <2>0. proc[Worker].ver \in Versions \cup {0} /\ row.id \in Docs \cup {NoDoc} /\ born \in 0 .. MaxDocs
      BY <1>0 DEF Locals, Stored
    <2>1. CASE row.id # NoDoc /\ row' = [row EXCEPT !.ver = proc[Worker].ver] /\ born' = born
      BY <2>0, <2>1 DEF Index, Known, Stored, NoDoc, Docs
    <2>2. CASE UNCHANGED <<row, born>>
      BY <2>2 DEF Index, Known, Stored, NoDoc, Docs
    <2>3. CASE /\ row.id = NoDoc /\ born < MaxDocs /\ born' = born + 1
               /\ row' = [id |-> born + 1, ver |-> proc[Worker].ver]
      BY <2>0, <2>3, <1>1 DEF Index, Known, Stored, NoDoc, Docs
    <2> QED
      BY <2>1, <2>2, <2>3 DEF Index
  <1>6. PurgedRowsStayGone'
    BY <1>0, <1>1 DEF Index, content, counts, Continue, Procs, PurgedRowsStayGone, Known, Stored, Fits, Legal,
       Locals, At, NoDoc, Docs
  <1>7. UnaskedStaysPrivate'
    BY <1>0, <1>1 DEF Index, content, counts, Continue, Procs, UnaskedStaysPrivate, Stored, Fits, Legal,
       Locals, At, NoDoc, Docs
  <1> QED
    BY <1>2, <1>3, <1>4, <1>5, <1>6, <1>7

LEMMA LookKeeps ==
    ASSUME Base, Look
    PROVE  Base'
  <1> USE DEF Base
  <1>0. Worker \in Procs /\ Threads \subseteq Procs /\ Worker \in Procs
        /\ proc[Worker] \in Locals /\ Fits(Worker, proc[Worker], born, tomb, wanted)
    BY DEF Manned, Procs
  <1>1. Growing
    BY <1>0 DEF Look, content, counts, Continue, Growing, Stored, Fits, Legal, Locals, At, NoDoc, Docs
  <1>2. Stored'
    BY <1>0, <1>1, IdleIs DEF Look, content, counts, Continue, Stored, Fits, Legal, Locals, At, NoDoc, Docs
  <1>3. Manned'
    <2>0. Worker \in Procs /\ proc[Worker] \in Locals /\ Fits(Worker, proc[Worker], born', tomb', wanted')
          /\ At(Worker, "look") /\ proc[Worker].op = "ingest" /\ UNCHANGED content
      BY <1>1, Stays DEF Manned, Procs, Look, Fits, Legal, At
    <2>1. CASE row.id \in shared /\ Advance(Worker, [proc[Worker] EXCEPT !.doc = row.id])
      <3> DEFINE r == [proc[Worker] EXCEPT !.doc = row.id]
      <3>1. r \in Locals /\ r.op = "ingest" /\ r.doc = row.id /\ row.id \in Docs
        BY <2>0, <2>1 DEF Locals, Stored
      <3>2. Following("ingest", "look") = "lock"
        BY Successors DEF Legal, OpNames, Places
      <3>3. Goto(Worker, r, "lock")
        BY <2>0, <2>1, <3>2 DEF Advance, At
      <3>4. Fits(Worker, [r EXCEPT !.pc = "lock"], born', tomb', wanted')
        <4>1. row.id <= born' /\ wanted'[row.id] # "none"
          BY <2>0, <2>1, <3>1, <1>1 DEF Known, UnaskedStaysPrivate, content, Look
        <4> QED
          BY <3>1, <4>1 DEF Fits, Legal, Locals, OpNames
      <3> QED
        BY <1>1, <2>0, <3>1, <3>3, <3>4, Moves DEF Places
    <2>2. CASE Goto(Worker, proc[Worker], "complete")
      <3>1. Fits(Worker, [proc[Worker] EXCEPT !.pc = "complete"], born', tomb', wanted')
        BY <2>0 DEF Fits, Legal, Locals, OpNames, At
      <3> QED
        BY <1>1, <2>0, <2>2, <3>1, Moves DEF Places
    <2> QED
      BY <2>1, <2>2 DEF Look
  <1>4. Queued'
    BY <1>0, <1>1 DEF Look, content, counts, Continue, Queued, Stored, Growing, Fits, Legal, Locals, At,
       NoDoc, Docs
  <1>5. Known'
    BY <1>0, <1>1 DEF Look, content, counts, Continue, Known, Stored, PurgedRowsStayGone, UnaskedStaysPrivate,
       Fits, Legal, Locals, At, NoDoc, Docs
  <1>6. PurgedRowsStayGone'
    BY <1>0, <1>1 DEF Look, content, counts, Continue, PurgedRowsStayGone, Known, Stored, Fits, Legal, Locals,
       At, NoDoc, Docs
  <1>7. UnaskedStaysPrivate'
    BY <1>0, <1>1 DEF Look, content, counts, Continue, UnaskedStaysPrivate, Stored, Fits, Legal, Locals, At,
       NoDoc, Docs
  <1> QED
    BY <1>2, <1>3, <1>4, <1>5, <1>6, <1>7

LEMMA AcquireKeeps ==
    ASSUME Base, NEW p \in Procs, Acquire(p)
    PROVE  Base'
  <1> USE DEF Base
  <1>0. Worker \in Procs /\ Threads \subseteq Procs /\ p \in Procs
        /\ proc[p] \in Locals /\ Fits(p, proc[p], born, tomb, wanted)
    BY DEF Manned, Procs
  <1>1. Growing
    BY <1>0 DEF Acquire, content, counts, Continue, Growing, Stored, Fits, Legal, Locals, At, NoDoc, Docs
  <1>2. Stored'
    <2>1. lock' \in [Docs -> Procs \cup {Free}]
      BY <1>0 DEF Acquire, Stored
    <2> QED
      BY <2>1 DEF Acquire, content, Stored
  <1>3. Manned'
    <2>1. proc[p] \in Locals 
          /\ proc[p].op = proc[p].op
          /\ proc[p].doc = proc[p].doc
      BY <1>0, IdleIs, WholeIs DEF Locals, Stored
    <2>2. proc[p].pc \notin {"idle", "look"} /\ Advance(p, proc[p])
      BY DEF At, Continue, Acquire, content
    <2>3. proc[p].pc = "remove" => tomb'[proc[p].doc] # "none"
      BY <1>0, <2>1 DEF At, Fits, Legal, Stored, Acquire, content
    <2> QED
      BY <1>0, <1>1, <2>1, <2>2, <2>3, Continues
  <1>4. Queued'
    BY <1>0, <1>1 DEF Acquire, content, counts, Continue, Queued, Stored, Growing, Fits, Legal, Locals, At,
       NoDoc, Docs
  <1>5. Known'
    BY <1>0, <1>1 DEF Acquire, content, counts, Continue, Known, Stored, PurgedRowsStayGone,
       UnaskedStaysPrivate, Fits, Legal, Locals, At, NoDoc, Docs
  <1>6. PurgedRowsStayGone'
    BY <1>0, <1>1 DEF Acquire, content, counts, Continue, PurgedRowsStayGone, Known, Stored, Fits, Legal,
       Locals, At, NoDoc, Docs
  <1>7. UnaskedStaysPrivate'
    BY <1>0, <1>1 DEF Acquire, content, counts, Continue, UnaskedStaysPrivate, Stored, Fits, Legal, Locals,
       At, NoDoc, Docs
  <1> QED
    BY <1>2, <1>3, <1>4, <1>5, <1>6, <1>7

LEMMA UnlockKeeps ==
    ASSUME Base, NEW p \in Procs, Unlock(p)
    PROVE  Base'
  <1> USE DEF Base
  <1>0. Worker \in Procs /\ Threads \subseteq Procs /\ p \in Procs
        /\ proc[p] \in Locals /\ Fits(p, proc[p], born, tomb, wanted)
    BY DEF Manned, Procs
  <1>1. Growing
    BY <1>0 DEF Unlock, content, counts, Continue, FreedBy, Growing, Stored, Fits, Legal, Locals, At, NoDoc,
       Docs
  <1>2. Stored'
    BY <1>0, <1>1, IdleIs DEF Unlock, content, counts, Continue, FreedBy, Stored, Fits, Legal, Locals, At,
       NoDoc, Docs
  <1>3. Manned'
    <2>1. proc[p] \in Locals 
          /\ proc[p].op = proc[p].op
          /\ proc[p].doc = proc[p].doc
      BY <1>0, IdleIs, WholeIs DEF Locals, Stored
    <2>2. proc[p].pc \notin {"idle", "look"} /\ Advance(p, proc[p])
      BY DEF At, Continue, Unlock, content, FreedBy
    <2>3. proc[p].pc = "remove" => tomb'[proc[p].doc] # "none"
      BY <1>0, <2>1 DEF At, Fits, Legal, Stored, Unlock, content, FreedBy
    <2> QED
      BY <1>0, <1>1, <2>1, <2>2, <2>3, Continues
  <1>4. Queued'
    BY <1>0, <1>1 DEF Unlock, content, counts, Continue, FreedBy, Queued, Stored, Growing, Fits, Legal,
       Locals, At, NoDoc, Docs
  <1>5. Known'
    BY <1>0, <1>1 DEF Unlock, content, counts, Continue, FreedBy, Known, Stored, PurgedRowsStayGone,
       UnaskedStaysPrivate, Fits, Legal, Locals, At, NoDoc, Docs
  <1>6. PurgedRowsStayGone'
    BY <1>0, <1>1 DEF Unlock, content, counts, Continue, FreedBy, PurgedRowsStayGone, Known, Stored, Fits,
       Legal, Locals, At, NoDoc, Docs
  <1>7. UnaskedStaysPrivate'
    BY <1>0, <1>1 DEF Unlock, content, counts, Continue, FreedBy, UnaskedStaysPrivate, Stored, Fits, Legal,
       Locals, At, NoDoc, Docs
  <1> QED
    BY <1>2, <1>3, <1>4, <1>5, <1>6, <1>7

LEMMA InsertSharedKeeps ==
    ASSUME Base, NEW p \in Procs, InsertShared(p)
    PROVE  Base'
  <1> USE DEF Base
  <1>0. Worker \in Procs /\ Threads \subseteq Procs /\ p \in Procs
        /\ proc[p] \in Locals /\ Fits(p, proc[p], born, tomb, wanted)
    BY DEF Manned, Procs
  <1>1. Growing
    BY <1>0 DEF InsertShared, content, counts, Continue, Growing, Stored, Fits, Legal, Locals, At, NoDoc, Docs
  <1>2. Stored'
    BY <1>0, <1>1, IdleIs DEF InsertShared, content, counts, Continue, Stored, Fits, Legal, Locals, At, NoDoc,
       Docs
  <1>3. Manned'
    <2>1. proc[p] \in Locals 
          /\ proc[p].op = proc[p].op
          /\ proc[p].doc = proc[p].doc
      BY <1>0, IdleIs, WholeIs DEF Locals, Stored
    <2>2. proc[p].pc \notin {"idle", "look"} /\ Advance(p, proc[p])
      BY DEF At, Continue, InsertShared, content
    <2>3. proc[p].pc = "remove" => tomb'[proc[p].doc] # "none"
      BY <1>0, <2>1 DEF At, Fits, Legal, Stored, InsertShared, content
    <2> QED
      BY <1>0, <1>1, <2>1, <2>2, <2>3, Continues
  <1>4. Queued'
    BY <1>0, <1>1 DEF InsertShared, content, counts, Continue, Queued, Stored, Growing, Fits, Legal, Locals,
       At, NoDoc, Docs
  <1>5. Known'
    BY <1>0, <1>1 DEF InsertShared, content, counts, Continue, Known, Stored, PurgedRowsStayGone,
       UnaskedStaysPrivate, Fits, Legal, Locals, At, NoDoc, Docs
  <1>6. PurgedRowsStayGone'
    BY <1>0, <1>1 DEF InsertShared, content, counts, Continue, PurgedRowsStayGone, Known, Stored, Fits, Legal,
       Locals, At, NoDoc, Docs
  <1>7. UnaskedStaysPrivate'
    BY <1>0, <1>1 DEF InsertShared, content, counts, Continue, UnaskedStaysPrivate, Stored, Fits, Legal,
       Locals, At, NoDoc, Docs
  <1> QED
    BY <1>2, <1>3, <1>4, <1>5, <1>6, <1>7

LEMMA DeleteSharedKeeps ==
    ASSUME Base, NEW p \in Procs, DeleteShared(p)
    PROVE  Base'
  <1> USE DEF Base
  <1>0. Worker \in Procs /\ Threads \subseteq Procs /\ p \in Procs
        /\ proc[p] \in Locals /\ Fits(p, proc[p], born, tomb, wanted)
    BY DEF Manned, Procs
  <1>1. Growing
    BY <1>0 DEF DeleteShared, content, counts, Continue, Growing, Stored, Fits, Legal, Locals, At, NoDoc, Docs
  <1>2. Stored'
    BY ZenonT(60), <1>0, <1>1, IdleIs DEF DeleteShared, content, counts, Continue, Stored, Fits, Legal,
       Locals, At, NoDoc, Docs
  <1>3. Manned'
    <2>1. CASE Advance(p, proc[p])
      <3>1. p \in Procs /\ proc[p] \in Locals /\ proc[p].pc \notin {"idle", "look", "remove"}
            /\ proc[p].op = proc[p].op /\ proc[p].doc = proc[p].doc
        BY DEF Manned, Locals, Stored, At, DeleteShared, Procs
      <3> QED
        BY <1>1, <2>1, <3>1, Continues
    <2>2. CASE Goto(p, proc[p], AfterNoRow(proc[p].op))
      <3>1. p \in Procs /\ proc[p] \in Locals /\ Fits(p, proc[p], born', tomb', wanted')
        BY <1>1, Stays DEF Manned, Locals, Stored, Procs
      <3>2. AfterNoRow(proc[p].op) = "idle" \/ Fits(p, [proc[p] EXCEPT !.pc = AfterNoRow(proc[p].op)], born', tomb', wanted')
        BY <3>1 DEF Manned, Locals, Fits, Legal, OpNames, At, DeleteShared, AfterNoRow
      <3> QED
        BY <1>1, <2>2, <3>1, <3>2, Moves DEF Places, AfterNoRow
    <2> QED
      BY <2>1, <2>2 DEF DeleteShared, Continue
  <1>4. Queued'
    BY <1>0, <1>1 DEF DeleteShared, content, counts, Continue, Queued, Stored, Growing, Fits, Legal, Locals,
       At, NoDoc, Docs
  <1>5. Known'
    <2>1. shared' \subseteq shared /\ UNCHANGED <<row, born, wanted, tomb>>
      BY DEF DeleteShared
    <2> QED
      BY <2>1 DEF Known
  <1>6. PurgedRowsStayGone'
    BY <1>0, <1>1 DEF DeleteShared, content, counts, Continue, PurgedRowsStayGone, Known, Stored, Fits, Legal,
       Locals, At, NoDoc, Docs
  <1>7. UnaskedStaysPrivate'
    BY <1>0, <1>1 DEF DeleteShared, content, counts, Continue, UnaskedStaysPrivate, Stored, Fits, Legal,
       Locals, At, NoDoc, Docs
  <1> QED
    BY <1>2, <1>3, <1>4, <1>5, <1>6, <1>7

LEMMA ClearKeeps ==
    ASSUME Base, NEW p \in Procs, Clear(p)
    PROVE  Base'
  <1> USE DEF Base
  <1>0. Worker \in Procs /\ Threads \subseteq Procs /\ p \in Procs
        /\ proc[p] \in Locals /\ Fits(p, proc[p], born, tomb, wanted)
    BY DEF Manned, Procs
  <1>1. Growing
    BY <1>0 DEF Clear, content, counts, Continue, Growing, Stored, Fits, Legal, Locals, At, NoDoc, Docs
  <1>2. Stored'
    BY IdleIs DEF Clear, Stored
  <1>3. Manned'
    <2>1. proc[p] \in Locals 
          /\ proc[p].op = proc[p].op
          /\ proc[p].doc = proc[p].doc
      BY <1>0, IdleIs, WholeIs DEF Locals, Stored
    <2>2. proc[p].pc \notin {"idle", "look"} /\ Advance(p, proc[p])
      BY DEF At, Continue, Clear, content
    <2>3. proc[p].pc = "remove" => tomb'[proc[p].doc] # "none"
      BY <1>0, <2>1 DEF At, Fits, Legal, Stored, Clear, content
    <2> QED
      BY <1>0, <1>1, <2>1, <2>2, <2>3, Continues
  <1>4. Queued'
    BY <1>0, <1>1 DEF Clear, content, counts, Continue, Queued, Stored, Growing, Fits, Legal, Locals, At,
       NoDoc, Docs
  <1>5. Known'
    BY <1>0, <1>1 DEF Clear, content, counts, Continue, Known, Stored, PurgedRowsStayGone,
       UnaskedStaysPrivate, Fits, Legal, Locals, At, NoDoc, Docs
  <1>6. PurgedRowsStayGone'
    BY <1>0, <1>1 DEF Clear, content, counts, Continue, PurgedRowsStayGone, Known, Stored, Fits, Legal,
       Locals, At, NoDoc, Docs
  <1>7. UnaskedStaysPrivate'
    BY <1>0, <1>1 DEF Clear, content, counts, Continue, UnaskedStaysPrivate, Stored, Fits, Legal, Locals, At,
       NoDoc, Docs
  <1> QED
    BY <1>2, <1>3, <1>4, <1>5, <1>6, <1>7

LEMMA ScrollKeeps ==
    ASSUME Base, NEW p \in Procs, Scroll(p)
    PROVE  Base'
  <1> USE DEF Base
  <1>0. Worker \in Procs /\ Threads \subseteq Procs /\ p \in Procs
        /\ proc[p] \in Locals /\ Fits(p, proc[p], born, tomb, wanted)
    BY DEF Manned, Procs
  <1>1. Growing
    BY <1>0 DEF Scroll, content, counts, Continue, Growing, Stored, Fits, Legal, Locals, At, NoDoc, Docs
  <1>2. Stored'
    BY <1>0, <1>1, IdleIs DEF Scroll, content, counts, Continue, Stored, Fits, Legal, Locals, At, NoDoc, Docs
  <1>3. Manned'
    <2>1. [proc[p] EXCEPT !.todo = personal] \in Locals 
          /\ [proc[p] EXCEPT !.todo = personal].op = proc[p].op
          /\ [proc[p] EXCEPT !.todo = personal].doc = proc[p].doc
      BY <1>0, IdleIs, WholeIs DEF Locals, Stored
    <2>2. proc[p].pc \notin {"idle", "look"} /\ Advance(p, [proc[p] EXCEPT !.todo = personal])
      BY DEF At, Continue, Scroll, content
    <2>3. proc[p].pc = "remove" => tomb'[[proc[p] EXCEPT !.todo = personal].doc] # "none"
      BY <1>0, <2>1 DEF At, Fits, Legal, Stored, Scroll, content
    <2> QED
      BY <1>0, <1>1, <2>1, <2>2, <2>3, Continues
  <1>4. Queued'
    BY <1>0, <1>1 DEF Scroll, content, counts, Continue, Queued, Stored, Growing, Fits, Legal, Locals, At,
       NoDoc, Docs
  <1>5. Known'
    BY <1>0, <1>1 DEF Scroll, content, counts, Continue, Known, Stored, PurgedRowsStayGone,
       UnaskedStaysPrivate, Fits, Legal, Locals, At, NoDoc, Docs
  <1>6. PurgedRowsStayGone'
    BY <1>0, <1>1 DEF Scroll, content, counts, Continue, PurgedRowsStayGone, Known, Stored, Fits, Legal,
       Locals, At, NoDoc, Docs
  <1>7. UnaskedStaysPrivate'
    BY <1>0, <1>1 DEF Scroll, content, counts, Continue, UnaskedStaysPrivate, Stored, Fits, Legal, Locals, At,
       NoDoc, Docs
  <1> QED
    BY <1>2, <1>3, <1>4, <1>5, <1>6, <1>7

LEMMA UpsertKeeps ==
    ASSUME Base, NEW p \in Procs, Upsert(p)
    PROVE  Base'
  <1> USE DEF Base
  <1>0. Worker \in Procs /\ Threads \subseteq Procs /\ p \in Procs
        /\ proc[p] \in Locals /\ Fits(p, proc[p], born, tomb, wanted)
    BY DEF Manned, Procs
  <1>1. Growing
    BY <1>0 DEF Upsert, content, counts, Continue, Growing, Stored, Fits, Legal, Locals, At, NoDoc, Docs
  <1>2. Stored'
    <2>1. proc[p].doc \in Docs
      BY <1>0 DEF Upsert, Fits, Legal, Locals, At
    <2>2. mirror' \in [Docs -> [Ix -> Versions \cup {0}]]
      <3>1. CASE UNCHANGED mirror
        BY <3>1 DEF Stored
      <3>2. CASE \E i \in Ix : mirror' = [mirror EXCEPT ![proc[p].doc][i] = proc[p].todo[i]]
        BY <1>0, <2>1, <3>2 DEF Stored, Locals
      <3> QED
        BY <3>1, <3>2 DEF Upsert
    <2> QED
      BY <2>2 DEF Upsert, Stored
  <1>3. Manned'
    <2>0. proc[p] \in Locals /\ Fits(p, proc[p], born', tomb', wanted') /\ At(p, "upsert")
      BY <1>1, Stays DEF Manned, Upsert
    <2>1. CASE Continue(p)
      BY <1>1, <2>0, <2>1, Continues DEF Continue, At
    <2>2. CASE \E i \in Ix : \/ Goto(p, [proc[p] EXCEPT !.todo[i] = 0], "upsert")
                           \/ Goto(p, ChunkFails([proc[p] EXCEPT !.todo[i] = 0]), "upsert")
      <3>1. PICK i \in Ix : \/ Goto(p, [proc[p] EXCEPT !.todo[i] = 0], "upsert")
                           \/ Goto(p, ChunkFails([proc[p] EXCEPT !.todo[i] = 0]), "upsert")
        BY <2>2
      <3>2. ASSUME NEW r \in Locals, r.op = proc[p].op, r.doc = proc[p].doc
            PROVE  Fits(p, [r EXCEPT !.pc = "upsert"], born', tomb', wanted')
        BY <2>0, <3>2 DEF Fits, Legal, Locals, OpNames, At
      <3>3. /\ [proc[p] EXCEPT !.todo[i] = 0] \in Locals
            /\ ChunkFails([proc[p] EXCEPT !.todo[i] = 0]) \in Locals
            /\ [proc[p] EXCEPT !.todo[i] = 0].op = proc[p].op /\ [proc[p] EXCEPT !.todo[i] = 0].doc = proc[p].doc
            /\ ChunkFails([proc[p] EXCEPT !.todo[i] = 0]).op = proc[p].op
            /\ ChunkFails([proc[p] EXCEPT !.todo[i] = 0]).doc = proc[p].doc
        BY <2>0 DEF Locals, ChunkFails
      <3> QED
        BY <1>1, <2>0, <3>1, <3>2, <3>3, Moves DEF Places
    <2> QED
      BY <2>1, <2>2 DEF Upsert
  <1>4. Queued'
    BY <1>0, <1>1 DEF Upsert, content, counts, Continue, Queued, Stored, Growing, Fits, Legal, Locals, At,
       NoDoc, Docs
  <1>5. Known'
    BY <1>0, <1>1 DEF Upsert, content, counts, Continue, Known, Stored, PurgedRowsStayGone,
       UnaskedStaysPrivate, Fits, Legal, Locals, At, NoDoc, Docs
  <1>6. PurgedRowsStayGone'
    BY <1>0, <1>1 DEF Upsert, content, counts, Continue, PurgedRowsStayGone, Known, Stored, Fits, Legal,
       Locals, At, NoDoc, Docs
  <1>7. UnaskedStaysPrivate'
    BY ZenonT(60), <1>0, <1>1 DEF Upsert, content, counts, Continue, UnaskedStaysPrivate, Stored, Fits, Legal,
       Locals, At, NoDoc, Docs
  <1> QED
    BY <1>2, <1>3, <1>4, <1>5, <1>6, <1>7

LEMMA AbortingKeeps ==
    ASSUME Base, NEW p \in Procs, Aborts(p), UNCHANGED content, UNCHANGED wanted
    PROVE  Base'
  <1> USE DEF Base
  <1>0. Worker \in Procs /\ Threads \subseteq Procs /\ p \in Procs
        /\ proc[p] \in Locals /\ Fits(p, proc[p], born, tomb, wanted)
    BY DEF Manned, Procs
  <1>1. Growing
    BY <1>0 DEF content, Aborts, JobFails, FreedBy, Retried, Growing, Stored, Fits, Legal, Locals, At, NoDoc,
       Docs
  <1>2. Stored'
    <2> DEFINE j == proc[p].job
    <2>1. jobs' \in Seq(Jobs)
      <3>1. CASE UNCHANGED jobs
        BY <3>1 DEF Stored
      <3>2. CASE jobs' = [jobs EXCEPT ![j] = Retried(jobs[j], 1)]
        <4>1. CASE j \in DOMAIN jobs
          BY <3>2, <4>1, RetriedIs, JobChanged DEF Stored
        <4>2. CASE j \notin DOMAIN jobs
          <5>1. jobs' = jobs
            BY <3>2, <4>2 DEF Stored
          <5> QED
            BY <5>1 DEF Stored
        <4> QED
          BY <4>1, <4>2
      <3> QED
        BY <3>1, <3>2 DEF Aborts, JobFails
    <2>2. lock' \in [Docs -> Procs \cup {Free}]
      BY DEF Aborts, JobFails, FreedBy, Stored
    <2> QED
      BY <2>1, <2>2 DEF content, Stored
  <1>3. Manned'
    <2>1. CASE Reprojecting(p) /\ Goto(p, proc[p], "unlock")
      <3>1. proc[p] \in Locals /\ Fits(p, proc[p], born', tomb', wanted')
        BY <1>1, Stays DEF Manned
      <3>2. Fits(p, [proc[p] EXCEPT !.pc = "unlock"], born', tomb', wanted')
        BY <2>1, <3>1 DEF Fits, Legal, Locals, OpNames, Reprojecting
      <3> QED
        BY <1>1, <2>1, <3>1, <3>2, Moves DEF Places
    <2>2. CASE Goto(p, proc[p], "idle")
      BY <1>1, <2>2, Moves DEF Manned, Places
    <2>3. CASE /\ proc[p].op \in {"purge", "repurge"} /\ proc[p].pc \in {"sweep", "clear"}
               /\ Goto(p, [proc[p] EXCEPT !.clean = FALSE], "stamp")
      <3> DEFINE r == [proc[p] EXCEPT !.clean = FALSE]
      <3>1. proc[p] \in Locals /\ Fits(p, proc[p], born', tomb', wanted')
        BY <1>1, Stays DEF Manned
      <3>2. r \in Locals /\ Fits(p, [r EXCEPT !.pc = "stamp"], born', tomb', wanted')
        BY <2>3, <3>1 DEF Fits, Legal, Locals, OpNames
      <3> QED
        BY <1>1, <2>3, <3>1, <3>2, Moves DEF Places
    <2> QED
      BY <2>1, <2>2, <2>3 DEF Aborts, JobFails
  <1>4. Queued'
    <2> DEFINE j == proc[p].job
    <2>1. CASE UNCHANGED jobs
      BY <2>1 DEF Queued, content
    <2>2. CASE jobs' = [jobs EXCEPT ![j] = Retried(jobs[j], 1)]
      <3>1. \A i \in DOMAIN jobs' : i \in DOMAIN jobs /\ jobs'[i].kind = jobs[i].kind /\ jobs'[i].doc = jobs[i].doc
        BY <2>2, RetriedIs DEF Stored
      <3> QED
        BY <3>1 DEF Queued, content
    <2> QED
      BY <2>1, <2>2 DEF Aborts, JobFails
  <1>5. Known'
    BY <1>0, <1>1 DEF content, Aborts, JobFails, FreedBy, Retried, Known, Stored, PurgedRowsStayGone,
       UnaskedStaysPrivate, Fits, Legal, Locals, At, NoDoc, Docs
  <1>6. PurgedRowsStayGone'
    BY <1>0, <1>1 DEF content, Aborts, JobFails, FreedBy, Retried, PurgedRowsStayGone, Known, Stored, Fits,
       Legal, Locals, At, NoDoc, Docs
  <1>7. UnaskedStaysPrivate'
    BY <1>0, <1>1 DEF content, Aborts, JobFails, FreedBy, Retried, UnaskedStaysPrivate, Stored, Fits, Legal,
       Locals, At, NoDoc, Docs
  <1> QED
    BY <1>2, <1>3, <1>4, <1>5, <1>6, <1>7

LEMMA BackoffElapsesKeeps ==
    ASSUME Base, NEW j \in DOMAIN jobs, BackoffElapses(j)
    PROVE  Base'
  <1> USE DEF Base
  <1>0. Worker \in Procs /\ Threads \subseteq Procs /\ Worker \in Procs
        /\ proc[Worker] \in Locals /\ Fits(Worker, proc[Worker], born, tomb, wanted)
    BY DEF Manned, Procs
  <1>1. Growing
    BY <1>0 DEF BackoffElapses, content, counts, Growing, Stored, Fits, Legal, Locals, At, NoDoc, Docs
  <1>2. Stored'
    <2>1. jobs[j] \in Jobs /\ [jobs[j] EXCEPT !.due = TRUE] \in Jobs
      BY JobsAre, JobIs
    <2>2. jobs' = [jobs EXCEPT ![j] = [jobs[j] EXCEPT !.due = TRUE]]
      BY DEF BackoffElapses
    <2>3. jobs' \in Seq(Jobs)
      BY <2>1, <2>2, JobChanged DEF Stored
    <2> QED
      BY <2>3 DEF BackoffElapses, content, Stored
  <1>3. Manned'
    BY <1>1, Stays DEF Manned, BackoffElapses
  <1>4. Queued'
    BY <1>0, <1>1 DEF BackoffElapses, content, counts, Queued, Stored, Growing, Fits, Legal, Locals, At,
       NoDoc, Docs
  <1>5. Known'
    BY <1>0, <1>1 DEF BackoffElapses, content, counts, Known, Stored, PurgedRowsStayGone, UnaskedStaysPrivate,
       Fits, Legal, Locals, At, NoDoc, Docs
  <1>6. PurgedRowsStayGone'
    BY <1>0, <1>1 DEF BackoffElapses, content, counts, PurgedRowsStayGone, Known, Stored, Fits, Legal, Locals,
       At, NoDoc, Docs
  <1>7. UnaskedStaysPrivate'
    BY <1>0, <1>1 DEF BackoffElapses, content, counts, UnaskedStaysPrivate, Stored, Fits, Legal, Locals, At,
       NoDoc, Docs
  <1> QED
    BY <1>2, <1>3, <1>4, <1>5, <1>6, <1>7

LEMMA CrashKeeps ==
    ASSUME Base, Crash
    PROVE  Base'
  <1> USE DEF Base
  <1>0. Worker \in Procs /\ Threads \subseteq Procs /\ Worker \in Procs
        /\ proc[Worker] \in Locals /\ Fits(Worker, proc[Worker], born, tomb, wanted)
    BY DEF Manned, Procs
  <1>1. Growing
    BY DEF Crash, content, Growing, Stored
  <1>2. Stored'
    <2>1. jobs' \in Seq(Jobs) /\ DOMAIN jobs' = DOMAIN jobs
          /\ \A j \in DOMAIN jobs : jobs'[j].kind = jobs[j].kind /\ jobs'[j].doc = jobs[j].doc
      <3> DEFINE f(j) == IF jobs[j].status = "running" THEN [Retried(jobs[j], 1) EXCEPT !.due = TRUE] ELSE jobs[j]
      <3>1. jobs' = [j \in 1 .. Len(jobs) |-> f(j)] /\ DOMAIN jobs = 1 .. Len(jobs) /\ Len(jobs) \in Nat
        BY DEF Crash, Stored
      <3>2. \A j \in DOMAIN jobs : f(j) \in Jobs /\ f(j).kind = jobs[j].kind /\ f(j).doc = jobs[j].doc
        <4> SUFFICES ASSUME NEW j \in DOMAIN jobs
                     PROVE  f(j) \in Jobs /\ f(j).kind = jobs[j].kind /\ f(j).doc = jobs[j].doc
          OBVIOUS
        <4>1. jobs[j] \in Jobs /\ Retried(jobs[j], 1) \in Jobs
              /\ Retried(jobs[j], 1).kind = jobs[j].kind /\ Retried(jobs[j], 1).doc = jobs[j].doc
          BY RetriedIs DEF Stored
        <4> HIDE DEF Retried
        <4> QED
          BY <4>1 DEF Jobs
      <3> HIDE DEF f
      <3> QED
        BY <3>1, <3>2
    <2> QED
      BY <1>0, <2>1 DEF Crash, content, Stored
  <1>3. Manned'
    <2>1. Idle \in Locals /\ \A p \in Procs : Fits(p, Idle, born', tomb', wanted')
      BY <1>1, IdleIs DEF Fits, Legal, Growing, NoDoc, Stored
    <2> QED
      BY <2>1 DEF Manned, Crash
  <1>4. Queued'
    <2>1. jobs' \in Seq(Jobs) /\ DOMAIN jobs' = DOMAIN jobs
          /\ \A j \in DOMAIN jobs : jobs'[j].kind = jobs[j].kind /\ jobs'[j].doc = jobs[j].doc
      <3> DEFINE f(j) == IF jobs[j].status = "running" THEN [Retried(jobs[j], 1) EXCEPT !.due = TRUE] ELSE jobs[j]
      <3>1. jobs' = [j \in 1 .. Len(jobs) |-> f(j)] /\ DOMAIN jobs = 1 .. Len(jobs) /\ Len(jobs) \in Nat
        BY DEF Crash, Stored
      <3>2. \A j \in DOMAIN jobs : f(j) \in Jobs /\ f(j).kind = jobs[j].kind /\ f(j).doc = jobs[j].doc
        <4> SUFFICES ASSUME NEW j \in DOMAIN jobs
                     PROVE  f(j) \in Jobs /\ f(j).kind = jobs[j].kind /\ f(j).doc = jobs[j].doc
          OBVIOUS
        <4>1. jobs[j] \in Jobs /\ Retried(jobs[j], 1) \in Jobs
              /\ Retried(jobs[j], 1).kind = jobs[j].kind /\ Retried(jobs[j], 1).doc = jobs[j].doc
          BY RetriedIs DEF Stored
        <4> HIDE DEF Retried
        <4> QED
          BY <4>1 DEF Jobs
      <3> HIDE DEF f
      <3> QED
        BY <3>1, <3>2
    <2> QED
      BY <1>0, <2>1 DEF Crash, content, Queued
  <1>5. Known'
    BY <1>0, <1>1 DEF Crash, content, counts, Retried, Known, Stored, PurgedRowsStayGone, UnaskedStaysPrivate,
       Fits, Legal, Locals, At, NoDoc, Docs
  <1>6. PurgedRowsStayGone'
    BY <1>0, <1>1 DEF Crash, content, counts, Retried, PurgedRowsStayGone, Known, Stored, Fits, Legal, Locals,
       At, NoDoc, Docs
  <1>7. UnaskedStaysPrivate'
    BY <1>0, <1>1 DEF Crash, content, counts, Retried, UnaskedStaysPrivate, Stored, Fits, Legal, Locals, At,
       NoDoc, Docs
  <1> QED
    BY <1>2, <1>3, <1>4, <1>5, <1>6, <1>7

LEMMA InitBase == ASSUME Init PROVE Base
  <1>1. PICK d \in {NoDoc, 1}, v \in Versions, sh \in BOOLEAN :
          /\ row = [id |-> d, ver |-> IF d = 1 THEN v ELSE 0]
          /\ born = d
          /\ personal = IF d = 1 THEN Whole(v) ELSE NoChunks
          /\ shared = IF d = 1 /\ sh THEN {1} ELSE {}
          /\ mirror = [c \in Docs |-> IF c \in shared THEN Whole(v) ELSE NoChunks]
    BY DEF Init
  <1>0. 1 \in Docs
    BY DEF Docs
  <1>2. /\ Whole(v) \in [Ix -> Versions \cup {0}] /\ NoChunks \in [Ix -> Versions \cup {0}]
        /\ 1 \in Docs /\ NoDoc = 0
    BY <1>0, WholeIs, IdleIs DEF NoDoc
  <1>3. Stored
    <2>1. mirror \in [Docs -> [Ix -> Versions \cup {0}]] /\ personal \in [Ix -> Versions \cup {0}]
      BY <1>1, <1>2
    <2>2. jobs \in Seq(Jobs) /\ row \in [id : Docs \cup {NoDoc}, ver : Versions \cup {0}]
          /\ shared \subseteq Docs /\ born \in 0 .. MaxDocs
      BY <1>1, <1>2 DEF Init
    <2>3. /\ tomb \in [Docs -> {"none", "partial", "resolved"}]
          /\ lock \in [Docs -> Procs \cup {Free}]
          /\ wanted \in [Docs -> {"none", "share", "unshare"}]
      BY DEF Init
    <2> QED
      BY <2>1, <2>2, <2>3 DEF Stored
  <1>4. Manned
    BY <1>3, IdleIs DEF Init, Manned, Fits, Legal, Stored, NoDoc
  <1>5. Queued
    BY DEF Init, Queued
  <1>6. Known /\ PurgedRowsStayGone /\ UnaskedStaysPrivate
    BY <1>1, <1>2 DEF Init, Known, PurgedRowsStayGone, UnaskedStaysPrivate
  <1> QED
    BY <1>3, <1>4, <1>5, <1>6 DEF Base

LEMMA SameBase == ASSUME Base, UNCHANGED vars PROVE Base'
  BY DEF Base, Stored, Manned, Queued, Known, PurgedRowsStayGone, UnaskedStaysPrivate, vars, content, counts

LEMMA FaultKeeps == ASSUME Base, NEW p \in Procs, Raise(p) \/ ForeignKeyFails(p) PROVE Base'
  BY AbortingKeeps DEF Raise, ForeignKeyFails

LEMMA NextBase == ASSUME Base, [Next]_vars PROVE Base'
  <1>1. ASSUME NEW t \in Threads,
               \/ \E k \in {"share", "unshare"} : RequestToggle(t, k)
               \/ RequestPublish(t) \/ RequestUnpublish(t)
               \/ \E d \in Docs : RequestAdmin(t, d) \/ RequestPurge(t, d)
               \/ ThreadStep(t)
        PROVE  Base'
    BY <1>1, RequestToggleKeeps, RequestPublishKeeps, RequestUnpublishKeeps, RequestAdminKeeps,
       RequestPurgeKeeps,
       EnqueueToggleKeeps, RemoveKeeps, CheckPathKeeps, SweepKeeps, StampKeeps, VerifyKeeps DEF ThreadStep
  <1>2. ASSUME WorkerStep PROVE Base'
    BY <1>2, ClaimKeeps, CompleteKeeps, ReadSourceKeeps, RecheckKeeps, HashKeeps, WipeKeeps, WriteKeeps,
       IndexKeeps, LookKeeps DEF WorkerStep
  <1>3. ASSUME NEW p \in Procs, CommonStep(p) PROVE Base'
    BY <1>3, AcquireKeeps, UnlockKeeps, InsertSharedKeeps, DeleteSharedKeeps, ClearKeeps, ScrollKeeps,
       UpsertKeeps,
       FaultKeeps DEF CommonStep
  <1> QED
    BY <1>1, <1>2, <1>3, SameBase, RequestIngestKeeps, BackoffElapsesKeeps, CrashKeeps DEF Next

\* The part of the invariant that needs no assumption on the requests or the
\* lock: rows, jobs and what every operation knows of its document.
THEOREM BaseHolds == Spec => []Base
  BY InitBase, NextBase, PTL DEF Spec

\* The transaction of a purge is final for its rows, with the lock or without,
\* whatever is requested, fails or crashes: the share jobs insert only where
\* the foreign key finds the row, and ids are not given twice.
THEOREM RowsStayGone == Spec => []PurgedRowsStayGone
  BY BaseHolds, PTL DEF Base

\* Only a request of the owner leads to shared rows or shared chunks, with the
\* lock or without: the re-projection works only on documents already shared.
THEOREM NothingUnasked == Spec => []UnaskedStaysPrivate
  BY BaseHolds, PTL DEF Base

-----------------------------------------------------------------------------
(***************************************************************************)
(* What each step does to its process                                      *)
(***************************************************************************)
Put(p, r) == proc' = [proc EXCEPT ![p] = r]

LEMMA AdvanceIs ==
    ASSUME Base, NEW p \in Procs, NEW r \in Locals, Advance(p, r), proc[p].pc # "idle"
    PROVE  LET s == Following(proc[p].op, proc[p].pc) IN
             Legal(proc[p].op, proc[p].pc) /\ proc[p].op \in OpNames /\ proc[p].pc \in Places
             /\ Put(p, IF s = "idle" THEN Idle ELSE [r EXCEPT !.pc = s])
  BY DEF Base, Manned, Fits, Advance, Goto, Put, Locals

LEMMA RemoveDoes ==
    ASSUME Base, NEW t \in Threads, Remove(t)
    PROVE  /\ proc[t].pc = "remove"
           /\ proc[t].op = "purge" /\ Put(t, [proc[t] EXCEPT !.pc = "check"])
  <1>1. t \in Procs /\ proc[t] \in Locals /\ proc[t].pc = "remove" /\ Fits(t, proc[t], born, tomb, wanted)
    BY DEF Base, Manned, Procs, At, Remove
  <1>2. proc[t] \in Locals /\ Advance(t, proc[t])
    <2>1. proc[t] \in Locals
      BY <1>1
    <2> QED
      BY <2>1 DEF Remove, Continue
  <1> QED
    BY <1>1, <1>2, AdvanceIs, Successors DEF Legal, Fits, OpNames, Places, Put

LEMMA CheckPathDoes ==
    ASSUME Base, NEW t \in Threads, CheckPath(t)
    PROVE  /\ proc[t].pc = "check" /\ proc[t].op \in {"purge", "repurge"}
           /\ Put(t, [proc[t] EXCEPT !.path = row.id \in {NoDoc, proc[t].doc}, !.pc = "sweep"])
  <1>1. t \in Procs /\ proc[t] \in Locals /\ proc[t].pc = "check" /\ Fits(t, proc[t], born, tomb, wanted)
    BY DEF Base, Manned, Procs, At, CheckPath
  <1> DEFINE b == row.id \in {NoDoc, proc[t].doc}
             r == [proc[t] EXCEPT !.path = b]
  <1>2. r \in Locals
    <2>1. \A c \in BOOLEAN : [proc[t] EXCEPT !.path = c] \in Locals
      BY <1>1 DEF Locals
    <2>2. b \in BOOLEAN
      OBVIOUS
    <2> HIDE DEF b
    <2> QED
      BY <2>1, <2>2
  <1>3. Advance(t, r)
    BY DEF CheckPath
  <1>4. proc[t].op \in {"purge", "repurge"} /\ Put(t, [r EXCEPT !.pc = "sweep"])
    <2> HIDE DEF r
    <2> QED
      BY <1>1, <1>2, <1>3, AdvanceIs, Successors DEF Legal, Fits, OpNames, Places, Put
  <1> QED
    BY <1>1, <1>4

LEMMA SweepDoes ==
    ASSUME Base, NEW t \in Threads, Sweep(t)
    PROVE  /\ proc[t].pc = "sweep"
           /\ proc[t].op \in {"purge", "repurge"} /\ Put(t, [proc[t] EXCEPT !.pc = "clear"])
  <1>1. t \in Procs /\ proc[t] \in Locals /\ proc[t].pc = "sweep" /\ Fits(t, proc[t], born, tomb, wanted)
    BY DEF Base, Manned, Procs, At, Sweep
  <1>2. proc[t] \in Locals /\ Advance(t, proc[t])
    <2>1. proc[t] \in Locals
      BY <1>1
    <2> QED
      BY <2>1 DEF Sweep, Continue
  <1> QED
    BY <1>1, <1>2, AdvanceIs, Successors DEF Legal, Fits, OpNames, Places, Put

LEMMA StampDoes ==
    ASSUME Base, NEW t \in Threads, Stamp(t)
    PROVE  /\ proc[t].pc = "stamp"
           /\ proc[t].op \in {"purge", "repurge"} /\ Put(t, [proc[t] EXCEPT !.pc = "unlock"])
  <1>1. t \in Procs /\ proc[t] \in Locals /\ proc[t].pc = "stamp" /\ Fits(t, proc[t], born, tomb, wanted)
    BY DEF Base, Manned, Procs, At, Stamp
  <1>2. proc[t] \in Locals /\ Advance(t, proc[t])
    <2>1. proc[t] \in Locals
      BY <1>1
    <2> QED
      BY <2>1 DEF Stamp, Continue
  <1> QED
    BY <1>1, <1>2, AdvanceIs, Successors DEF Legal, Fits, OpNames, Places, Put

LEMMA VerifyDoes ==
    ASSUME Base, NEW t \in Threads, Verify(t)
    PROVE  /\ proc[t].pc = "verify"
           /\ Put(t, Idle)
  <1>1. t \in Procs /\ proc[t] \in Locals /\ proc[t].pc = "verify" /\ Fits(t, proc[t], born, tomb, wanted)
    BY DEF Base, Manned, Procs, At, Verify
  <1>2. proc[t] \in Locals /\ Advance(t, proc[t])
    <2>1. proc[t] \in Locals
      BY <1>1
    <2> QED
      BY <2>1 DEF Verify, Continue
  <1> QED
    BY <1>1, <1>2, AdvanceIs, Successors DEF Legal, Fits, OpNames, Places, Put

LEMMA CompleteDoes ==
    ASSUME Base, Complete
    PROVE  /\ proc[Worker].pc = "complete"
           /\ Put(Worker, Idle)
  <1>1. Worker \in Procs /\ proc[Worker] \in Locals /\ proc[Worker].pc = "complete" /\ Fits(Worker, proc[Worker], born, tomb, wanted)
    BY DEF Base, Manned, Procs, At, Complete
  <1>2. proc[Worker] \in Locals /\ Advance(Worker, proc[Worker])
    <2>1. proc[Worker] \in Locals
      BY <1>1
    <2> QED
      BY <2>1 DEF Complete, Continue
  <1> QED
    BY <1>1, <1>2, AdvanceIs, Successors DEF Legal, Fits, OpNames, Places, Put

LEMMA ReadSourceDoes ==
    ASSUME Base, ReadSource
    PROVE  /\ proc[Worker].pc = "read"
           /\ proc[Worker].op \in {"share", "unshare"}
           /\ \/ Put(Worker, [proc[Worker] EXCEPT !.pc = "lock"])
              \/ row.id # proc[Worker].doc /\ Put(Worker, [proc[Worker] EXCEPT !.pc = "complete"])
  <1>1. Worker \in Procs /\ proc[Worker] \in Locals /\ proc[Worker].pc = "read" /\ Fits(Worker, proc[Worker], born, tomb, wanted)
    BY DEF Base, Manned, Procs, At, ReadSource
  <1>2. CASE Advance(Worker, proc[Worker])
    BY <1>1, <1>2, AdvanceIs, Successors DEF Legal, Fits, OpNames, Places, Put
  <1>3. CASE ~(Advance(Worker, proc[Worker]))
    BY <1>1, <1>3 DEF Legal, Fits, OpNames, Put, ReadSource, Continue, Goto, AfterNoRow
  <1> QED
    BY <1>2, <1>3

LEMMA RecheckDoes ==
    ASSUME Base, Recheck
    PROVE  /\ proc[Worker].pc = "recheck"
           /\ proc[Worker].op \in {"share", "unshare"}
           /\ \/ row.id = proc[Worker].doc /\ proc[Worker].op = "share" /\ Put(Worker, [proc[Worker] EXCEPT !.pc = "insert"])
              \/ row.id = proc[Worker].doc /\ proc[Worker].op = "unshare" /\ Put(Worker, [proc[Worker] EXCEPT !.pc = "delete"])
              \/ row.id # proc[Worker].doc /\ Put(Worker, [proc[Worker] EXCEPT !.pc = "unlock"])
  <1>1. Worker \in Procs /\ proc[Worker] \in Locals /\ proc[Worker].pc = "recheck" /\ Fits(Worker, proc[Worker], born, tomb, wanted)
    BY DEF Base, Manned, Procs, At, Recheck
  <1>2. CASE row.id = proc[Worker].doc
    BY <1>1, <1>2, AdvanceIs, Successors DEF Legal, Fits, OpNames, Places, Put, Recheck, Continue
  <1>3. CASE ~(row.id = proc[Worker].doc)
    BY <1>1, <1>3 DEF Legal, Fits, OpNames, Put, Recheck, Continue, Goto, AfterNoRow
  <1> QED
    BY <1>2, <1>3

LEMMA HashDoes ==
    ASSUME Base, Hash
    PROVE  /\ proc[Worker].pc = "hash"
           /\ proc[Worker].op \in {"ingest"}
           /\ \/ Put(Worker, [proc[Worker] EXCEPT !.pc = "wipe"])
              \/ Put(Worker, [proc[Worker] EXCEPT !.pc = "complete"])
  <1>1. Worker \in Procs /\ proc[Worker] \in Locals /\ proc[Worker].pc = "hash" /\ Fits(Worker, proc[Worker], born, tomb, wanted)
    BY DEF Base, Manned, Procs, At, Hash
  <1>2. CASE Advance(Worker, proc[Worker])
    BY <1>1, <1>2, AdvanceIs, Successors DEF Legal, Fits, OpNames, Places, Put
  <1>3. CASE ~(Advance(Worker, proc[Worker]))
    BY <1>1, <1>3 DEF Legal, Fits, OpNames, Put, Hash, Continue, Goto, AfterNoRow
  <1> QED
    BY <1>2, <1>3

LEMMA WipeDoes ==
    ASSUME Base, Wipe
    PROVE  /\ proc[Worker].pc = "wipe"
           /\ proc[Worker].op = "ingest"
           /\ Put(Worker, [proc[Worker] EXCEPT !.todo = Whole(proc[Worker].ver), !.pc = "write"])
  <1>1. Worker \in Procs /\ proc[Worker] \in Locals /\ proc[Worker].pc = "wipe" /\ Fits(Worker, proc[Worker], born, tomb, wanted)
    BY DEF Base, Manned, Procs, At, Wipe
  <1> DEFINE r == [proc[Worker] EXCEPT !.todo = Whole(proc[Worker].ver)]
  <1>2. r \in Locals /\ r.op = proc[Worker].op
    BY <1>1, WholeIs DEF Locals, Base, Stored
  <1>3. Advance(Worker, r)
    BY DEF Wipe
  <1>4. [r EXCEPT !.pc = "write"] = [proc[Worker] EXCEPT !.todo = Whole(proc[Worker].ver), !.pc = "write"]
    BY <1>1 DEF Locals
  <1>5. Put(Worker, [r EXCEPT !.pc = "write"])
    <2> HIDE DEF r
    <2> QED
      BY <1>1, <1>2, <1>3, AdvanceIs, Successors DEF Legal, Fits, OpNames, Places, Put
  <1> QED
    BY <1>1, <1>4, <1>5 DEF Legal, Fits

LEMMA WriteDoes ==
    ASSUME Base, Write
    PROVE  /\ proc[Worker].pc = "write" /\ proc[Worker].op = "ingest"
           /\ \/ UNCHANGED personal /\ Put(Worker, [proc[Worker] EXCEPT !.pc = "index"])
              \/ \E i \in Ix : Put(Worker, [proc[Worker] EXCEPT !.todo[i] = 0])
  <1>1. Worker \in Procs /\ proc[Worker] \in Locals /\ proc[Worker].pc = "write" /\ Fits(Worker, proc[Worker], born, tomb, wanted)
    BY DEF Base, Manned, Procs, At, Write
  <1>2. proc[Worker].op = "ingest"
    BY <1>1 DEF Fits, Legal
  <1>3. CASE Continue(Worker) /\ UNCHANGED personal
    <2>1. Legal("ingest", "write") /\ Following("ingest", "write") = "index"
      BY Successors DEF Legal, OpNames, Places
    <2> QED
      BY <1>1, <1>2, <1>3, <2>1, AdvanceIs DEF Put, Continue
  <1>4. ASSUME NEW i \in Ix
        PROVE  [[proc[Worker] EXCEPT !.todo[i] = 0] EXCEPT !.pc = "write"] = [proc[Worker] EXCEPT !.todo[i] = 0]
    BY <1>1 DEF Locals
  <1>5. CASE \E i \in Ix : Goto(Worker, [proc[Worker] EXCEPT !.todo[i] = 0], "write")
    BY <1>2, <1>1, <1>4, <1>5 DEF Goto, Put
  <1> QED
    BY <1>3, <1>5 DEF Write

LEMMA IndexDoes ==
    ASSUME Base, Index
    PROVE  /\ proc[Worker].pc = "index"
           /\ proc[Worker].op = "ingest" /\ Put(Worker, [proc[Worker] EXCEPT !.pc = "look"])
  <1>1. Worker \in Procs /\ proc[Worker] \in Locals /\ proc[Worker].pc = "index" /\ Fits(Worker, proc[Worker], born, tomb, wanted)
    BY DEF Base, Manned, Procs, At, Index
  <1>2. proc[Worker] \in Locals /\ Advance(Worker, proc[Worker])
    <2>1. proc[Worker] \in Locals
      BY <1>1
    <2> QED
      BY <2>1 DEF Index, Continue
  <1> QED
    BY <1>1, <1>2, AdvanceIs, Successors DEF Legal, Fits, OpNames, Places, Put

LEMMA LookDoes ==
    ASSUME Base, Look
    PROVE  /\ proc[Worker].pc = "look" /\ proc[Worker].op = "ingest"
           /\ \/ row.id \in shared /\ Put(Worker, [proc[Worker] EXCEPT !.doc = row.id, !.pc = "lock"])
              \/ Put(Worker, [proc[Worker] EXCEPT !.pc = "complete"])
  <1>1. Worker \in Procs /\ proc[Worker] \in Locals /\ proc[Worker].pc = "look" /\ Fits(Worker, proc[Worker], born, tomb, wanted)
    BY DEF Base, Manned, Procs, At, Look
  <1>2. CASE row.id \in shared /\ Advance(Worker, [proc[Worker] EXCEPT !.doc = row.id])
    <2> DEFINE r == [proc[Worker] EXCEPT !.doc = row.id]
    <2>1. r \in Locals
      BY <1>1 DEF Locals, Base, Stored
    <2>2. [r EXCEPT !.pc = "lock"] = [proc[Worker] EXCEPT !.doc = row.id, !.pc = "lock"]
      BY <1>1 DEF Locals
    <2>3. proc[Worker].op = "ingest"
      BY <1>1 DEF Fits, Legal
    <2>4. Put(Worker, [r EXCEPT !.pc = "lock"])
      <3> HIDE DEF r
      <3>1. Legal("ingest", "look") /\ Following("ingest", "look") = "lock"
        BY Successors DEF Legal, OpNames, Places
      <3> QED
        BY <1>1, <1>2, <2>1, <2>3, <3>1, AdvanceIs DEF Put, r
    <2> QED
      BY <1>1, <1>2, <2>2, <2>3, <2>4
  <1>3. CASE Goto(Worker, proc[Worker], "complete")
    BY <1>1, <1>3 DEF Legal, Fits, OpNames, Put, Goto
  <1> QED
    BY <1>2, <1>3 DEF Look

LEMMA AcquireDoes ==
    ASSUME Base, NEW p \in Procs, Acquire(p)
    PROVE  /\ proc[p].pc = "lock"
           /\ \/ proc[p].op \in {"share", "unshare"} /\ Put(p, [proc[p] EXCEPT !.pc = "recheck"])
              \/ proc[p].op = "ingest" /\ Put(p, [proc[p] EXCEPT !.pc = "clear"])
              \/ proc[p].op = "purge" /\ Put(p, [proc[p] EXCEPT !.pc = "remove"])
              \/ proc[p].op = "repurge" /\ Put(p, [proc[p] EXCEPT !.pc = "check"])
  <1>1. p \in Procs /\ proc[p] \in Locals /\ proc[p].pc = "lock" /\ Fits(p, proc[p], born, tomb, wanted)
    BY DEF Base, Manned, Procs, At, Acquire
  <1>2. proc[p] \in Locals /\ Advance(p, proc[p])
    <2>1. proc[p] \in Locals
      BY <1>1
    <2> QED
      BY <2>1 DEF Acquire, Continue
  <1> QED
    BY <1>1, <1>2, AdvanceIs, Successors DEF Legal, Fits, OpNames, Places, Put

LEMMA UnlockDoes ==
    ASSUME Base, NEW p \in Procs, Unlock(p)
    PROVE  /\ proc[p].pc = "unlock"
           /\ \/ proc[p].op \in {"purge", "repurge"} /\ Put(p, Idle)
              \/ Put(p, [proc[p] EXCEPT !.pc = "complete"])
  <1>1. p \in Procs /\ proc[p] \in Locals /\ proc[p].pc = "unlock" /\ Fits(p, proc[p], born, tomb, wanted)
    BY DEF Base, Manned, Procs, At, Unlock
  <1>2. proc[p] \in Locals /\ Advance(p, proc[p])
    <2>1. proc[p] \in Locals
      BY <1>1
    <2> QED
      BY <2>1 DEF Unlock, Continue
  <1> QED
    BY <1>1, <1>2, AdvanceIs, Successors DEF Legal, Fits, OpNames, Places, Put

LEMMA InsertSharedDoes ==
    ASSUME Base, NEW p \in Procs, InsertShared(p)
    PROVE  /\ proc[p].pc = "insert"
           /\ proc[p].op \in {"share", "publish"} /\ Put(p, [proc[p] EXCEPT !.pc = "clear"])
  <1>1. p \in Procs /\ proc[p] \in Locals /\ proc[p].pc = "insert" /\ Fits(p, proc[p], born, tomb, wanted)
    BY DEF Base, Manned, Procs, At, InsertShared
  <1>2. proc[p] \in Locals /\ Advance(p, proc[p])
    <2>1. proc[p] \in Locals
      BY <1>1
    <2> QED
      BY <2>1 DEF InsertShared, Continue
  <1> QED
    BY <1>1, <1>2, AdvanceIs, Successors DEF Legal, Fits, OpNames, Places, Put

LEMMA DeleteSharedDoes ==
    ASSUME Base, NEW p \in Procs, DeleteShared(p)
    PROVE  /\ proc[p].pc = "delete"
           /\ proc[p].op \in {"unshare", "unpublish", "admin"}
           /\ \/ Put(p, [proc[p] EXCEPT !.pc = "clear"])
              \/ /\ proc[p].op # "unshare"
                 /\ Put(p, Idle) \/ Put(p, [proc[p] EXCEPT !.pc = "verify"])
              \/ proc[p].op = "unshare" /\ Put(p, [proc[p] EXCEPT !.pc = "unlock"])
  <1>1. p \in Procs /\ proc[p] \in Locals /\ proc[p].pc = "delete" /\ Fits(p, proc[p], born, tomb, wanted)
    BY DEF Base, Manned, Procs, At, DeleteShared
  <1>2. CASE Advance(p, proc[p])
    BY <1>1, <1>2, AdvanceIs, Successors DEF Legal, Fits, OpNames, Places, Put
  <1>3. CASE ~(Advance(p, proc[p]))
    BY <1>1, <1>3 DEF Legal, Fits, OpNames, Put, DeleteShared, Continue, Goto, AfterNoRow
  <1> QED
    BY <1>2, <1>3

LEMMA ClearDoes ==
    ASSUME Base, NEW p \in Procs, Clear(p)
    PROVE  /\ proc[p].pc = "clear"
           /\ \/ proc[p].op \in {"share", "ingest", "publish"} /\ Put(p, [proc[p] EXCEPT !.pc = "scroll"])
              \/ proc[p].op = "unshare" /\ Put(p, [proc[p] EXCEPT !.pc = "unlock"])
              \/ proc[p].op = "unpublish" /\ Put(p, Idle)
              \/ proc[p].op = "admin" /\ Put(p, [proc[p] EXCEPT !.pc = "verify"])
              \/ proc[p].op \in {"purge", "repurge"} /\ Put(p, [proc[p] EXCEPT !.pc = "stamp"])
  <1>1. p \in Procs /\ proc[p] \in Locals /\ proc[p].pc = "clear" /\ Fits(p, proc[p], born, tomb, wanted)
    BY DEF Base, Manned, Procs, At, Clear
  <1>2. proc[p] \in Locals /\ Advance(p, proc[p])
    <2>1. proc[p] \in Locals
      BY <1>1
    <2> QED
      BY <2>1 DEF Clear, Continue
  <1> QED
    BY <1>1, <1>2, AdvanceIs, Successors DEF Legal, Fits, OpNames, Places, Put

LEMMA ScrollDoes ==
    ASSUME Base, NEW p \in Procs, Scroll(p)
    PROVE  /\ proc[p].pc = "scroll"
           /\ proc[p].op \in {"share", "ingest", "publish"}
           /\ Put(p, [proc[p] EXCEPT !.todo = personal, !.pc = "upsert"])
  <1>1. p \in Procs /\ proc[p] \in Locals /\ proc[p].pc = "scroll" /\ Fits(p, proc[p], born, tomb, wanted)
    BY DEF Base, Manned, Procs, At, Scroll
  <1> DEFINE r == [proc[p] EXCEPT !.todo = personal]
  <1>2. r \in Locals /\ r.op = proc[p].op
    BY <1>1, WholeIs DEF Locals, Base, Stored
  <1>3. Advance(p, r)
    BY DEF Scroll
  <1>4. [r EXCEPT !.pc = "upsert"] = [proc[p] EXCEPT !.todo = personal, !.pc = "upsert"]
    BY <1>1 DEF Locals
  <1>5. Put(p, [r EXCEPT !.pc = "upsert"])
    <2> HIDE DEF r
    <2> QED
      BY <1>1, <1>2, <1>3, AdvanceIs, Successors DEF Legal, Fits, OpNames, Places, Put
  <1> QED
    BY <1>1, <1>4, <1>5 DEF Legal, Fits

LEMMA UpsertDoes ==
    ASSUME Base, NEW p \in Procs, Upsert(p)
    PROVE  /\ proc[p].pc = "upsert" /\ proc[p].op \in {"share", "ingest", "publish"}
           /\ \/ /\ proc[p].todo = NoChunks /\ UNCHANGED mirror
                 /\ Put(p, IF proc[p].op = "publish" THEN Idle ELSE [proc[p] EXCEPT !.pc = "unlock"])
              \/ \E i \in Ix : /\ proc[p].todo[i] # 0
                               /\ mirror' = [mirror EXCEPT ![proc[p].doc][i] = proc[p].todo[i]]
                               /\ Put(p, [proc[p] EXCEPT !.todo[i] = 0])
              \/ \E i \in Ix : /\ proc[p].todo[i] # 0 /\ UNCHANGED mirror
                               /\ Put(p, [proc[p] EXCEPT !.todo[i] = 0, !.clean = FALSE])
  <1>1. proc[p] \in Locals /\ proc[p].pc = "upsert" /\ Fits(p, proc[p], born, tomb, wanted)
    BY DEF Base, Manned, At, Upsert
  <1>2. proc[p].op \in {"share", "ingest", "publish"}
    BY <1>1 DEF Fits, Legal
  <1>3. CASE proc[p].todo = NoChunks /\ Continue(p) /\ UNCHANGED mirror
    <2>1. Legal(proc[p].op, "upsert") /\ Following(proc[p].op, "upsert") = IF proc[p].op = "publish" THEN "idle" ELSE "unlock"
      BY <1>1, <1>2, Successors DEF Legal, OpNames, Places
    <2> QED
      BY <1>1, <1>2, <1>3, <2>1, AdvanceIs DEF Put, Continue
  <1>4. ASSUME NEW i \in Ix
        PROVE  /\ [[proc[p] EXCEPT !.todo[i] = 0] EXCEPT !.pc = "upsert"] = [proc[p] EXCEPT !.todo[i] = 0]
               /\ [ChunkFails([proc[p] EXCEPT !.todo[i] = 0]) EXCEPT !.pc = "upsert"]
                    = [proc[p] EXCEPT !.todo[i] = 0, !.clean = FALSE]
    BY <1>1 DEF ChunkFails, Locals
  <1>5. CASE proc[p].todo # NoChunks
    <2>1. PICK i \in Ix : /\ proc[p].todo[i] # 0
                        /\ \/ /\ mirror' = [mirror EXCEPT ![proc[p].doc][i] = proc[p].todo[i]]
                              /\ Goto(p, [proc[p] EXCEPT !.todo[i] = 0], "upsert")
                           \/ /\ Goto(p, ChunkFails([proc[p] EXCEPT !.todo[i] = 0]), "upsert")
                              /\ UNCHANGED mirror
      BY <1>5 DEF Upsert
    <2>2. \/ /\ mirror' = [mirror EXCEPT ![proc[p].doc][i] = proc[p].todo[i]]
             /\ Put(p, [proc[p] EXCEPT !.todo[i] = 0])
          \/ /\ Put(p, [proc[p] EXCEPT !.todo[i] = 0, !.clean = FALSE])
             /\ UNCHANGED mirror
      BY <1>4, <2>1 DEF Goto, Put
    <2> QED
      BY <1>1, <1>2, <2>1, <2>2
  <1> QED
    BY <1>1, <1>2, <1>3, <1>5 DEF Upsert

LEMMA AbortsDoes ==
    ASSUME Base, NEW p \in Procs, Aborts(p)
    PROVE  \/ /\ Reprojecting(p) /\ UNCHANGED lock
              /\ Put(p, [proc[p] EXCEPT !.pc = "unlock"])
           \/ lock' = FreedBy(p) /\ Put(p, Idle)
           \/ /\ proc[p].op \in {"purge", "repurge"} /\ proc[p].pc \in {"sweep", "clear"}
              /\ Put(p, [proc[p] EXCEPT !.clean = FALSE, !.pc = "stamp"]) /\ UNCHANGED lock
  BY DEF Aborts, JobFails, Goto, Put

LEMMA ClaimDoes ==
    ASSUME Base, Claim
    PROVE  /\ proc[Worker].pc = "idle"
           /\ \E r \in Locals : Put(Worker, r) /\ ((r.op = "ingest" /\ r.pc = "hash")
                                \/ (r.op \in {"share", "unshare"} /\ r.pc = "read"))
  <1>1. PICK j \in DOMAIN jobs : Start(Worker, jobs[j].kind, FirstStep(jobs[j].kind), jobs[j].doc, jobs[j].ver, j)
    BY DEF Claim
  <1> DEFINE r == [Idle EXCEPT !.op = jobs[j].kind, !.pc = FirstStep(jobs[j].kind), !.doc = jobs[j].doc,
                               !.ver = jobs[j].ver, !.job = j]
  <1>2. jobs[j] \in Jobs /\ j \in Nat
    BY JobsAre DEF Base, Stored
  <1>3. r \in Locals /\ r.op = jobs[j].kind /\ r.pc = FirstStep(jobs[j].kind)
    BY ZenonT(60), <1>2, IdleIs DEF Locals, Jobs, JobKinds, FirstStep, OpNames, Places
  <1>4. Put(Worker, r)
    BY <1>1 DEF Start, Put
  <1> QED
    BY ZenonT(60), <1>2, <1>3, <1>4 DEF Claim, At, FirstStep, Jobs, JobKinds

LEMMA StartIs ==
    ASSUME NEW p \in Procs, NEW o \in OpNames, NEW s \in Places, NEW d \in Docs \cup {NoDoc}, Start(p, o, s, d, 0, 0)
    PROVE  \E r \in Locals : Put(p, r) /\ r.op = o /\ r.pc = s
  <1> DEFINE r == [Idle EXCEPT !.op = o, !.pc = s, !.doc = d, !.ver = 0, !.job = 0]
  <1>1. r \in Locals /\ r.op = o /\ r.pc = s
    BY IdleIs DEF Locals
  <1> QED
    BY <1>1 DEF Start, Put

LEMMA RequestDoes ==
    ASSUME Base, NEW t \in Threads,
           \/ \E k \in {"share", "unshare"} : RequestToggle(t, k)
           \/ RequestPublish(t) \/ RequestUnpublish(t)
           \/ \E d \in Docs : RequestAdmin(t, d) \/ RequestPurge(t, d)
    PROVE  /\ UNCHANGED <<content, lock>> /\ proc[t].pc = "idle"
           /\ \/ UNCHANGED proc
              \/ \E r \in Locals : /\ Put(t, r)
                                   /\ \/ r.op \in {"share", "unshare"} /\ r.pc = "enqueue"
                                      \/ r.op = "publish" /\ "publish" \in Requests /\ r.pc = "insert"
                                      \/ r.op = "unpublish" /\ "unpublish" \in Requests /\ r.pc = "delete"
                                      \/ r.op = "admin" /\ "admin" \in Requests /\ r.pc = "delete"
                                      \/ r.op \in {"purge", "repurge"} /\ r.pc = "lock"
  <1>1. t \in Procs /\ row.id \in Docs \cup {NoDoc} /\ Docs \subseteq Docs \cup {NoDoc}
    BY DEF Base, Stored, Procs
  <1>2. /\ {"share", "unshare", "publish", "unpublish", "admin", "purge", "repurge"} \subseteq OpNames
        /\ {"enqueue", "insert", "delete", "lock"} \subseteq Places
    BY DEF OpNames, Places
  <1>3. ASSUME NEW k \in {"share", "unshare"}, RequestToggle(t, k)
        PROVE  UNCHANGED proc \/ Start(t, k, "enqueue", row.id, 0, 0)
    BY <1>3 DEF RequestToggle
  <1>4. RequestPublish(t) => "publish" \in Requests /\ Start(t, "publish", "insert", row.id, 0, 0)
    BY DEF RequestPublish, Serve
  <1>5. RequestUnpublish(t) => "unpublish" \in Requests /\ Start(t, "unpublish", "delete", row.id, 0, 0)
    BY DEF RequestUnpublish, Serve
  <1>6. ASSUME NEW d \in Docs, RequestAdmin(t, d)
        PROVE  "admin" \in Requests /\ Start(t, "admin", "delete", d, 0, 0)
    BY <1>6 DEF RequestAdmin, Serve
  <1>7. ASSUME NEW d \in Docs, RequestPurge(t, d)
        PROVE  Start(t, "purge", "lock", d, 0, 0) \/ Start(t, "repurge", "lock", d, 0, 0)
    BY <1>7 DEF RequestPurge, Serve
  <1>8. UNCHANGED <<content, lock>> /\ proc[t].pc = "idle"
    BY DEF RequestToggle, RequestPublish, RequestUnpublish, RequestAdmin, RequestPurge, Serve, At
  <1>9. CASE \E k \in {"share", "unshare"} : RequestToggle(t, k)
    BY <1>1, <1>2, <1>3, <1>8, <1>9, StartIs
  <1>10. CASE RequestPublish(t) \/ RequestUnpublish(t)
    BY <1>1, <1>2, <1>4, <1>5, <1>8, <1>10, StartIs
  <1>11. CASE \E d \in Docs : RequestAdmin(t, d)
    BY <1>1, <1>2, <1>6, <1>8, <1>11, StartIs
  <1>12. CASE \E d \in Docs : RequestPurge(t, d)
    BY <1>1, <1>2, <1>7, <1>8, <1>12, StartIs
  <1> QED
    BY <1>9, <1>10, <1>11, <1>12

-----------------------------------------------------------------------------
\* The same, field by field.
Changed(p, s, d, td, cl, pa) ==
  /\ \A q \in Procs : q # p => proc'[q] = proc[q]
  /\ proc'[p].pc = s /\ proc'[p].op = proc[p].op /\ proc'[p].job = proc[p].job
  /\ proc'[p].doc = d /\ proc'[p].todo = td /\ proc'[p].clean = cl /\ proc'[p].path = pa
Keeps(p, s) == Changed(p, s, proc[p].doc, proc[p].todo, proc[p].clean, proc[p].path)
Ends(p) == (\A q \in Procs : q # p => proc'[q] = proc[q]) /\ proc'[p] = Idle

LEMMA GoesOn == ASSUME Base, NEW p \in Procs, NEW s, Put(p, [proc[p] EXCEPT !.pc = s]) PROVE Keeps(p, s)
  BY DEF Base, Manned, Put, Keeps, Changed, Locals

LEMMA GoesIdle == ASSUME Base, NEW p \in Procs, Put(p, Idle) PROVE Ends(p)
  BY DEF Base, Manned, Put, Ends

LEMMA RemoveAfter ==
    ASSUME Base, NEW t \in Threads, Remove(t)
    PROVE  /\ proc[t].pc = "remove"
           /\ proc[t].op = "purge" /\ Keeps(t, "check")
  BY RemoveDoes, GoesOn, GoesIdle DEF Procs

LEMMA CheckPathAfter ==
    ASSUME Base, NEW t \in Threads, CheckPath(t)
    PROVE  /\ proc[t].pc = "check" /\ proc[t].op \in {"purge", "repurge"}
           /\ Changed(t, "sweep", proc[t].doc, proc[t].todo, proc[t].clean, row.id \in {NoDoc, proc[t].doc})
  <1>1. t \in Procs /\ proc \in [Procs -> Locals] /\ proc[t] \in Locals
    BY DEF Base, Manned, Procs
  <1>2. Put(t, [proc[t] EXCEPT !.path = row.id \in {NoDoc, proc[t].doc}, !.pc = "sweep"])
        => Changed(t, "sweep", proc[t].doc, proc[t].todo, proc[t].clean, row.id \in {NoDoc, proc[t].doc})
    BY <1>1 DEF Put, Changed, Locals
  <1> QED
    BY <1>1, <1>2, CheckPathDoes, GoesOn, GoesIdle

LEMMA SweepAfter ==
    ASSUME Base, NEW t \in Threads, Sweep(t)
    PROVE  /\ proc[t].pc = "sweep"
           /\ proc[t].op \in {"purge", "repurge"} /\ Keeps(t, "clear")
  BY SweepDoes, GoesOn, GoesIdle DEF Procs

LEMMA StampAfter ==
    ASSUME Base, NEW t \in Threads, Stamp(t)
    PROVE  /\ proc[t].pc = "stamp"
           /\ proc[t].op \in {"purge", "repurge"} /\ Keeps(t, "unlock")
  BY StampDoes, GoesOn, GoesIdle DEF Procs

LEMMA VerifyAfter ==
    ASSUME Base, NEW t \in Threads, Verify(t)
    PROVE  /\ proc[t].pc = "verify"
           /\ Ends(t)
  BY VerifyDoes, GoesOn, GoesIdle DEF Procs

LEMMA CompleteAfter ==
    ASSUME Base, Complete
    PROVE  /\ proc[Worker].pc = "complete"
           /\ Ends(Worker)
  BY CompleteDoes, GoesOn, GoesIdle DEF Procs

LEMMA ReadSourceAfter ==
    ASSUME Base, ReadSource
    PROVE  /\ proc[Worker].pc = "read"
           /\ proc[Worker].op \in {"share", "unshare"}
           /\ \/ Keeps(Worker, "lock")
              \/ row.id # proc[Worker].doc /\ Keeps(Worker, "complete")
  BY ReadSourceDoes, GoesOn, GoesIdle DEF Procs

LEMMA RecheckAfter ==
    ASSUME Base, Recheck
    PROVE  /\ proc[Worker].pc = "recheck"
           /\ proc[Worker].op \in {"share", "unshare"}
           /\ \/ row.id = proc[Worker].doc /\ proc[Worker].op = "share" /\ Keeps(Worker, "insert")
              \/ row.id = proc[Worker].doc /\ proc[Worker].op = "unshare" /\ Keeps(Worker, "delete")
              \/ row.id # proc[Worker].doc /\ Keeps(Worker, "unlock")
  BY RecheckDoes, GoesOn, GoesIdle DEF Procs

LEMMA HashAfter ==
    ASSUME Base, Hash
    PROVE  /\ proc[Worker].pc = "hash"
           /\ proc[Worker].op \in {"ingest"}
           /\ \/ Keeps(Worker, "wipe")
              \/ Keeps(Worker, "complete")
  BY HashDoes, GoesOn, GoesIdle DEF Procs

LEMMA WipeAfter ==
    ASSUME Base, Wipe
    PROVE  /\ proc[Worker].pc = "wipe"
           /\ proc[Worker].op = "ingest"
           /\ Changed(Worker, "write", proc[Worker].doc, Whole(proc[Worker].ver), proc[Worker].clean, proc[Worker].path)
  <1>1. Worker \in Procs /\ proc \in [Procs -> Locals] /\ proc[Worker] \in Locals
    BY DEF Base, Manned, Procs
  <1>2. Put(Worker, [proc[Worker] EXCEPT !.todo = Whole(proc[Worker].ver), !.pc = "write"])
        => Changed(Worker, "write", proc[Worker].doc, Whole(proc[Worker].ver), proc[Worker].clean, proc[Worker].path)
    BY <1>1 DEF Put, Changed, Locals
  <1> QED
    BY <1>1, <1>2, WipeDoes, GoesOn, GoesIdle

LEMMA WriteAfter ==
    ASSUME Base, Write
    PROVE  /\ proc[Worker].pc = "write" /\ proc[Worker].op = "ingest"
           /\ \/ UNCHANGED personal /\ Keeps(Worker, "index")
              \/ \E i \in Ix : Changed(Worker, "write", proc[Worker].doc, [proc[Worker].todo EXCEPT ![i] = 0], proc[Worker].clean, proc[Worker].path)
  <1>1. Worker \in Procs /\ proc \in [Procs -> Locals] /\ proc[Worker] \in Locals
    BY DEF Base, Manned, Procs
  <1>2. \A i \in Ix : Put(Worker, [proc[Worker] EXCEPT !.todo[i] = 0]) /\ proc[Worker].pc = "write"
        => Changed(Worker, "write", proc[Worker].doc, [proc[Worker].todo EXCEPT ![i] = 0], proc[Worker].clean, proc[Worker].path)
    BY <1>1 DEF Put, Changed, Locals
  <1> QED
    BY <1>1, <1>2, WriteDoes, GoesOn, GoesIdle

LEMMA IndexAfter ==
    ASSUME Base, Index
    PROVE  /\ proc[Worker].pc = "index"
           /\ proc[Worker].op = "ingest" /\ Keeps(Worker, "look")
  BY IndexDoes, GoesOn, GoesIdle DEF Procs

LEMMA LookAfter ==
    ASSUME Base, Look
    PROVE  /\ proc[Worker].pc = "look" /\ proc[Worker].op = "ingest"
           /\ \/ row.id \in shared /\ Changed(Worker, "lock", row.id, proc[Worker].todo, proc[Worker].clean, proc[Worker].path)
              \/ Keeps(Worker, "complete")
  <1>1. Worker \in Procs /\ proc \in [Procs -> Locals] /\ proc[Worker] \in Locals
    BY DEF Base, Manned, Procs
  <1>2. Put(Worker, [proc[Worker] EXCEPT !.doc = row.id, !.pc = "lock"])
        => Changed(Worker, "lock", row.id, proc[Worker].todo, proc[Worker].clean, proc[Worker].path)
    BY <1>1 DEF Put, Changed, Locals
  <1> QED
    BY <1>1, <1>2, LookDoes, GoesOn, GoesIdle

LEMMA AcquireAfter ==
    ASSUME Base, NEW p \in Procs, Acquire(p)
    PROVE  /\ proc[p].pc = "lock"
           /\ \/ proc[p].op \in {"share", "unshare"} /\ Keeps(p, "recheck")
              \/ proc[p].op = "ingest" /\ Keeps(p, "clear")
              \/ proc[p].op = "purge" /\ Keeps(p, "remove")
              \/ proc[p].op = "repurge" /\ Keeps(p, "check")
  BY AcquireDoes, GoesOn, GoesIdle DEF Procs

LEMMA UnlockAfter ==
    ASSUME Base, NEW p \in Procs, Unlock(p)
    PROVE  /\ proc[p].pc = "unlock"
           /\ \/ proc[p].op \in {"purge", "repurge"} /\ Ends(p)
              \/ Keeps(p, "complete")
  BY UnlockDoes, GoesOn, GoesIdle DEF Procs

LEMMA InsertSharedAfter ==
    ASSUME Base, NEW p \in Procs, InsertShared(p)
    PROVE  /\ proc[p].pc = "insert"
           /\ proc[p].op \in {"share", "publish"} /\ Keeps(p, "clear")
  BY InsertSharedDoes, GoesOn, GoesIdle DEF Procs

LEMMA DeleteSharedAfter ==
    ASSUME Base, NEW p \in Procs, DeleteShared(p)
    PROVE  /\ proc[p].pc = "delete"
           /\ proc[p].op \in {"unshare", "unpublish", "admin"}
           /\ \/ Keeps(p, "clear")
              \/ proc[p].op # "unshare" /\ (Ends(p) \/ Keeps(p, "verify"))
              \/ proc[p].op = "unshare" /\ Keeps(p, "unlock")
  BY DeleteSharedDoes, GoesOn, GoesIdle DEF Procs

LEMMA ClearAfter ==
    ASSUME Base, NEW p \in Procs, Clear(p)
    PROVE  /\ proc[p].pc = "clear"
           /\ \/ proc[p].op \in {"share", "ingest", "publish"} /\ Keeps(p, "scroll")
              \/ proc[p].op = "unshare" /\ Keeps(p, "unlock")
              \/ proc[p].op = "unpublish" /\ Ends(p)
              \/ proc[p].op = "admin" /\ Keeps(p, "verify")
              \/ proc[p].op \in {"purge", "repurge"} /\ Keeps(p, "stamp")
  BY ClearDoes, GoesOn, GoesIdle DEF Procs

LEMMA ScrollAfter ==
    ASSUME Base, NEW p \in Procs, Scroll(p)
    PROVE  /\ proc[p].pc = "scroll"
           /\ proc[p].op \in {"share", "ingest", "publish"}
           /\ Changed(p, "upsert", proc[p].doc, personal, proc[p].clean, proc[p].path)
  <1>1. p \in Procs /\ proc \in [Procs -> Locals] /\ proc[p] \in Locals
    BY DEF Base, Manned, Procs
  <1>2. Put(p, [proc[p] EXCEPT !.todo = personal, !.pc = "upsert"])
        => Changed(p, "upsert", proc[p].doc, personal, proc[p].clean, proc[p].path)
    BY <1>1 DEF Put, Changed, Locals
  <1> QED
    BY <1>1, <1>2, ScrollDoes, GoesOn, GoesIdle

LEMMA UpsertAfter ==
    ASSUME Base, NEW p \in Procs, Upsert(p)
    PROVE  /\ proc[p].pc = "upsert" /\ proc[p].op \in {"share", "ingest", "publish"}
           /\ \/ /\ proc[p].todo = NoChunks /\ UNCHANGED mirror
                 /\ IF proc[p].op = "publish" THEN Ends(p) ELSE Keeps(p, "unlock")
              \/ \E i \in Ix : /\ proc[p].todo[i] # 0
                               /\ mirror' = [mirror EXCEPT ![proc[p].doc][i] = proc[p].todo[i]]
                               /\ Changed(p, "upsert", proc[p].doc, [proc[p].todo EXCEPT ![i] = 0], proc[p].clean, proc[p].path)
              \/ \E i \in Ix : /\ proc[p].todo[i] # 0 /\ UNCHANGED mirror
                               /\ Changed(p, "upsert", proc[p].doc, [proc[p].todo EXCEPT ![i] = 0], FALSE, proc[p].path)
  <1>1. p \in Procs /\ proc \in [Procs -> Locals] /\ proc[p] \in Locals
    BY DEF Base, Manned, Procs
  <1>2. \A i \in Ix : Put(p, [proc[p] EXCEPT !.todo[i] = 0]) /\ proc[p].pc = "upsert"
        => Changed(p, "upsert", proc[p].doc, [proc[p].todo EXCEPT ![i] = 0], proc[p].clean, proc[p].path)
    BY <1>1 DEF Put, Changed, Locals
  <1>3. \A i \in Ix : Put(p, [proc[p] EXCEPT !.todo[i] = 0, !.clean = FALSE]) /\ proc[p].pc = "upsert"
        => Changed(p, "upsert", proc[p].doc, [proc[p].todo EXCEPT ![i] = 0], FALSE, proc[p].path)
    BY <1>1 DEF Put, Changed, Locals
  <1> QED
    BY <1>1, <1>2, <1>3, UpsertDoes, GoesOn, GoesIdle

LEMMA AbortsAfter ==
    ASSUME Base, NEW p \in Procs, Aborts(p)
    PROVE  \/ /\ Reprojecting(p) /\ UNCHANGED lock
              /\ Keeps(p, "unlock")
           \/ lock' = FreedBy(p) /\ Ends(p)
           \/ /\ proc[p].op \in {"purge", "repurge"} /\ proc[p].pc \in {"sweep", "clear"}
              /\ Changed(p, "stamp", proc[p].doc, proc[p].todo, FALSE, proc[p].path) /\ UNCHANGED lock
  <1>1. p \in Procs /\ proc \in [Procs -> Locals] /\ proc[p] \in Locals
    BY DEF Base, Manned, Procs
  <1>2. Put(p, [proc[p] EXCEPT !.clean = FALSE, !.pc = "stamp"])
        => Changed(p, "stamp", proc[p].doc, proc[p].todo, FALSE, proc[p].path)
    BY <1>1 DEF Put, Changed, Locals
  <1> QED
    BY <1>1, <1>2, AbortsDoes, GoesOn, GoesIdle

-----------------------------------------------------------------------------
(***************************************************************************)
(* Shared chunks are not stale: when nothing is copied but by the worker,   *)
(* which does not rewrite the owner's chunks while it copies them.          *)
(***************************************************************************)
NoInline   == "publish" \notin Requests
NoPublish  == \A p \in Procs : proc[p].op # "publish"
Copying    == At(Worker, "upsert") => \A i \in Ix : proc[Worker].todo[i] # 0 /\ personal[i] # 0
                                                      => proc[Worker].todo[i] = personal[i]
Rewriting  == At(Worker, "write") => \A d \in Docs, i \in Ix : mirror[d][i] = 0
Fresh      == NoPublish /\ Copying /\ Rewriting /\ NeverStale

Shrinking == /\ \A d \in Docs, i \in Ix : mirror'[d][i] \in {0, mirror[d][i]}
             /\ \A i \in Ix : personal'[i] \in {0, personal[i]}

\* Deleting chunks does no harm.
LEMMA FreshFrame ==
    ASSUME Fresh, Shrinking, NoPublish',
           proc'[Worker] = proc[Worker] \/ proc'[Worker].pc \notin {"write", "upsert"}
    PROVE  Fresh'
  <1>1. NeverStale'
    BY DEF Fresh, Shrinking, NeverStale
  <1>2. Rewriting'
    BY DEF Fresh, Shrinking, Rewriting, At
  <1>3. Copying'
    BY DEF Fresh, Shrinking, Copying, At
  <1> QED
    BY <1>1, <1>2, <1>3 DEF Fresh

LEMMA RemoveFresh ==
    ASSUME Base, Base', Fresh, NoInline, NEW t \in Threads, Remove(t)
    PROVE  Fresh'
  <1>0. /\ Worker \in Procs /\ Threads \subseteq Procs /\ Worker \notin Threads /\ t \in Procs
        /\ proc \in [Procs -> Locals] /\ proc' \in [Procs -> Locals]
        /\ mirror \in [Docs -> [Ix -> Versions \cup {0}]] /\ personal \in [Ix -> Versions \cup {0}]
    BY DEF Base, Manned, Stored, Procs
  <1>1. Shrinking
    BY <1>0, IdleIs DEF Remove, content, Shrinking
  <1>2. NoPublish'
    BY <1>0, RemoveAfter, IdleIs DEF Fresh, NoPublish, Keeps, Changed, Ends
  <1>3. proc'[Worker] = proc[Worker] \/ proc'[Worker].pc \notin {"write", "upsert"}
    BY <1>0, RemoveAfter, IdleIs DEF Keeps, Changed, Ends
  <1> QED
    BY <1>1, <1>2, <1>3, FreshFrame

LEMMA CheckPathFresh ==
    ASSUME Base, Base', Fresh, NoInline, NEW t \in Threads, CheckPath(t)
    PROVE  Fresh'
  <1>0. /\ Worker \in Procs /\ Threads \subseteq Procs /\ Worker \notin Threads /\ t \in Procs
        /\ proc \in [Procs -> Locals] /\ proc' \in [Procs -> Locals]
        /\ mirror \in [Docs -> [Ix -> Versions \cup {0}]] /\ personal \in [Ix -> Versions \cup {0}]
    BY DEF Base, Manned, Stored, Procs
  <1>1. Shrinking
    BY <1>0, IdleIs DEF CheckPath, content, Shrinking
  <1>2. NoPublish'
    BY <1>0, CheckPathAfter, IdleIs DEF Fresh, NoPublish, Keeps, Changed, Ends
  <1>3. proc'[Worker] = proc[Worker] \/ proc'[Worker].pc \notin {"write", "upsert"}
    BY <1>0, CheckPathAfter, IdleIs DEF Keeps, Changed, Ends
  <1> QED
    BY <1>1, <1>2, <1>3, FreshFrame

LEMMA SweepFresh ==
    ASSUME Base, Base', Fresh, NoInline, NEW t \in Threads, Sweep(t)
    PROVE  Fresh'
  <1>0. /\ Worker \in Procs /\ Threads \subseteq Procs /\ Worker \notin Threads /\ t \in Procs
        /\ proc \in [Procs -> Locals] /\ proc' \in [Procs -> Locals]
        /\ mirror \in [Docs -> [Ix -> Versions \cup {0}]] /\ personal \in [Ix -> Versions \cup {0}]
    BY DEF Base, Manned, Stored, Procs
  <1>1. Shrinking
    BY <1>0, IdleIs DEF Sweep, content, WipePath, Shrinking
  <1>2. NoPublish'
    BY <1>0, SweepAfter, IdleIs DEF Fresh, NoPublish, Keeps, Changed, Ends
  <1>3. proc'[Worker] = proc[Worker] \/ proc'[Worker].pc \notin {"write", "upsert"}
    BY <1>0, SweepAfter, IdleIs DEF Keeps, Changed, Ends
  <1> QED
    BY <1>1, <1>2, <1>3, FreshFrame

LEMMA StampFresh ==
    ASSUME Base, Base', Fresh, NoInline, NEW t \in Threads, Stamp(t)
    PROVE  Fresh'
  <1>0. /\ Worker \in Procs /\ Threads \subseteq Procs /\ Worker \notin Threads /\ t \in Procs
        /\ proc \in [Procs -> Locals] /\ proc' \in [Procs -> Locals]
        /\ mirror \in [Docs -> [Ix -> Versions \cup {0}]] /\ personal \in [Ix -> Versions \cup {0}]
    BY DEF Base, Manned, Stored, Procs
  <1>1. Shrinking
    BY <1>0, IdleIs DEF Stamp, content, Shrinking
  <1>2. NoPublish'
    BY <1>0, StampAfter, IdleIs DEF Fresh, NoPublish, Keeps, Changed, Ends
  <1>3. proc'[Worker] = proc[Worker] \/ proc'[Worker].pc \notin {"write", "upsert"}
    BY <1>0, StampAfter, IdleIs DEF Keeps, Changed, Ends
  <1> QED
    BY <1>1, <1>2, <1>3, FreshFrame

LEMMA VerifyFresh ==
    ASSUME Base, Base', Fresh, NoInline, NEW t \in Threads, Verify(t)
    PROVE  Fresh'
  <1>0. /\ Worker \in Procs /\ Threads \subseteq Procs /\ Worker \notin Threads /\ t \in Procs
        /\ proc \in [Procs -> Locals] /\ proc' \in [Procs -> Locals]
        /\ mirror \in [Docs -> [Ix -> Versions \cup {0}]] /\ personal \in [Ix -> Versions \cup {0}]
    BY DEF Base, Manned, Stored, Procs
  <1>1. Shrinking
    BY <1>0, IdleIs DEF Verify, content, Shrinking
  <1>2. NoPublish'
    BY <1>0, VerifyAfter, IdleIs DEF Fresh, NoPublish, Keeps, Changed, Ends
  <1>3. proc'[Worker] = proc[Worker] \/ proc'[Worker].pc \notin {"write", "upsert"}
    BY <1>0, VerifyAfter, IdleIs DEF Keeps, Changed, Ends
  <1> QED
    BY <1>1, <1>2, <1>3, FreshFrame

LEMMA CompleteFresh ==
    ASSUME Base, Base', Fresh, NoInline, Complete
    PROVE  Fresh'
  <1>0. /\ Worker \in Procs /\ Threads \subseteq Procs /\ Worker \notin Threads /\ Worker \in Procs
        /\ proc \in [Procs -> Locals] /\ proc' \in [Procs -> Locals]
        /\ mirror \in [Docs -> [Ix -> Versions \cup {0}]] /\ personal \in [Ix -> Versions \cup {0}]
    BY DEF Base, Manned, Stored, Procs
  <1>1. Shrinking
    BY <1>0, IdleIs DEF Complete, content, Shrinking
  <1>2. NoPublish'
    BY <1>0, CompleteAfter, IdleIs DEF Fresh, NoPublish, Keeps, Changed, Ends
  <1>3. proc'[Worker] = proc[Worker] \/ proc'[Worker].pc \notin {"write", "upsert"}
    BY <1>0, CompleteAfter, IdleIs DEF Keeps, Changed, Ends
  <1> QED
    BY <1>1, <1>2, <1>3, FreshFrame

LEMMA ReadSourceFresh ==
    ASSUME Base, Base', Fresh, NoInline, ReadSource
    PROVE  Fresh'
  <1>0. /\ Worker \in Procs /\ Threads \subseteq Procs /\ Worker \notin Threads /\ Worker \in Procs
        /\ proc \in [Procs -> Locals] /\ proc' \in [Procs -> Locals]
        /\ mirror \in [Docs -> [Ix -> Versions \cup {0}]] /\ personal \in [Ix -> Versions \cup {0}]
    BY DEF Base, Manned, Stored, Procs
  <1>1. Shrinking
    BY <1>0, IdleIs DEF ReadSource, content, Shrinking
  <1>2. NoPublish'
    BY <1>0, ReadSourceAfter, IdleIs DEF Fresh, NoPublish, Keeps, Changed, Ends
  <1>3. proc'[Worker] = proc[Worker] \/ proc'[Worker].pc \notin {"write", "upsert"}
    BY <1>0, ReadSourceAfter, IdleIs DEF Keeps, Changed, Ends
  <1> QED
    BY <1>1, <1>2, <1>3, FreshFrame

LEMMA RecheckFresh ==
    ASSUME Base, Base', Fresh, NoInline, Recheck
    PROVE  Fresh'
  <1>0. /\ Worker \in Procs /\ Threads \subseteq Procs /\ Worker \notin Threads /\ Worker \in Procs
        /\ proc \in [Procs -> Locals] /\ proc' \in [Procs -> Locals]
        /\ mirror \in [Docs -> [Ix -> Versions \cup {0}]] /\ personal \in [Ix -> Versions \cup {0}]
    BY DEF Base, Manned, Stored, Procs
  <1>1. Shrinking
    BY <1>0, IdleIs DEF Recheck, content, Shrinking
  <1>2. NoPublish'
    BY <1>0, RecheckAfter, IdleIs DEF Fresh, NoPublish, Keeps, Changed, Ends
  <1>3. proc'[Worker] = proc[Worker] \/ proc'[Worker].pc \notin {"write", "upsert"}
    BY <1>0, RecheckAfter, IdleIs DEF Keeps, Changed, Ends
  <1> QED
    BY <1>1, <1>2, <1>3, FreshFrame

LEMMA HashFresh ==
    ASSUME Base, Base', Fresh, NoInline, Hash
    PROVE  Fresh'
  <1>0. /\ Worker \in Procs /\ Threads \subseteq Procs /\ Worker \notin Threads /\ Worker \in Procs
        /\ proc \in [Procs -> Locals] /\ proc' \in [Procs -> Locals]
        /\ mirror \in [Docs -> [Ix -> Versions \cup {0}]] /\ personal \in [Ix -> Versions \cup {0}]
    BY DEF Base, Manned, Stored, Procs
  <1>1. Shrinking
    BY <1>0, IdleIs DEF Hash, content, Shrinking
  <1>2. NoPublish'
    BY <1>0, HashAfter, IdleIs DEF Fresh, NoPublish, Keeps, Changed, Ends
  <1>3. proc'[Worker] = proc[Worker] \/ proc'[Worker].pc \notin {"write", "upsert"}
    BY <1>0, HashAfter, IdleIs DEF Keeps, Changed, Ends
  <1> QED
    BY <1>1, <1>2, <1>3, FreshFrame

LEMMA IndexFresh ==
    ASSUME Base, Base', Fresh, NoInline, Index
    PROVE  Fresh'
  <1>0. /\ Worker \in Procs /\ Threads \subseteq Procs /\ Worker \notin Threads /\ Worker \in Procs
        /\ proc \in [Procs -> Locals] /\ proc' \in [Procs -> Locals]
        /\ mirror \in [Docs -> [Ix -> Versions \cup {0}]] /\ personal \in [Ix -> Versions \cup {0}]
    BY DEF Base, Manned, Stored, Procs
  <1>1. Shrinking
    BY <1>0, IdleIs DEF Index, content, Shrinking
  <1>2. NoPublish'
    BY <1>0, IndexAfter, IdleIs DEF Fresh, NoPublish, Keeps, Changed, Ends
  <1>3. proc'[Worker] = proc[Worker] \/ proc'[Worker].pc \notin {"write", "upsert"}
    BY <1>0, IndexAfter, IdleIs DEF Keeps, Changed, Ends
  <1> QED
    BY <1>1, <1>2, <1>3, FreshFrame

LEMMA LookFresh ==
    ASSUME Base, Base', Fresh, NoInline, Look
    PROVE  Fresh'
  <1>0. /\ Worker \in Procs /\ Threads \subseteq Procs /\ Worker \notin Threads /\ Worker \in Procs
        /\ proc \in [Procs -> Locals] /\ proc' \in [Procs -> Locals]
        /\ mirror \in [Docs -> [Ix -> Versions \cup {0}]] /\ personal \in [Ix -> Versions \cup {0}]
    BY DEF Base, Manned, Stored, Procs
  <1>1. Shrinking
    BY <1>0, IdleIs DEF Look, content, Shrinking
  <1>2. NoPublish'
    BY <1>0, LookAfter, IdleIs DEF Fresh, NoPublish, Keeps, Changed, Ends
  <1>3. proc'[Worker] = proc[Worker] \/ proc'[Worker].pc \notin {"write", "upsert"}
    BY <1>0, LookAfter, IdleIs DEF Keeps, Changed, Ends
  <1> QED
    BY <1>1, <1>2, <1>3, FreshFrame

LEMMA AcquireFresh ==
    ASSUME Base, Base', Fresh, NoInline, NEW p \in Procs, Acquire(p)
    PROVE  Fresh'
  <1>0. /\ Worker \in Procs /\ Threads \subseteq Procs /\ Worker \notin Threads /\ p \in Procs
        /\ proc \in [Procs -> Locals] /\ proc' \in [Procs -> Locals]
        /\ mirror \in [Docs -> [Ix -> Versions \cup {0}]] /\ personal \in [Ix -> Versions \cup {0}]
    BY DEF Base, Manned, Stored, Procs
  <1>1. Shrinking
    BY <1>0, IdleIs DEF Acquire, content, Shrinking
  <1>2. NoPublish'
    BY <1>0, AcquireAfter, IdleIs DEF Fresh, NoPublish, Keeps, Changed, Ends
  <1>3. proc'[Worker] = proc[Worker] \/ proc'[Worker].pc \notin {"write", "upsert"}
    BY <1>0, AcquireAfter, IdleIs DEF Keeps, Changed, Ends
  <1> QED
    BY <1>1, <1>2, <1>3, FreshFrame

LEMMA UnlockFresh ==
    ASSUME Base, Base', Fresh, NoInline, NEW p \in Procs, Unlock(p)
    PROVE  Fresh'
  <1>0. /\ Worker \in Procs /\ Threads \subseteq Procs /\ Worker \notin Threads /\ p \in Procs
        /\ proc \in [Procs -> Locals] /\ proc' \in [Procs -> Locals]
        /\ mirror \in [Docs -> [Ix -> Versions \cup {0}]] /\ personal \in [Ix -> Versions \cup {0}]
    BY DEF Base, Manned, Stored, Procs
  <1>1. Shrinking
    BY <1>0, IdleIs DEF Unlock, content, Shrinking
  <1>2. NoPublish'
    BY <1>0, UnlockAfter, IdleIs DEF Fresh, NoPublish, Keeps, Changed, Ends
  <1>3. proc'[Worker] = proc[Worker] \/ proc'[Worker].pc \notin {"write", "upsert"}
    BY <1>0, UnlockAfter, IdleIs DEF Keeps, Changed, Ends
  <1> QED
    BY <1>1, <1>2, <1>3, FreshFrame

LEMMA InsertSharedFresh ==
    ASSUME Base, Base', Fresh, NoInline, NEW p \in Procs, InsertShared(p)
    PROVE  Fresh'
  <1>0. /\ Worker \in Procs /\ Threads \subseteq Procs /\ Worker \notin Threads /\ p \in Procs
        /\ proc \in [Procs -> Locals] /\ proc' \in [Procs -> Locals]
        /\ mirror \in [Docs -> [Ix -> Versions \cup {0}]] /\ personal \in [Ix -> Versions \cup {0}]
    BY DEF Base, Manned, Stored, Procs
  <1>1. Shrinking
    BY <1>0, IdleIs DEF InsertShared, content, Shrinking
  <1>2. NoPublish'
    BY <1>0, InsertSharedAfter, IdleIs DEF Fresh, NoPublish, Keeps, Changed, Ends
  <1>3. proc'[Worker] = proc[Worker] \/ proc'[Worker].pc \notin {"write", "upsert"}
    BY <1>0, InsertSharedAfter, IdleIs DEF Keeps, Changed, Ends
  <1> QED
    BY <1>1, <1>2, <1>3, FreshFrame

LEMMA DeleteSharedFresh ==
    ASSUME Base, Base', Fresh, NoInline, NEW p \in Procs, DeleteShared(p)
    PROVE  Fresh'
  <1>0. /\ Worker \in Procs /\ Threads \subseteq Procs /\ Worker \notin Threads /\ p \in Procs
        /\ proc \in [Procs -> Locals] /\ proc' \in [Procs -> Locals]
        /\ mirror \in [Docs -> [Ix -> Versions \cup {0}]] /\ personal \in [Ix -> Versions \cup {0}]
    BY DEF Base, Manned, Stored, Procs
  <1>1. Shrinking
    BY <1>0, IdleIs DEF DeleteShared, content, Shrinking
  <1>2. NoPublish'
    BY <1>0, DeleteSharedAfter, IdleIs DEF Fresh, NoPublish, Keeps, Changed, Ends
  <1>3. proc'[Worker] = proc[Worker] \/ proc'[Worker].pc \notin {"write", "upsert"}
    BY <1>0, DeleteSharedAfter, IdleIs DEF Keeps, Changed, Ends
  <1> QED
    BY <1>1, <1>2, <1>3, FreshFrame

LEMMA ClearFresh ==
    ASSUME Base, Base', Fresh, NoInline, NEW p \in Procs, Clear(p)
    PROVE  Fresh'
  <1>0. /\ Worker \in Procs /\ Threads \subseteq Procs /\ Worker \notin Threads /\ p \in Procs
        /\ proc \in [Procs -> Locals] /\ proc' \in [Procs -> Locals]
        /\ mirror \in [Docs -> [Ix -> Versions \cup {0}]] /\ personal \in [Ix -> Versions \cup {0}]
    BY DEF Base, Manned, Stored, Procs
  <1>1. Shrinking
    BY <1>0, IdleIs DEF Clear, content, Shrinking
  <1>2. NoPublish'
    BY <1>0, ClearAfter, IdleIs DEF Fresh, NoPublish, Keeps, Changed, Ends
  <1>3. proc'[Worker] = proc[Worker] \/ proc'[Worker].pc \notin {"write", "upsert"}
    BY <1>0, ClearAfter, IdleIs DEF Keeps, Changed, Ends
  <1> QED
    BY <1>1, <1>2, <1>3, FreshFrame

LEMMA AbortsFresh ==
    ASSUME Base, Base', Fresh, NoInline, NEW p \in Procs, Aborts(p), UNCHANGED content
    PROVE  Fresh'
  <1>0. /\ Worker \in Procs /\ Threads \subseteq Procs /\ Worker \notin Threads /\ p \in Procs
        /\ proc \in [Procs -> Locals] /\ proc' \in [Procs -> Locals]
        /\ mirror \in [Docs -> [Ix -> Versions \cup {0}]] /\ personal \in [Ix -> Versions \cup {0}]
    BY DEF Base, Manned, Stored, Procs
  <1>1. Shrinking
    BY <1>0, IdleIs DEF content, Shrinking
  <1>2. NoPublish'
    BY <1>0, AbortsAfter, IdleIs DEF Fresh, NoPublish, Keeps, Changed, Ends
  <1>3. proc'[Worker] = proc[Worker] \/ proc'[Worker].pc \notin {"write", "upsert"}
    BY <1>0, AbortsAfter, IdleIs DEF Keeps, Changed, Ends
  <1> QED
    BY <1>1, <1>2, <1>3, FreshFrame

LEMMA WipeFresh ==
    ASSUME Base, Base', Fresh, NoInline, Wipe
    PROVE  Fresh'
  <1>0. /\ Worker \in Procs /\ Threads \subseteq Procs /\ Worker \notin Threads /\ Worker \in Procs
        /\ proc \in [Procs -> Locals] /\ proc' \in [Procs -> Locals]
        /\ mirror \in [Docs -> [Ix -> Versions \cup {0}]] /\ personal \in [Ix -> Versions \cup {0}]
    BY DEF Base, Manned, Stored, Procs
  <1>1. \A d \in Docs, i \in Ix : mirror'[d][i] = 0
    BY IdleIs DEF Wipe, WipePath
  <1>2. NoPublish' /\ proc'[Worker].pc = "write"
    BY <1>0, WipeAfter DEF Fresh, NoPublish, Keeps, Changed
  <1> QED
    BY <1>1, <1>2 DEF Fresh, Rewriting, Copying, NeverStale, At

LEMMA WriteFresh ==
    ASSUME Base, Base', Fresh, NoInline, Write
    PROVE  Fresh'
  <1>0. /\ Worker \in Procs /\ Threads \subseteq Procs /\ Worker \notin Threads /\ Worker \in Procs
        /\ proc \in [Procs -> Locals] /\ proc' \in [Procs -> Locals]
        /\ mirror \in [Docs -> [Ix -> Versions \cup {0}]] /\ personal \in [Ix -> Versions \cup {0}]
    BY DEF Base, Manned, Stored, Procs
  <1>1. \A d \in Docs, i \in Ix : mirror'[d][i] = 0
    BY WriteDoes DEF Write, Fresh, Rewriting, At
  <1>2. NoPublish' /\ proc'[Worker].pc # "upsert"
    BY <1>0, WriteAfter DEF Fresh, NoPublish, Keeps, Changed
  <1> QED
    BY <1>1, <1>2 DEF Fresh, Rewriting, Copying, NeverStale, At

LEMMA ScrollFresh ==
    ASSUME Base, Base', Fresh, NoInline, NEW p \in Procs, Scroll(p)
    PROVE  Fresh'
  <1>0. /\ Worker \in Procs /\ Threads \subseteq Procs /\ Worker \notin Threads /\ p \in Procs
        /\ proc \in [Procs -> Locals] /\ proc' \in [Procs -> Locals]
        /\ mirror \in [Docs -> [Ix -> Versions \cup {0}]] /\ personal \in [Ix -> Versions \cup {0}]
    BY DEF Base, Manned, Stored, Procs
  <1>1. p = Worker
    BY <1>0, ScrollDoes DEF Base, Manned, Fits, Fresh, NoPublish, Procs
  <1>2. UNCHANGED <<mirror, personal>>
    BY DEF Scroll, content
  <1>3. /\ proc'[Worker].pc = "upsert" /\ proc'[Worker].todo = personal
        /\ proc'[Worker].op = proc[Worker].op /\ \A q \in Procs : q # Worker => proc'[q] = proc[q]
    BY <1>0, <1>1, ScrollAfter DEF Changed
  <1>4. NeverStale' /\ Rewriting' /\ NoPublish'
    BY <1>2, <1>3 DEF Fresh, NeverStale, Rewriting, NoPublish, At
  <1>5. Copying'
    BY <1>2, <1>3 DEF Copying, At
  <1> QED
    BY <1>4, <1>5 DEF Fresh

LEMMA UpsertFresh ==
    ASSUME Base, Base', Fresh, NoInline, NEW p \in Procs, Upsert(p)
    PROVE  Fresh'
  <1>0. /\ Worker \in Procs /\ Threads \subseteq Procs /\ Worker \notin Threads /\ p \in Procs
        /\ proc \in [Procs -> Locals] /\ proc' \in [Procs -> Locals]
        /\ mirror \in [Docs -> [Ix -> Versions \cup {0}]] /\ personal \in [Ix -> Versions \cup {0}]
    BY DEF Base, Manned, Stored, Procs
  <1>1. p = Worker
    BY <1>0, UpsertDoes DEF Base, Manned, Fits, Fresh, NoPublish, Procs
  <1>2. UNCHANGED personal /\ proc[Worker].pc = "upsert" /\ proc[Worker].doc \in Docs
    BY <1>0, <1>1, UpsertDoes DEF Upsert, Base, Manned, Fits, Legal, Locals
  <1>3. CASE UNCHANGED mirror /\ Keeps(p, "unlock")
    <2>1. NoPublish' /\ proc'[Worker].pc = "unlock"
      BY <1>0, <1>1, <1>3 DEF Fresh, NoPublish, Keeps, Changed
    <2> QED
      BY <1>0, <1>2, <1>3, <2>1, FreshFrame DEF Shrinking
  <1>4. ASSUME NEW i \in Ix, proc[p].todo[i] # 0,
               \/ Changed(p, "upsert", proc[p].doc, [proc[p].todo EXCEPT ![i] = 0], proc[p].clean, proc[p].path)
               \/ Changed(p, "upsert", proc[p].doc, [proc[p].todo EXCEPT ![i] = 0], FALSE, proc[p].path)
        PROVE  NoPublish' /\ Copying' /\ proc'[Worker].pc = "upsert"
    <2>1. /\ proc'[Worker].pc = "upsert" /\ proc'[Worker].op = proc[Worker].op
          /\ proc'[Worker].todo = [proc[Worker].todo EXCEPT ![i] = 0]
          /\ \A q \in Procs : q # Worker => proc'[q] = proc[q]
      BY <1>0, <1>1, <1>2, <1>4 DEF Changed
    <2>2. proc[Worker].todo \in [Ix -> Versions \cup {0}]
      BY <1>0 DEF Locals
    <2> QED
      BY <1>2, <2>1, <2>2 DEF Fresh, NoPublish, Copying, At
  <1>5. CASE \E i \in Ix : /\ proc[p].todo[i] # 0
                          /\ mirror' = [mirror EXCEPT ![proc[p].doc][i] = proc[p].todo[i]]
                          /\ Changed(p, "upsert", proc[p].doc, [proc[p].todo EXCEPT ![i] = 0], proc[p].clean, proc[p].path)
    <2>1. NeverStale'
      BY <1>0, <1>1, <1>2, <1>5 DEF Fresh, NeverStale, Copying, At
    <2> QED
      BY <1>4, <1>5, <2>1 DEF Fresh, Rewriting, At
  <1>6. CASE \E i \in Ix : /\ proc[p].todo[i] # 0 /\ UNCHANGED mirror
                          /\ Changed(p, "upsert", proc[p].doc, [proc[p].todo EXCEPT ![i] = 0], FALSE, proc[p].path)
    <2>1. NeverStale'
      BY <1>2, <1>6 DEF Fresh, NeverStale
    <2> QED
      BY <1>4, <1>6, <2>1 DEF Fresh, Rewriting, At
  <1> QED
    BY <1>0, <1>1, <1>3, <1>5, <1>6, UpsertAfter DEF Fresh, NoPublish

LEMMA ClaimFresh ==
    ASSUME Base, Base', Fresh, NoInline, Claim
    PROVE  Fresh'
  <1>0. /\ Worker \in Procs /\ Threads \subseteq Procs /\ Worker \notin Threads /\ Worker \in Procs
        /\ proc \in [Procs -> Locals] /\ proc' \in [Procs -> Locals]
        /\ mirror \in [Docs -> [Ix -> Versions \cup {0}]] /\ personal \in [Ix -> Versions \cup {0}]
    BY DEF Base, Manned, Stored, Procs
  <1>1. Shrinking
    BY <1>0 DEF Claim, content, Shrinking
  <1>2. NoPublish' /\ proc'[Worker].pc \notin {"write", "upsert"}
    BY <1>0, ClaimDoes DEF Fresh, NoPublish, Put
  <1> QED
    BY <1>1, <1>2, FreshFrame

LEMMA RequestFresh ==
    ASSUME Base, Base', Fresh, NoInline, NEW t \in Threads, 
           \/ \E k \in {"share", "unshare"} : RequestToggle(t, k)
           \/ RequestPublish(t) \/ RequestUnpublish(t)
           \/ \E d \in Docs : RequestAdmin(t, d) \/ RequestPurge(t, d)
    PROVE  Fresh'
  <1>0. /\ Worker \in Procs /\ Threads \subseteq Procs /\ Worker \notin Threads /\ t \in Procs
        /\ proc \in [Procs -> Locals] /\ proc' \in [Procs -> Locals]
        /\ mirror \in [Docs -> [Ix -> Versions \cup {0}]] /\ personal \in [Ix -> Versions \cup {0}]
    BY DEF Base, Manned, Stored, Procs
  <1>1. Shrinking
    BY <1>0, RequestDoes DEF Shrinking, content
  <1>2. NoPublish' /\ proc'[Worker] = proc[Worker]
    BY <1>0, RequestDoes DEF Fresh, NoPublish, Put, NoInline
  <1> QED
    BY <1>1, <1>2, FreshFrame

LEMMA OtherFresh ==
    ASSUME Base, Base', Fresh, NoInline, 
           \/ RequestIngest \/ Crash
           \/ \E t \in Threads : EnqueueToggle(t)
           \/ \E j \in DOMAIN jobs : BackoffElapses(j)
           \/ UNCHANGED vars
    PROVE  Fresh'
  <1>0. /\ Worker \in Procs /\ Threads \subseteq Procs /\ Worker \notin Threads /\ Worker \in Procs
        /\ proc \in [Procs -> Locals] /\ proc' \in [Procs -> Locals]
        /\ mirror \in [Docs -> [Ix -> Versions \cup {0}]] /\ personal \in [Ix -> Versions \cup {0}]
    BY DEF Base, Manned, Stored, Procs
  <1>1. Shrinking
    BY <1>0 DEF Shrinking, content, RequestIngest, Crash, EnqueueToggle, BackoffElapses, vars
  <1>2. NoPublish' /\ (proc'[Worker] = proc[Worker] \/ proc'[Worker].pc = "idle")
    BY <1>0, IdleIs DEF Fresh, NoPublish, RequestIngest, Crash, EnqueueToggle, BackoffElapses, vars
  <1> QED
    BY <1>1, <1>2, FreshFrame

LEMMA NextFresh ==
    ASSUME Base, Base', Fresh, NoInline, [Next]_vars
    PROVE  Fresh'
  <1>1. ASSUME NEW t \in Threads, ThreadStep(t) PROVE Fresh'
    <2>1. CASE EnqueueToggle(t)
      BY <2>1, OtherFresh
    <2> QED
      BY <1>1, <2>1, RemoveFresh, CheckPathFresh, SweepFresh, StampFresh, VerifyFresh DEF ThreadStep
  <1>2. ASSUME WorkerStep PROVE Fresh'
    BY <1>2, ClaimFresh, CompleteFresh, ReadSourceFresh, RecheckFresh, HashFresh, WipeFresh, WriteFresh,
       IndexFresh, LookFresh DEF WorkerStep
  <1>3. ASSUME NEW p \in Procs, CommonStep(p) PROVE Fresh'
    <2>1. CASE Raise(p) \/ ForeignKeyFails(p)
      BY <2>1, AbortsFresh DEF Raise, ForeignKeyFails
    <2> QED
      BY <1>3, <2>1, AcquireFresh, UnlockFresh, InsertSharedFresh, DeleteSharedFresh, ClearFresh, ScrollFresh,
         UpsertFresh DEF CommonStep
  <1>4. ASSUME NEW t \in Threads,
               \/ \E k \in {"share", "unshare"} : RequestToggle(t, k)
               \/ RequestPublish(t) \/ RequestUnpublish(t)
               \/ \E d \in Docs : RequestAdmin(t, d) \/ RequestPurge(t, d)
        PROVE  Fresh'
    BY <1>4, RequestFresh
  <1> QED
    BY <1>1, <1>2, <1>3, <1>4, OtherFresh DEF Next

\* Without the inline publish routes members never see a chunk of a version
\* other than the owner's, whatever fails or crashes and even when the lock
\* cannot be taken: re-ingest deletes every copy before it writes, and only
\* the worker copies.
THEOREM NeverStaleChunks == ASSUME NoInline PROVE Spec => []NeverStale
  <1>1. Init => Fresh
    BY IdleIs, WholeIs DEF Init, Fresh, NoPublish, Copying, Rewriting, NeverStale, At, Procs
  <1>2. Base /\ Base' /\ Fresh /\ [Next]_vars => Fresh'
    BY NextFresh
  <1>3. Fresh => NeverStale
    BY DEF Fresh
  <1> QED
    BY BaseHolds, <1>1, <1>2, <1>3, PTL DEF Spec

-----------------------------------------------------------------------------
(***************************************************************************)
(* With the lock: purged content does not come back. Whoever is past the    *)
(* lock holds it, so that a purge and a projection of one document take     *)
(* turns. A share has looked at the row under the lock; a re-projection has *)
(* not, but when its document has been purged since, the purge has taken    *)
(* the owner's chunks too and there is nothing left to copy.                *)
(***************************************************************************)
Locked  == NoInline /\ "lock" \notin FaultAt
LockOps == {"share", "unshare", "ingest", "purge", "repurge"}
InLock  == {"recheck", "insert", "delete", "clear", "scroll", "upsert", "unlock", "remove", "check",
            "sweep", "stamp"}
HasIt(p) == proc[p].op \in LockOps /\ proc[p].pc \in InLock => lock[proc[p].doc] = p
Held == \A p \in Procs : HasIt(p)

Reproj  == proc[Worker].op = "ingest" /\ proc[Worker].pc \in {"lock", "clear", "scroll", "upsert"}
Sharing == proc[Worker].op = "share" /\ proc[Worker].pc \in {"insert", "clear", "scroll", "upsert"}

\* The row is that of the document, unless it is gone.
SameRow == /\ Reproj => row.id \in {proc[Worker].doc, NoDoc}
           /\ Sharing => row.id = proc[Worker].doc

Purges(t, s) == proc[t].op \in {"purge", "repurge"} /\ proc[t].pc = s

\* The purge takes the path of a document that is being re-projected, and has
\* nothing left of it when all its arms went well.
Swept == \A t \in Threads : Purges(t, "sweep") /\ Reproj /\ proc[t].doc = proc[Worker].doc => proc[t].path
Wiped == \A t \in Threads : Purges(t, "stamp") /\ proc[t].clean
                              => \A i \in Ix : mirror[proc[t].doc][i] = 0

Closing(t) == (Purges(t, "clear") \/ Purges(t, "stamp")) /\ proc[t].clean
Gone(d) == tomb[d] = "resolved" \/ \E t \in Threads : Closing(t) /\ proc[t].doc = d
Emptied == Reproj /\ Gone(proc[Worker].doc)
             => \A i \in Ix : IF proc[Worker].pc = "upsert" THEN proc[Worker].todo[i] = 0 ELSE personal[i] = 0

Unmirrored == \A d \in Docs : tomb[d] = "resolved" => \A i \in Ix : mirror[d][i] = 0

Sealed == Held /\ SameRow /\ Swept /\ Wiped /\ Emptied /\ Unmirrored

\* What leaves each of them as it was.
Others(p) == \A q \in Procs : q # p => proc'[q] = proc[q]

LEMMA HeldFrame ==
    ASSUME Base, Held, NEW p \in Procs, Others(p), HasIt(p)',
           \A d \in Docs : lock'[d] = lock[d] \/ lock[d] \in {Free, p}
    PROVE  Held'
  <1> SUFFICES ASSUME NEW q \in Procs, q # p PROVE HasIt(q)'
    BY DEF Held
  <1>1. proc[q].op \in LockOps /\ proc[q].pc \in InLock => proc[q].doc \in Docs
    BY DEF Base, Manned, Fits, Legal, LockOps, InLock
  <1> QED
    BY <1>1 DEF Held, HasIt, Others

KeepsReproj  == Reproj' => Reproj /\ proc'[Worker].doc = proc[Worker].doc
KeepsSharing == Sharing' => Sharing /\ proc'[Worker].doc = proc[Worker].doc
LEMMA SameRowFrame == ASSUME SameRow, row' = row, KeepsReproj, KeepsSharing PROVE SameRow'
  BY DEF SameRow, KeepsReproj, KeepsSharing

KeepsSweep == \A t \in Threads : Purges(t, "sweep")' => /\ Purges(t, "sweep") /\ proc'[t].doc = proc[t].doc
                                                         /\ proc'[t].path = proc[t].path
LEMMA SweptFrame == ASSUME Swept, KeepsReproj, KeepsSweep PROVE Swept'
  BY DEF Swept, KeepsReproj, KeepsSweep

KeepsStamp == \A t \in Threads : Purges(t, "stamp")' /\ proc'[t].clean
                                   => Purges(t, "stamp") /\ proc[t].clean /\ proc'[t].doc = proc[t].doc
LEMMA WipedFrame ==
    ASSUME Base, Wiped, Shrinking, KeepsStamp
    PROVE  Wiped'
  <1>1. \A t \in Threads : Purges(t, "stamp") => proc[t].doc \in Docs
    BY DEF Base, Manned, Fits, Purges, Procs
  <1> QED
    BY <1>1 DEF Wiped, Shrinking, KeepsStamp

KeepsClosing == \A t \in Threads : Closing(t)' => Closing(t) /\ proc'[t].doc = proc[t].doc
KeepsTodo == Reproj' => /\ proc'[Worker].pc = "upsert" <=> proc[Worker].pc = "upsert"
                        /\ proc'[Worker].pc = "upsert"
                             => \A i \in Ix : proc'[Worker].todo[i] \in {0, proc[Worker].todo[i]}
LEMMA EmptiedFrame ==
    ASSUME Emptied, Shrinking, KeepsReproj, KeepsTodo, KeepsClosing,
           \A d \in Docs : tomb'[d] = "resolved" => Gone(d),
           Reproj => proc[Worker].doc \in Docs
    PROVE  Emptied'
  <1> SUFFICES ASSUME Reproj', Gone(proc[Worker].doc)'
               PROVE  (\A i \in Ix : IF proc[Worker].pc = "upsert" THEN proc[Worker].todo[i] = 0 ELSE personal[i] = 0)'
    BY DEF Emptied
  <1>1. Reproj /\ proc'[Worker].doc = proc[Worker].doc /\ proc[Worker].doc \in Docs
    BY DEF KeepsReproj
  <1>2. Gone(proc[Worker].doc)
    BY <1>1 DEF Gone, KeepsClosing
  <1> QED
    BY <1>1, <1>2 DEF Emptied, Shrinking, KeepsTodo

LEMMA UnmirroredFrame ==
    ASSUME Unmirrored, Shrinking, \A d \in Docs : tomb'[d] = "resolved" => tomb[d] = "resolved"
    PROVE  Unmirrored'
  BY DEF Unmirrored, Shrinking

LEMMA RemoveSealed ==
    ASSUME Base, Base', Fresh, Sealed, Locked, NEW t \in Threads, Remove(t)
    PROVE  Sealed'
  <1> USE DEF Sealed
  <1>0. /\ Worker \in Procs /\ Threads \subseteq Procs /\ Worker \notin Threads /\ t \in Procs
        /\ proc \in [Procs -> Locals] /\ lock \in [Docs -> Procs \cup {Free}]
        /\ mirror \in [Docs -> [Ix -> Versions \cup {0}]] /\ personal \in [Ix -> Versions \cup {0}]
        /\ tomb \in [Docs -> {"none", "partial", "resolved"}] /\ row.id \in Docs \cup {NoDoc}
    BY DEF Base, Manned, Stored, Procs
  <1>f. Fits(t, proc[t], born, tomb, wanted) /\ Fits(Worker, proc[Worker], born, tomb, wanted)
    BY <1>0 DEF Base, Manned
  <1>a. KeepsReproj
    BY <1>0, RemoveAfter, IdleIs DEF Keeps, Changed, Ends, KeepsReproj, Reproj
  <1>b. KeepsSharing
    BY <1>0, RemoveAfter, IdleIs DEF Keeps, Changed, Ends, KeepsSharing, Sharing
  <1>c. KeepsSweep
    BY <1>0, RemoveAfter, IdleIs DEF Keeps, Changed, Ends, KeepsSweep, Purges
  <1>d. KeepsStamp
    BY <1>0, RemoveAfter, IdleIs DEF Keeps, Changed, Ends, KeepsStamp, Purges
  <1>e. KeepsClosing
    BY <1>0, RemoveAfter, IdleIs DEF Keeps, Changed, Ends, KeepsClosing, Closing, Purges
  <1>g. Shrinking
    BY <1>0, IdleIs DEF Remove, content, Shrinking
  <1>h. HasIt(t)'
    BY ZenonT(60), <1>0, <1>f, RemoveAfter, IdleIs DEF Remove, content, Keeps, Changed, Ends, At, Fits, HasIt,
       Held, LockOps, InLock
  <1>i. Others(t)
    BY <1>0, RemoveAfter DEF Keeps, Changed, Ends, Others
  <1>j. \A d \in Docs : lock'[d] = lock[d] \/ lock[d] \in {Free, t}
    BY <1>0 DEF Remove, content, Locked, CanLock
  <1>k. KeepsTodo
    BY <1>0, RemoveAfter, IdleIs DEF Keeps, Changed, Ends, KeepsTodo, Reproj
  <1>l. Reproj => proc[Worker].doc \in Docs
    BY <1>f DEF Fits, Reproj
  <1>n. \A d \in Docs : tomb'[d] = "resolved" => tomb[d] = "resolved"
    BY <1>0 DEF Remove, content
  <1>1. Held'
    BY <1>0, <1>h, <1>i, <1>j, HeldFrame
  <1>2. SameRow'
    <2>1. proc'[Worker] = proc[Worker]
      BY <1>0, <1>i DEF Others
    <2>2. proc[t].doc \in Docs /\ lock[proc[t].doc] = t
      BY <1>0, <1>f, RemoveAfter DEF Fits, Held, HasIt, LockOps, InLock
    <2>3. Sharing => proc[Worker].doc # proc[t].doc
      BY <1>0, <2>2 DEF Held, HasIt, LockOps, InLock, Sharing
    <2>4. row'.id \in {row.id, NoDoc} /\ (row.id # proc[t].doc => row' = row)
      BY DEF Remove
    <2> QED
      BY <2>1, <2>3, <2>4 DEF SameRow, Reproj, Sharing
  <1>3. Swept'
    BY <1>a, <1>c, SweptFrame
  <1>4. Wiped'
    BY <1>d, <1>g, WipedFrame
  <1>5. Emptied'
    BY <1>a, <1>e, <1>g, <1>k, <1>l, <1>n, EmptiedFrame DEF Gone
  <1>6. Unmirrored'
    BY <1>g, <1>n, UnmirroredFrame
  <1> QED
    BY <1>1, <1>2, <1>3, <1>4, <1>5, <1>6

LEMMA CheckPathSealed ==
    ASSUME Base, Base', Fresh, Sealed, Locked, NEW t \in Threads, CheckPath(t)
    PROVE  Sealed'
  <1> USE DEF Sealed
  <1>0. /\ Worker \in Procs /\ Threads \subseteq Procs /\ Worker \notin Threads /\ t \in Procs
        /\ proc \in [Procs -> Locals] /\ lock \in [Docs -> Procs \cup {Free}]
        /\ mirror \in [Docs -> [Ix -> Versions \cup {0}]] /\ personal \in [Ix -> Versions \cup {0}]
        /\ tomb \in [Docs -> {"none", "partial", "resolved"}] /\ row.id \in Docs \cup {NoDoc}
    BY DEF Base, Manned, Stored, Procs
  <1>f. Fits(t, proc[t], born, tomb, wanted) /\ Fits(Worker, proc[Worker], born, tomb, wanted)
    BY <1>0 DEF Base, Manned
  <1>a. KeepsReproj
    BY <1>0, CheckPathAfter, IdleIs DEF Keeps, Changed, Ends, KeepsReproj, Reproj
  <1>b. KeepsSharing
    BY <1>0, CheckPathAfter, IdleIs DEF Keeps, Changed, Ends, KeepsSharing, Sharing
  <1>d. KeepsStamp
    BY <1>0, CheckPathAfter, IdleIs DEF Keeps, Changed, Ends, KeepsStamp, Purges
  <1>e. KeepsClosing
    BY <1>0, CheckPathAfter, IdleIs DEF Keeps, Changed, Ends, KeepsClosing, Closing, Purges
  <1>g. Shrinking
    BY <1>0, IdleIs DEF CheckPath, content, Shrinking
  <1>h. HasIt(t)'
    BY <1>0, <1>f, CheckPathAfter, IdleIs DEF CheckPath, content, Keeps, Changed, Ends, At, Fits, HasIt, Held,
       LockOps, InLock
  <1>i. Others(t)
    BY <1>0, CheckPathAfter DEF Keeps, Changed, Ends, Others
  <1>j. \A d \in Docs : lock'[d] = lock[d] \/ lock[d] \in {Free, t}
    BY <1>0 DEF CheckPath, content, Locked, CanLock
  <1>k. KeepsTodo
    BY <1>0, CheckPathAfter, IdleIs DEF Keeps, Changed, Ends, KeepsTodo, Reproj
  <1>l. Reproj => proc[Worker].doc \in Docs
    BY <1>f DEF Fits, Reproj
  <1>m. row' = row
    BY DEF CheckPath, content
  <1>n. \A d \in Docs : tomb'[d] = "resolved" => tomb[d] = "resolved"
    BY <1>0 DEF CheckPath, content
  <1>1. Held'
    BY <1>0, <1>h, <1>i, <1>j, HeldFrame
  <1>2. SameRow'
    BY <1>a, <1>b, <1>m, SameRowFrame
  <1>3. Swept'
    <2>1. Others(t) /\ proc'[t].doc = proc[t].doc /\ proc'[t].path = (row.id \in {NoDoc, proc[t].doc})
      BY CheckPathAfter DEF Changed, Others
    <2>2. proc'[Worker] = proc[Worker]
      BY <1>0, <2>1 DEF Others
    <2>3. Reproj /\ proc[t].doc = proc[Worker].doc => proc'[t].path
      BY <2>1 DEF SameRow
    <2>4. \A q \in Threads : q # t => proc'[q] = proc[q]
      BY <1>0, <2>1 DEF Others
    <2> QED
      BY <2>1, <2>2, <2>3, <2>4 DEF Swept, Reproj, Purges
  <1>4. Wiped'
    BY <1>d, <1>g, WipedFrame
  <1>5. Emptied'
    BY <1>a, <1>e, <1>g, <1>k, <1>l, <1>n, EmptiedFrame DEF Gone
  <1>6. Unmirrored'
    BY <1>g, <1>n, UnmirroredFrame
  <1> QED
    BY <1>1, <1>2, <1>3, <1>4, <1>5, <1>6

LEMMA SweepSealed ==
    ASSUME Base, Base', Fresh, Sealed, Locked, NEW t \in Threads, Sweep(t)
    PROVE  Sealed'
  <1> USE DEF Sealed
  <1>0. /\ Worker \in Procs /\ Threads \subseteq Procs /\ Worker \notin Threads /\ t \in Procs
        /\ proc \in [Procs -> Locals] /\ lock \in [Docs -> Procs \cup {Free}]
        /\ mirror \in [Docs -> [Ix -> Versions \cup {0}]] /\ personal \in [Ix -> Versions \cup {0}]
        /\ tomb \in [Docs -> {"none", "partial", "resolved"}] /\ row.id \in Docs \cup {NoDoc}
    BY DEF Base, Manned, Stored, Procs
  <1>f. Fits(t, proc[t], born, tomb, wanted) /\ Fits(Worker, proc[Worker], born, tomb, wanted)
    BY <1>0 DEF Base, Manned
  <1>a. KeepsReproj
    BY <1>0, SweepAfter, IdleIs DEF Keeps, Changed, Ends, KeepsReproj, Reproj
  <1>b. KeepsSharing
    BY <1>0, SweepAfter, IdleIs DEF Keeps, Changed, Ends, KeepsSharing, Sharing
  <1>c. KeepsSweep
    BY <1>0, SweepAfter, IdleIs DEF Keeps, Changed, Ends, KeepsSweep, Purges
  <1>d. KeepsStamp
    BY <1>0, SweepAfter, IdleIs DEF Keeps, Changed, Ends, KeepsStamp, Purges
  <1>g. Shrinking
    BY <1>0, IdleIs DEF Sweep, content, WipePath, Shrinking
  <1>h. HasIt(t)'
    BY <1>0, <1>f, SweepAfter, IdleIs DEF Sweep, content, WipePath, Keeps, Changed, Ends, At, Fits, HasIt,
       Held, LockOps, InLock
  <1>i. Others(t)
    BY <1>0, SweepAfter DEF Keeps, Changed, Ends, Others
  <1>j. \A d \in Docs : lock'[d] = lock[d] \/ lock[d] \in {Free, t}
    BY <1>0 DEF Sweep, content, WipePath, Locked, CanLock
  <1>k. KeepsTodo
    BY <1>0, SweepAfter, IdleIs DEF Keeps, Changed, Ends, KeepsTodo, Reproj
  <1>l. Reproj => proc[Worker].doc \in Docs
    BY <1>f DEF Fits, Reproj
  <1>m. row' = row
    BY DEF Sweep, content, WipePath
  <1>n. \A d \in Docs : tomb'[d] = "resolved" => tomb[d] = "resolved"
    BY <1>0 DEF Sweep, content, WipePath
  <1>1. Held'
    BY <1>0, <1>h, <1>i, <1>j, HeldFrame
  <1>2. SameRow'
    BY <1>a, <1>b, <1>m, SameRowFrame
  <1>3. Swept'
    BY <1>a, <1>c, SweptFrame
  <1>4. Wiped'
    BY <1>d, <1>g, WipedFrame
  <1>5. Emptied'
    <2>1. proc'[Worker] = proc[Worker] /\ UNCHANGED tomb
      BY <1>0, <1>i DEF Others, Sweep
    <2>2. CASE Reproj /\ proc[t].doc = proc[Worker].doc
      <3>1. proc[t].path /\ proc[Worker].pc = "lock"
        <4>1. proc[t].doc \in Docs /\ lock[proc[t].doc] = t
          BY <1>0, <1>f, SweepAfter DEF Fits, Held, HasIt, LockOps, InLock
        <4>2. proc[t].path
          BY <2>2, SweepAfter DEF Swept, Purges
        <4> QED
          BY <1>0, <2>2, <4>1, <4>2 DEF Held, HasIt, LockOps, InLock, Reproj
      <3>2. \A i \in Ix : personal'[i] = 0
        BY <3>1, IdleIs DEF Sweep, WipePath
      <3> QED
        BY <2>1, <3>1, <3>2 DEF Emptied
    <2>3. CASE ~(Reproj /\ proc[t].doc = proc[Worker].doc)
      <3>1. \A q \in Threads : Closing(q)' /\ proc'[q].doc = proc[Worker].doc /\ Reproj
                                => Closing(q) /\ proc[q].doc = proc[Worker].doc
        BY <1>0, <1>i, <2>3, SweepAfter DEF Others, Closing, Purges, Keeps, Changed
      <3>2. Reproj /\ Gone(proc[Worker].doc)' => Gone(proc[Worker].doc)
        BY <2>1, <3>1 DEF Gone
      <3> QED
        BY <1>g, <2>1, <3>2 DEF Emptied, Shrinking, Reproj
    <2> QED
      BY <2>2, <2>3
  <1>6. Unmirrored'
    BY <1>g, <1>n, UnmirroredFrame
  <1> QED
    BY <1>1, <1>2, <1>3, <1>4, <1>5, <1>6

LEMMA StampSealed ==
    ASSUME Base, Base', Fresh, Sealed, Locked, NEW t \in Threads, Stamp(t)
    PROVE  Sealed'
  <1> USE DEF Sealed
  <1>0. /\ Worker \in Procs /\ Threads \subseteq Procs /\ Worker \notin Threads /\ t \in Procs
        /\ proc \in [Procs -> Locals] /\ lock \in [Docs -> Procs \cup {Free}]
        /\ mirror \in [Docs -> [Ix -> Versions \cup {0}]] /\ personal \in [Ix -> Versions \cup {0}]
        /\ tomb \in [Docs -> {"none", "partial", "resolved"}] /\ row.id \in Docs \cup {NoDoc}
    BY DEF Base, Manned, Stored, Procs
  <1>f. Fits(t, proc[t], born, tomb, wanted) /\ Fits(Worker, proc[Worker], born, tomb, wanted)
    BY <1>0 DEF Base, Manned
  <1>a. KeepsReproj
    BY <1>0, StampAfter, IdleIs DEF Keeps, Changed, Ends, KeepsReproj, Reproj
  <1>b. KeepsSharing
    BY <1>0, StampAfter, IdleIs DEF Keeps, Changed, Ends, KeepsSharing, Sharing
  <1>c. KeepsSweep
    BY <1>0, StampAfter, IdleIs DEF Keeps, Changed, Ends, KeepsSweep, Purges
  <1>d. KeepsStamp
    BY <1>0, StampAfter, IdleIs DEF Keeps, Changed, Ends, KeepsStamp, Purges
  <1>e. KeepsClosing
    BY <1>0, StampAfter, IdleIs DEF Keeps, Changed, Ends, KeepsClosing, Closing, Purges
  <1>g. Shrinking
    BY <1>0, IdleIs DEF Stamp, content, Shrinking
  <1>h. HasIt(t)'
    BY ZenonT(60), <1>0, <1>f, StampAfter, IdleIs DEF Stamp, content, Keeps, Changed, Ends, At, Fits, HasIt,
       Held, LockOps, InLock
  <1>i. Others(t)
    BY <1>0, StampAfter DEF Keeps, Changed, Ends, Others
  <1>j. \A d \in Docs : lock'[d] = lock[d] \/ lock[d] \in {Free, t}
    BY <1>0 DEF Stamp, content, Locked, CanLock
  <1>k. KeepsTodo
    BY <1>0, StampAfter, IdleIs DEF Keeps, Changed, Ends, KeepsTodo, Reproj
  <1>l. Reproj => proc[Worker].doc \in Docs
    BY <1>f DEF Fits, Reproj
  <1>m. row' = row
    BY DEF Stamp, content
  <1>n. \A d \in Docs : tomb'[d] = "resolved" => tomb[d] = "resolved" \/ (d = proc[t].doc /\ proc[t].clean)
    BY <1>0 DEF Stamp
  <1>1. Held'
    BY <1>0, <1>h, <1>i, <1>j, HeldFrame
  <1>2. SameRow'
    BY <1>a, <1>b, <1>m, SameRowFrame
  <1>3. Swept'
    BY <1>a, <1>c, SweptFrame
  <1>4. Wiped'
    BY <1>d, <1>g, WipedFrame
  <1>5. Emptied'
    <2>1. \A d \in Docs : tomb'[d] = "resolved" => Gone(d)
      BY <1>n, StampAfter DEF Gone, Closing, Purges
    <2> QED
      BY <1>a, <1>e, <1>g, <1>k, <1>l, <2>1, EmptiedFrame
  <1>6. Unmirrored'
    <2>1. proc[t].clean => \A i \in Ix : mirror[proc[t].doc][i] = 0
      BY StampAfter DEF Wiped, Purges
    <2> QED
      BY <1>n, <2>1 DEF Unmirrored, Stamp
  <1> QED
    BY <1>1, <1>2, <1>3, <1>4, <1>5, <1>6

LEMMA VerifySealed ==
    ASSUME Base, Base', Fresh, Sealed, Locked, NEW t \in Threads, Verify(t)
    PROVE  Sealed'
  <1> USE DEF Sealed
  <1>0. /\ Worker \in Procs /\ Threads \subseteq Procs /\ Worker \notin Threads /\ t \in Procs
        /\ proc \in [Procs -> Locals] /\ lock \in [Docs -> Procs \cup {Free}]
        /\ mirror \in [Docs -> [Ix -> Versions \cup {0}]] /\ personal \in [Ix -> Versions \cup {0}]
        /\ tomb \in [Docs -> {"none", "partial", "resolved"}] /\ row.id \in Docs \cup {NoDoc}
    BY DEF Base, Manned, Stored, Procs
  <1>f. Fits(t, proc[t], born, tomb, wanted) /\ Fits(Worker, proc[Worker], born, tomb, wanted)
    BY <1>0 DEF Base, Manned
  <1>a. KeepsReproj
    BY <1>0, VerifyAfter, IdleIs DEF Keeps, Changed, Ends, KeepsReproj, Reproj
  <1>b. KeepsSharing
    BY <1>0, VerifyAfter, IdleIs DEF Keeps, Changed, Ends, KeepsSharing, Sharing
  <1>c. KeepsSweep
    BY <1>0, VerifyAfter, IdleIs DEF Keeps, Changed, Ends, KeepsSweep, Purges
  <1>d. KeepsStamp
    BY <1>0, VerifyAfter, IdleIs DEF Keeps, Changed, Ends, KeepsStamp, Purges
  <1>e. KeepsClosing
    BY <1>0, VerifyAfter, IdleIs DEF Keeps, Changed, Ends, KeepsClosing, Closing, Purges
  <1>g. Shrinking
    BY <1>0, IdleIs DEF Verify, content, Shrinking
  <1>h. HasIt(t)'
    BY <1>0, <1>f, VerifyAfter, IdleIs DEF Verify, content, Keeps, Changed, Ends, At, Fits, HasIt, Held,
       LockOps, InLock
  <1>i. Others(t)
    BY <1>0, VerifyAfter DEF Keeps, Changed, Ends, Others
  <1>j. \A d \in Docs : lock'[d] = lock[d] \/ lock[d] \in {Free, t}
    BY <1>0 DEF Verify, content, Locked, CanLock
  <1>k. KeepsTodo
    BY <1>0, VerifyAfter, IdleIs DEF Keeps, Changed, Ends, KeepsTodo, Reproj
  <1>l. Reproj => proc[Worker].doc \in Docs
    BY <1>f DEF Fits, Reproj
  <1>m. row' = row
    BY DEF Verify, content
  <1>n. \A d \in Docs : tomb'[d] = "resolved" => tomb[d] = "resolved"
    BY <1>0 DEF Verify, content
  <1>1. Held'
    BY <1>0, <1>h, <1>i, <1>j, HeldFrame
  <1>2. SameRow'
    BY <1>a, <1>b, <1>m, SameRowFrame
  <1>3. Swept'
    BY <1>a, <1>c, SweptFrame
  <1>4. Wiped'
    BY <1>d, <1>g, WipedFrame
  <1>5. Emptied'
    BY <1>a, <1>e, <1>g, <1>k, <1>l, <1>n, EmptiedFrame DEF Gone
  <1>6. Unmirrored'
    BY <1>g, <1>n, UnmirroredFrame
  <1> QED
    BY <1>1, <1>2, <1>3, <1>4, <1>5, <1>6

LEMMA CompleteSealed ==
    ASSUME Base, Base', Fresh, Sealed, Locked, Complete
    PROVE  Sealed'
  <1> USE DEF Sealed
  <1>0. /\ Worker \in Procs /\ Threads \subseteq Procs /\ Worker \notin Threads /\ Worker \in Procs
        /\ proc \in [Procs -> Locals] /\ lock \in [Docs -> Procs \cup {Free}]
        /\ mirror \in [Docs -> [Ix -> Versions \cup {0}]] /\ personal \in [Ix -> Versions \cup {0}]
        /\ tomb \in [Docs -> {"none", "partial", "resolved"}] /\ row.id \in Docs \cup {NoDoc}
    BY DEF Base, Manned, Stored, Procs
  <1>f. Fits(Worker, proc[Worker], born, tomb, wanted) /\ Fits(Worker, proc[Worker], born, tomb, wanted)
    BY <1>0 DEF Base, Manned
  <1>a. KeepsReproj
    BY <1>0, CompleteAfter, IdleIs DEF Keeps, Changed, Ends, KeepsReproj, Reproj
  <1>b. KeepsSharing
    BY <1>0, CompleteAfter, IdleIs DEF Keeps, Changed, Ends, KeepsSharing, Sharing
  <1>c. KeepsSweep
    BY <1>0, CompleteAfter, IdleIs DEF Keeps, Changed, Ends, KeepsSweep, Purges
  <1>d. KeepsStamp
    BY <1>0, CompleteAfter, IdleIs DEF Keeps, Changed, Ends, KeepsStamp, Purges
  <1>e. KeepsClosing
    BY <1>0, CompleteAfter, IdleIs DEF Keeps, Changed, Ends, KeepsClosing, Closing, Purges
  <1>g. Shrinking
    BY <1>0, IdleIs DEF Complete, content, Shrinking
  <1>h. HasIt(Worker)'
    BY <1>0, <1>f, CompleteAfter, IdleIs DEF Complete, content, Keeps, Changed, Ends, At, Fits, HasIt, Held,
       LockOps, InLock
  <1>i. Others(Worker)
    BY <1>0, CompleteAfter DEF Keeps, Changed, Ends, Others
  <1>j. \A d \in Docs : lock'[d] = lock[d] \/ lock[d] \in {Free, Worker}
    BY <1>0 DEF Complete, content, Locked, CanLock
  <1>k. KeepsTodo
    BY <1>0, CompleteAfter, IdleIs DEF Keeps, Changed, Ends, KeepsTodo, Reproj
  <1>l. Reproj => proc[Worker].doc \in Docs
    BY <1>f DEF Fits, Reproj
  <1>m. row' = row
    BY DEF Complete, content
  <1>n. \A d \in Docs : tomb'[d] = "resolved" => tomb[d] = "resolved"
    BY <1>0 DEF Complete, content
  <1>1. Held'
    BY <1>0, <1>h, <1>i, <1>j, HeldFrame
  <1>2. SameRow'
    BY <1>a, <1>b, <1>m, SameRowFrame
  <1>3. Swept'
    BY <1>a, <1>c, SweptFrame
  <1>4. Wiped'
    BY <1>d, <1>g, WipedFrame
  <1>5. Emptied'
    BY <1>a, <1>e, <1>g, <1>k, <1>l, <1>n, EmptiedFrame DEF Gone
  <1>6. Unmirrored'
    BY <1>g, <1>n, UnmirroredFrame
  <1> QED
    BY <1>1, <1>2, <1>3, <1>4, <1>5, <1>6

LEMMA ReadSourceSealed ==
    ASSUME Base, Base', Fresh, Sealed, Locked, ReadSource
    PROVE  Sealed'
  <1> USE DEF Sealed
  <1>0. /\ Worker \in Procs /\ Threads \subseteq Procs /\ Worker \notin Threads /\ Worker \in Procs
        /\ proc \in [Procs -> Locals] /\ lock \in [Docs -> Procs \cup {Free}]
        /\ mirror \in [Docs -> [Ix -> Versions \cup {0}]] /\ personal \in [Ix -> Versions \cup {0}]
        /\ tomb \in [Docs -> {"none", "partial", "resolved"}] /\ row.id \in Docs \cup {NoDoc}
    BY DEF Base, Manned, Stored, Procs
  <1>f. Fits(Worker, proc[Worker], born, tomb, wanted) /\ Fits(Worker, proc[Worker], born, tomb, wanted)
    BY <1>0 DEF Base, Manned
  <1>a. KeepsReproj
    BY <1>0, ReadSourceAfter, IdleIs DEF Keeps, Changed, Ends, KeepsReproj, Reproj
  <1>b. KeepsSharing
    BY <1>0, ReadSourceAfter, IdleIs DEF Keeps, Changed, Ends, KeepsSharing, Sharing
  <1>c. KeepsSweep
    BY <1>0, ReadSourceAfter, IdleIs DEF Keeps, Changed, Ends, KeepsSweep, Purges
  <1>d. KeepsStamp
    BY <1>0, ReadSourceAfter, IdleIs DEF Keeps, Changed, Ends, KeepsStamp, Purges
  <1>e. KeepsClosing
    BY <1>0, ReadSourceAfter, IdleIs DEF Keeps, Changed, Ends, KeepsClosing, Closing, Purges
  <1>g. Shrinking
    BY <1>0, IdleIs DEF ReadSource, content, Shrinking
  <1>h. HasIt(Worker)'
    BY <1>0, <1>f, ReadSourceAfter, IdleIs DEF ReadSource, content, Keeps, Changed, Ends, At, Fits, HasIt,
       Held, LockOps, InLock
  <1>i. Others(Worker)
    BY <1>0, ReadSourceAfter DEF Keeps, Changed, Ends, Others
  <1>j. \A d \in Docs : lock'[d] = lock[d] \/ lock[d] \in {Free, Worker}
    BY <1>0 DEF ReadSource, content, Locked, CanLock
  <1>k. KeepsTodo
    BY <1>0, ReadSourceAfter, IdleIs DEF Keeps, Changed, Ends, KeepsTodo, Reproj
  <1>l. Reproj => proc[Worker].doc \in Docs
    BY <1>f DEF Fits, Reproj
  <1>m. row' = row
    BY DEF ReadSource, content
  <1>n. \A d \in Docs : tomb'[d] = "resolved" => tomb[d] = "resolved"
    BY <1>0 DEF ReadSource, content
  <1>1. Held'
    BY <1>0, <1>h, <1>i, <1>j, HeldFrame
  <1>2. SameRow'
    BY <1>a, <1>b, <1>m, SameRowFrame
  <1>3. Swept'
    BY <1>a, <1>c, SweptFrame
  <1>4. Wiped'
    BY <1>d, <1>g, WipedFrame
  <1>5. Emptied'
    BY <1>a, <1>e, <1>g, <1>k, <1>l, <1>n, EmptiedFrame DEF Gone
  <1>6. Unmirrored'
    BY <1>g, <1>n, UnmirroredFrame
  <1> QED
    BY <1>1, <1>2, <1>3, <1>4, <1>5, <1>6

LEMMA RecheckSealed ==
    ASSUME Base, Base', Fresh, Sealed, Locked, Recheck
    PROVE  Sealed'
  <1> USE DEF Sealed
  <1>0. /\ Worker \in Procs /\ Threads \subseteq Procs /\ Worker \notin Threads /\ Worker \in Procs
        /\ proc \in [Procs -> Locals] /\ lock \in [Docs -> Procs \cup {Free}]
        /\ mirror \in [Docs -> [Ix -> Versions \cup {0}]] /\ personal \in [Ix -> Versions \cup {0}]
        /\ tomb \in [Docs -> {"none", "partial", "resolved"}] /\ row.id \in Docs \cup {NoDoc}
    BY DEF Base, Manned, Stored, Procs
  <1>f. Fits(Worker, proc[Worker], born, tomb, wanted) /\ Fits(Worker, proc[Worker], born, tomb, wanted)
    BY <1>0 DEF Base, Manned
  <1>a. KeepsReproj
    BY <1>0, RecheckAfter, IdleIs DEF Keeps, Changed, Ends, KeepsReproj, Reproj
  <1>c. KeepsSweep
    BY <1>0, RecheckAfter, IdleIs DEF Keeps, Changed, Ends, KeepsSweep, Purges
  <1>d. KeepsStamp
    BY <1>0, RecheckAfter, IdleIs DEF Keeps, Changed, Ends, KeepsStamp, Purges
  <1>e. KeepsClosing
    BY <1>0, RecheckAfter, IdleIs DEF Keeps, Changed, Ends, KeepsClosing, Closing, Purges
  <1>g. Shrinking
    BY <1>0, IdleIs DEF Recheck, content, Shrinking
  <1>h. HasIt(Worker)'
    BY <1>0, <1>f, RecheckAfter, IdleIs DEF Recheck, content, Keeps, Changed, Ends, At, Fits, HasIt, Held,
       LockOps, InLock
  <1>i. Others(Worker)
    BY <1>0, RecheckAfter DEF Keeps, Changed, Ends, Others
  <1>j. \A d \in Docs : lock'[d] = lock[d] \/ lock[d] \in {Free, Worker}
    BY <1>0 DEF Recheck, content, Locked, CanLock
  <1>k. KeepsTodo
    BY <1>0, RecheckAfter, IdleIs DEF Keeps, Changed, Ends, KeepsTodo, Reproj
  <1>l. Reproj => proc[Worker].doc \in Docs
    BY <1>f DEF Fits, Reproj
  <1>m. row' = row
    BY DEF Recheck, content
  <1>n. \A d \in Docs : tomb'[d] = "resolved" => tomb[d] = "resolved"
    BY <1>0 DEF Recheck, content
  <1>1. Held'
    BY <1>0, <1>h, <1>i, <1>j, HeldFrame
  <1>2. SameRow'
    BY <1>0, <1>m, RecheckAfter DEF SameRow, Reproj, Sharing, Keeps, Changed
  <1>3. Swept'
    BY <1>a, <1>c, SweptFrame
  <1>4. Wiped'
    BY <1>d, <1>g, WipedFrame
  <1>5. Emptied'
    BY <1>a, <1>e, <1>g, <1>k, <1>l, <1>n, EmptiedFrame DEF Gone
  <1>6. Unmirrored'
    BY <1>g, <1>n, UnmirroredFrame
  <1> QED
    BY <1>1, <1>2, <1>3, <1>4, <1>5, <1>6

LEMMA HashSealed ==
    ASSUME Base, Base', Fresh, Sealed, Locked, Hash
    PROVE  Sealed'
  <1> USE DEF Sealed
  <1>0. /\ Worker \in Procs /\ Threads \subseteq Procs /\ Worker \notin Threads /\ Worker \in Procs
        /\ proc \in [Procs -> Locals] /\ lock \in [Docs -> Procs \cup {Free}]
        /\ mirror \in [Docs -> [Ix -> Versions \cup {0}]] /\ personal \in [Ix -> Versions \cup {0}]
        /\ tomb \in [Docs -> {"none", "partial", "resolved"}] /\ row.id \in Docs \cup {NoDoc}
    BY DEF Base, Manned, Stored, Procs
  <1>f. Fits(Worker, proc[Worker], born, tomb, wanted) /\ Fits(Worker, proc[Worker], born, tomb, wanted)
    BY <1>0 DEF Base, Manned
  <1>a. KeepsReproj
    BY <1>0, HashAfter, IdleIs DEF Keeps, Changed, Ends, KeepsReproj, Reproj
  <1>b. KeepsSharing
    BY <1>0, HashAfter, IdleIs DEF Keeps, Changed, Ends, KeepsSharing, Sharing
  <1>c. KeepsSweep
    BY <1>0, HashAfter, IdleIs DEF Keeps, Changed, Ends, KeepsSweep, Purges
  <1>d. KeepsStamp
    BY <1>0, HashAfter, IdleIs DEF Keeps, Changed, Ends, KeepsStamp, Purges
  <1>e. KeepsClosing
    BY <1>0, HashAfter, IdleIs DEF Keeps, Changed, Ends, KeepsClosing, Closing, Purges
  <1>g. Shrinking
    BY <1>0, IdleIs DEF Hash, content, Shrinking
  <1>h. HasIt(Worker)'
    BY <1>0, <1>f, HashAfter, IdleIs DEF Hash, content, Keeps, Changed, Ends, At, Fits, HasIt, Held, LockOps,
       InLock
  <1>i. Others(Worker)
    BY <1>0, HashAfter DEF Keeps, Changed, Ends, Others
  <1>j. \A d \in Docs : lock'[d] = lock[d] \/ lock[d] \in {Free, Worker}
    BY <1>0 DEF Hash, content, Locked, CanLock
  <1>k. KeepsTodo
    BY <1>0, HashAfter, IdleIs DEF Keeps, Changed, Ends, KeepsTodo, Reproj
  <1>l. Reproj => proc[Worker].doc \in Docs
    BY <1>f DEF Fits, Reproj
  <1>m. row' = row
    BY DEF Hash, content
  <1>n. \A d \in Docs : tomb'[d] = "resolved" => tomb[d] = "resolved"
    BY <1>0 DEF Hash, content
  <1>1. Held'
    BY <1>0, <1>h, <1>i, <1>j, HeldFrame
  <1>2. SameRow'
    BY <1>a, <1>b, <1>m, SameRowFrame
  <1>3. Swept'
    BY <1>a, <1>c, SweptFrame
  <1>4. Wiped'
    BY <1>d, <1>g, WipedFrame
  <1>5. Emptied'
    BY <1>a, <1>e, <1>g, <1>k, <1>l, <1>n, EmptiedFrame DEF Gone
  <1>6. Unmirrored'
    BY <1>g, <1>n, UnmirroredFrame
  <1> QED
    BY <1>1, <1>2, <1>3, <1>4, <1>5, <1>6

LEMMA WipeSealed ==
    ASSUME Base, Base', Fresh, Sealed, Locked, Wipe
    PROVE  Sealed'
  <1> USE DEF Sealed
  <1>0. /\ Worker \in Procs /\ Threads \subseteq Procs /\ Worker \notin Threads /\ Worker \in Procs
        /\ proc \in [Procs -> Locals] /\ lock \in [Docs -> Procs \cup {Free}]
        /\ mirror \in [Docs -> [Ix -> Versions \cup {0}]] /\ personal \in [Ix -> Versions \cup {0}]
        /\ tomb \in [Docs -> {"none", "partial", "resolved"}] /\ row.id \in Docs \cup {NoDoc}
    BY DEF Base, Manned, Stored, Procs
  <1>f. Fits(Worker, proc[Worker], born, tomb, wanted) /\ Fits(Worker, proc[Worker], born, tomb, wanted)
    BY <1>0 DEF Base, Manned
  <1>a. KeepsReproj
    BY <1>0, WipeAfter, IdleIs DEF Keeps, Changed, Ends, KeepsReproj, Reproj
  <1>b. KeepsSharing
    BY <1>0, WipeAfter, IdleIs DEF Keeps, Changed, Ends, KeepsSharing, Sharing
  <1>c. KeepsSweep
    BY <1>0, WipeAfter, IdleIs DEF Keeps, Changed, Ends, KeepsSweep, Purges
  <1>d. KeepsStamp
    BY <1>0, WipeAfter, IdleIs DEF Keeps, Changed, Ends, KeepsStamp, Purges
  <1>e. KeepsClosing
    BY <1>0, WipeAfter, IdleIs DEF Keeps, Changed, Ends, KeepsClosing, Closing, Purges
  <1>g. Shrinking
    BY <1>0, IdleIs DEF Wipe, content, WipePath, Shrinking
  <1>h. HasIt(Worker)'
    BY <1>0, <1>f, WipeAfter, IdleIs DEF Wipe, content, WipePath, Keeps, Changed, Ends, At, Fits, HasIt, Held,
       LockOps, InLock
  <1>i. Others(Worker)
    BY <1>0, WipeAfter DEF Keeps, Changed, Ends, Others
  <1>j. \A d \in Docs : lock'[d] = lock[d] \/ lock[d] \in {Free, Worker}
    BY <1>0 DEF Wipe, content, WipePath, Locked, CanLock
  <1>l. Reproj => proc[Worker].doc \in Docs
    BY <1>f DEF Fits, Reproj
  <1>m. row' = row
    BY DEF Wipe, content, WipePath
  <1>n. \A d \in Docs : tomb'[d] = "resolved" => tomb[d] = "resolved"
    BY <1>0 DEF Wipe, content, WipePath
  <1>1. Held'
    BY <1>0, <1>h, <1>i, <1>j, HeldFrame
  <1>2. SameRow'
    BY <1>a, <1>b, <1>m, SameRowFrame
  <1>3. Swept'
    BY <1>a, <1>c, SweptFrame
  <1>4. Wiped'
    BY <1>d, <1>g, WipedFrame
  <1>5. Emptied'
    BY WipeAfter DEF Emptied, Reproj, Changed
  <1>6. Unmirrored'
    BY <1>g, <1>n, UnmirroredFrame
  <1> QED
    BY <1>1, <1>2, <1>3, <1>4, <1>5, <1>6

LEMMA WriteSealed ==
    ASSUME Base, Base', Fresh, Sealed, Locked, Write
    PROVE  Sealed'
  <1> USE DEF Sealed
  <1>0. /\ Worker \in Procs /\ Threads \subseteq Procs /\ Worker \notin Threads /\ Worker \in Procs
        /\ proc \in [Procs -> Locals] /\ lock \in [Docs -> Procs \cup {Free}]
        /\ mirror \in [Docs -> [Ix -> Versions \cup {0}]] /\ personal \in [Ix -> Versions \cup {0}]
        /\ tomb \in [Docs -> {"none", "partial", "resolved"}] /\ row.id \in Docs \cup {NoDoc}
    BY DEF Base, Manned, Stored, Procs
  <1>f. Fits(Worker, proc[Worker], born, tomb, wanted) /\ Fits(Worker, proc[Worker], born, tomb, wanted)
    BY <1>0 DEF Base, Manned
  <1>a. KeepsReproj
    BY <1>0, WriteAfter, IdleIs DEF Keeps, Changed, Ends, KeepsReproj, Reproj
  <1>b. KeepsSharing
    BY <1>0, WriteAfter, IdleIs DEF Keeps, Changed, Ends, KeepsSharing, Sharing
  <1>c. KeepsSweep
    BY <1>0, WriteAfter, IdleIs DEF Keeps, Changed, Ends, KeepsSweep, Purges
  <1>d. KeepsStamp
    BY <1>0, WriteAfter, IdleIs DEF Keeps, Changed, Ends, KeepsStamp, Purges
  <1>e. KeepsClosing
    BY <1>0, WriteAfter, IdleIs DEF Keeps, Changed, Ends, KeepsClosing, Closing, Purges
  <1>h. HasIt(Worker)'
    BY <1>0, <1>f, WriteAfter, IdleIs DEF Write, content, Keeps, Changed, Ends, At, Fits, HasIt, Held,
       LockOps, InLock
  <1>i. Others(Worker)
    BY <1>0, WriteAfter DEF Keeps, Changed, Ends, Others
  <1>j. \A d \in Docs : lock'[d] = lock[d] \/ lock[d] \in {Free, Worker}
    BY <1>0 DEF Write, content, Locked, CanLock
  <1>k. KeepsTodo
    BY <1>0, WriteAfter, IdleIs DEF Keeps, Changed, Ends, KeepsTodo, Reproj
  <1>l. Reproj => proc[Worker].doc \in Docs
    BY <1>f DEF Fits, Reproj
  <1>m. row' = row
    BY DEF Write, content
  <1>n. \A d \in Docs : tomb'[d] = "resolved" => tomb[d] = "resolved"
    BY <1>0 DEF Write, content
  <1>1. Held'
    BY <1>0, <1>h, <1>i, <1>j, HeldFrame
  <1>2. SameRow'
    BY <1>a, <1>b, <1>m, SameRowFrame
  <1>3. Swept'
    BY <1>a, <1>c, SweptFrame
  <1>4. Wiped'
    BY <1>d, IdleIs DEF Wiped, Write, KeepsStamp
  <1>5. Emptied'
    BY WriteAfter DEF Emptied, Reproj, Changed, Keeps
  <1>6. Unmirrored'
    BY DEF Unmirrored, Write
  <1> QED
    BY <1>1, <1>2, <1>3, <1>4, <1>5, <1>6

LEMMA IndexSealed ==
    ASSUME Base, Base', Fresh, Sealed, Locked, Index
    PROVE  Sealed'
  <1> USE DEF Sealed
  <1>0. /\ Worker \in Procs /\ Threads \subseteq Procs /\ Worker \notin Threads /\ Worker \in Procs
        /\ proc \in [Procs -> Locals] /\ lock \in [Docs -> Procs \cup {Free}]
        /\ mirror \in [Docs -> [Ix -> Versions \cup {0}]] /\ personal \in [Ix -> Versions \cup {0}]
        /\ tomb \in [Docs -> {"none", "partial", "resolved"}] /\ row.id \in Docs \cup {NoDoc}
    BY DEF Base, Manned, Stored, Procs
  <1>f. Fits(Worker, proc[Worker], born, tomb, wanted) /\ Fits(Worker, proc[Worker], born, tomb, wanted)
    BY <1>0 DEF Base, Manned
  <1>a. KeepsReproj
    BY <1>0, IndexAfter, IdleIs DEF Keeps, Changed, Ends, KeepsReproj, Reproj
  <1>b. KeepsSharing
    BY <1>0, IndexAfter, IdleIs DEF Keeps, Changed, Ends, KeepsSharing, Sharing
  <1>c. KeepsSweep
    BY <1>0, IndexAfter, IdleIs DEF Keeps, Changed, Ends, KeepsSweep, Purges
  <1>d. KeepsStamp
    BY <1>0, IndexAfter, IdleIs DEF Keeps, Changed, Ends, KeepsStamp, Purges
  <1>e. KeepsClosing
    BY <1>0, IndexAfter, IdleIs DEF Keeps, Changed, Ends, KeepsClosing, Closing, Purges
  <1>g. Shrinking
    BY <1>0, IdleIs DEF Index, content, Shrinking
  <1>h. HasIt(Worker)'
    BY <1>0, <1>f, IndexAfter, IdleIs DEF Index, content, Keeps, Changed, Ends, At, Fits, HasIt, Held,
       LockOps, InLock
  <1>i. Others(Worker)
    BY <1>0, IndexAfter DEF Keeps, Changed, Ends, Others
  <1>j. \A d \in Docs : lock'[d] = lock[d] \/ lock[d] \in {Free, Worker}
    BY <1>0 DEF Index, content, Locked, CanLock
  <1>k. KeepsTodo
    BY <1>0, IndexAfter, IdleIs DEF Keeps, Changed, Ends, KeepsTodo, Reproj
  <1>l. Reproj => proc[Worker].doc \in Docs
    BY <1>f DEF Fits, Reproj
  <1>n. \A d \in Docs : tomb'[d] = "resolved" => tomb[d] = "resolved"
    BY <1>0 DEF Index, content
  <1>1. Held'
    BY <1>0, <1>h, <1>i, <1>j, HeldFrame
  <1>2. SameRow'
    BY IndexAfter DEF SameRow, Reproj, Sharing, Keeps, Changed
  <1>3. Swept'
    BY <1>a, <1>c, SweptFrame
  <1>4. Wiped'
    BY <1>d, <1>g, WipedFrame
  <1>5. Emptied'
    BY <1>a, <1>e, <1>g, <1>k, <1>l, <1>n, EmptiedFrame DEF Gone
  <1>6. Unmirrored'
    BY <1>g, <1>n, UnmirroredFrame
  <1> QED
    BY <1>1, <1>2, <1>3, <1>4, <1>5, <1>6

LEMMA LookSealed ==
    ASSUME Base, Base', Fresh, Sealed, Locked, Look
    PROVE  Sealed'
  <1> USE DEF Sealed
  <1>0. /\ Worker \in Procs /\ Threads \subseteq Procs /\ Worker \notin Threads /\ Worker \in Procs
        /\ proc \in [Procs -> Locals] /\ lock \in [Docs -> Procs \cup {Free}]
        /\ mirror \in [Docs -> [Ix -> Versions \cup {0}]] /\ personal \in [Ix -> Versions \cup {0}]
        /\ tomb \in [Docs -> {"none", "partial", "resolved"}] /\ row.id \in Docs \cup {NoDoc}
    BY DEF Base, Manned, Stored, Procs
  <1>f. Fits(Worker, proc[Worker], born, tomb, wanted) /\ Fits(Worker, proc[Worker], born, tomb, wanted)
    BY <1>0 DEF Base, Manned
  <1>b. KeepsSharing
    BY <1>0, LookAfter, IdleIs DEF Keeps, Changed, Ends, KeepsSharing, Sharing
  <1>c. KeepsSweep
    BY <1>0, LookAfter, IdleIs DEF Keeps, Changed, Ends, KeepsSweep, Purges
  <1>d. KeepsStamp
    BY <1>0, LookAfter, IdleIs DEF Keeps, Changed, Ends, KeepsStamp, Purges
  <1>e. KeepsClosing
    BY <1>0, LookAfter, IdleIs DEF Keeps, Changed, Ends, KeepsClosing, Closing, Purges
  <1>g. Shrinking
    BY <1>0, IdleIs DEF Look, content, Shrinking
  <1>h. HasIt(Worker)'
    BY <1>0, <1>f, LookAfter, IdleIs DEF Look, content, Keeps, Changed, Ends, At, Fits, HasIt, Held, LockOps,
       InLock
  <1>i. Others(Worker)
    BY <1>0, LookAfter DEF Keeps, Changed, Ends, Others
  <1>j. \A d \in Docs : lock'[d] = lock[d] \/ lock[d] \in {Free, Worker}
    BY <1>0 DEF Look, content, Locked, CanLock
  <1>l. Reproj => proc[Worker].doc \in Docs
    BY <1>f DEF Fits, Reproj
  <1>m. row' = row
    BY DEF Look, content
  <1>n. \A d \in Docs : tomb'[d] = "resolved" => tomb[d] = "resolved"
    BY <1>0 DEF Look, content
  <1>1. Held'
    BY <1>0, <1>h, <1>i, <1>j, HeldFrame
  <1>2. SameRow'
    BY <1>0, <1>b, <1>m, LookAfter, IdleIs DEF SameRow, Reproj, Sharing, KeepsSharing, Keeps, Changed
  <1>3. Swept'
    <2>1. CASE row.id \in shared /\ Changed(Worker, "lock", row.id, proc[Worker].todo, proc[Worker].clean, proc[Worker].path)
      <3>1. row.id \in Docs /\ tomb[row.id] = "none"
        BY <2>1 DEF Base, Stored, PurgedRowsStayGone
      <3>2. \A t \in Threads : Purges(t, "sweep") => proc[t].doc # row.id
        BY <1>0, <3>1 DEF Base, Manned, Fits, Purges
      <3> QED
        BY <1>c, <2>1, <3>2 DEF Swept, KeepsSweep, Changed
    <2>2. CASE Keeps(Worker, "complete")
      BY <2>2 DEF Swept, Reproj, Keeps, Changed
    <2> QED
      BY <2>1, <2>2, LookAfter
  <1>4. Wiped'
    BY <1>d, <1>g, WipedFrame
  <1>5. Emptied'
    <2>1. CASE row.id \in shared /\ Changed(Worker, "lock", row.id, proc[Worker].todo, proc[Worker].clean, proc[Worker].path)
      <3>1. row.id \in Docs /\ tomb[row.id] = "none"
        BY <2>1 DEF Base, Stored, PurgedRowsStayGone
      <3>2. \A t \in Threads : Purges(t, "clear") \/ Purges(t, "stamp") => proc[t].doc # row.id
        BY <1>0, <3>1 DEF Base, Manned, Fits, Purges
      <3>3. ~Gone(row.id)
        BY <3>1, <3>2 DEF Gone, Closing
      <3>4. ~Gone(proc[Worker].doc)'
        BY <1>e, <1>n, <2>1, <3>1, <3>3 DEF Gone, KeepsClosing, Changed
      <3> QED
        BY <3>4 DEF Emptied
    <2>2. CASE Keeps(Worker, "complete")
      BY <2>2 DEF Emptied, Reproj, Keeps, Changed
    <2> QED
      BY <2>1, <2>2, LookAfter
  <1>6. Unmirrored'
    BY <1>g, <1>n, UnmirroredFrame
  <1> QED
    BY <1>1, <1>2, <1>3, <1>4, <1>5, <1>6

LEMMA AcquireSealed ==
    ASSUME Base, Base', Fresh, Sealed, Locked, NEW p \in Procs, Acquire(p)
    PROVE  Sealed'
  <1> USE DEF Sealed
  <1>0. /\ Worker \in Procs /\ Threads \subseteq Procs /\ Worker \notin Threads /\ p \in Procs
        /\ proc \in [Procs -> Locals] /\ lock \in [Docs -> Procs \cup {Free}]
        /\ mirror \in [Docs -> [Ix -> Versions \cup {0}]] /\ personal \in [Ix -> Versions \cup {0}]
        /\ tomb \in [Docs -> {"none", "partial", "resolved"}] /\ row.id \in Docs \cup {NoDoc}
    BY DEF Base, Manned, Stored, Procs
  <1>f. Fits(p, proc[p], born, tomb, wanted) /\ Fits(Worker, proc[Worker], born, tomb, wanted)
    BY <1>0 DEF Base, Manned
  <1>a. KeepsReproj
    BY <1>0, AcquireAfter, IdleIs DEF Keeps, Changed, Ends, KeepsReproj, Reproj
  <1>b. KeepsSharing
    BY <1>0, AcquireAfter, IdleIs DEF Keeps, Changed, Ends, KeepsSharing, Sharing
  <1>c. KeepsSweep
    BY ZenonT(60), <1>0, AcquireAfter, IdleIs DEF Keeps, Changed, Ends, KeepsSweep, Purges
  <1>d. KeepsStamp
    BY ZenonT(60), <1>0, AcquireAfter, IdleIs DEF Keeps, Changed, Ends, KeepsStamp, Purges
  <1>e. KeepsClosing
    BY ZenonT(60), <1>0, AcquireAfter, IdleIs DEF Keeps, Changed, Ends, KeepsClosing, Closing, Purges
  <1>g. Shrinking
    BY <1>0, IdleIs DEF Acquire, content, Shrinking
  <1>h. HasIt(p)'
    <2>1. proc[p].doc \in Docs /\ proc'[p].doc = proc[p].doc
      BY <1>f, AcquireAfter DEF Fits, Keeps, Changed
    <2>2. lock'[proc[p].doc] = p
      BY <1>0, <2>1 DEF Acquire, Locked
    <2> QED
      BY <2>1, <2>2 DEF HasIt
  <1>i. Others(p)
    BY <1>0, AcquireAfter DEF Keeps, Changed, Ends, Others
  <1>j. \A d \in Docs : lock'[d] = lock[d] \/ lock[d] \in {Free, p}
    BY <1>0 DEF Acquire, content, Locked, CanLock
  <1>k. KeepsTodo
    BY <1>0, AcquireAfter, IdleIs DEF Keeps, Changed, Ends, KeepsTodo, Reproj
  <1>l. Reproj => proc[Worker].doc \in Docs
    BY <1>f DEF Fits, Reproj
  <1>m. row' = row
    BY DEF Acquire, content
  <1>n. \A d \in Docs : tomb'[d] = "resolved" => tomb[d] = "resolved"
    BY <1>0 DEF Acquire, content
  <1>1. Held'
    BY <1>0, <1>h, <1>i, <1>j, HeldFrame
  <1>2. SameRow'
    BY <1>a, <1>b, <1>m, SameRowFrame
  <1>3. Swept'
    BY <1>a, <1>c, SweptFrame
  <1>4. Wiped'
    BY <1>d, <1>g, WipedFrame
  <1>5. Emptied'
    BY <1>a, <1>e, <1>g, <1>k, <1>l, <1>n, EmptiedFrame DEF Gone
  <1>6. Unmirrored'
    BY <1>g, <1>n, UnmirroredFrame
  <1> QED
    BY <1>1, <1>2, <1>3, <1>4, <1>5, <1>6

LEMMA UnlockSealed ==
    ASSUME Base, Base', Fresh, Sealed, Locked, NEW p \in Procs, Unlock(p)
    PROVE  Sealed'
  <1> USE DEF Sealed
  <1>0. /\ Worker \in Procs /\ Threads \subseteq Procs /\ Worker \notin Threads /\ p \in Procs
        /\ proc \in [Procs -> Locals] /\ lock \in [Docs -> Procs \cup {Free}]
        /\ mirror \in [Docs -> [Ix -> Versions \cup {0}]] /\ personal \in [Ix -> Versions \cup {0}]
        /\ tomb \in [Docs -> {"none", "partial", "resolved"}] /\ row.id \in Docs \cup {NoDoc}
    BY DEF Base, Manned, Stored, Procs
  <1>f. Fits(p, proc[p], born, tomb, wanted) /\ Fits(Worker, proc[Worker], born, tomb, wanted)
    BY <1>0 DEF Base, Manned
  <1>a. KeepsReproj
    BY <1>0, UnlockAfter, IdleIs DEF Keeps, Changed, Ends, KeepsReproj, Reproj
  <1>b. KeepsSharing
    BY <1>0, UnlockAfter, IdleIs DEF Keeps, Changed, Ends, KeepsSharing, Sharing
  <1>c. KeepsSweep
    BY SMTT(40), <1>0, UnlockAfter, IdleIs DEF Keeps, Changed, Ends, KeepsSweep, Purges
  <1>d. KeepsStamp
    BY ZenonT(60), <1>0, UnlockAfter, IdleIs DEF Keeps, Changed, Ends, KeepsStamp, Purges
  <1>e. KeepsClosing
    BY SMTT(40), <1>0, UnlockAfter, IdleIs DEF Keeps, Changed, Ends, KeepsClosing, Closing, Purges
  <1>g. Shrinking
    BY <1>0, IdleIs DEF Unlock, content, Shrinking
  <1>h. HasIt(p)'
    BY <1>0, <1>f, UnlockAfter, IdleIs DEF Unlock, content, FreedBy, Keeps, Changed, Ends, At, Fits, HasIt,
       Held, LockOps, InLock
  <1>i. Others(p)
    BY <1>0, UnlockAfter DEF Keeps, Changed, Ends, Others
  <1>j. \A d \in Docs : lock'[d] = lock[d] \/ lock[d] \in {Free, p}
    BY <1>0, UnlockAfter DEF Unlock, content, FreedBy, Locked, CanLock
  <1>k. KeepsTodo
    BY <1>0, UnlockAfter, IdleIs DEF Keeps, Changed, Ends, KeepsTodo, Reproj
  <1>l. Reproj => proc[Worker].doc \in Docs
    BY <1>f DEF Fits, Reproj
  <1>m. row' = row
    BY DEF Unlock, content
  <1>n. \A d \in Docs : tomb'[d] = "resolved" => tomb[d] = "resolved"
    BY <1>0 DEF Unlock, content
  <1>1. Held'
    BY <1>0, <1>h, <1>i, <1>j, HeldFrame
  <1>2. SameRow'
    BY <1>a, <1>b, <1>m, SameRowFrame
  <1>3. Swept'
    BY <1>a, <1>c, SweptFrame
  <1>4. Wiped'
    BY <1>d, <1>g, WipedFrame
  <1>5. Emptied'
    BY <1>a, <1>e, <1>g, <1>k, <1>l, <1>n, EmptiedFrame DEF Gone
  <1>6. Unmirrored'
    BY <1>g, <1>n, UnmirroredFrame
  <1> QED
    BY <1>1, <1>2, <1>3, <1>4, <1>5, <1>6

LEMMA InsertSharedSealed ==
    ASSUME Base, Base', Fresh, Sealed, Locked, NEW p \in Procs, InsertShared(p)
    PROVE  Sealed'
  <1> USE DEF Sealed
  <1>0. /\ Worker \in Procs /\ Threads \subseteq Procs /\ Worker \notin Threads /\ p \in Procs
        /\ proc \in [Procs -> Locals] /\ lock \in [Docs -> Procs \cup {Free}]
        /\ mirror \in [Docs -> [Ix -> Versions \cup {0}]] /\ personal \in [Ix -> Versions \cup {0}]
        /\ tomb \in [Docs -> {"none", "partial", "resolved"}] /\ row.id \in Docs \cup {NoDoc}
    BY DEF Base, Manned, Stored, Procs
  <1>f. Fits(p, proc[p], born, tomb, wanted) /\ Fits(Worker, proc[Worker], born, tomb, wanted)
    BY <1>0 DEF Base, Manned
  <1>a. KeepsReproj
    BY <1>0, InsertSharedAfter, IdleIs DEF Keeps, Changed, Ends, KeepsReproj, Reproj
  <1>b. KeepsSharing
    BY <1>0, InsertSharedAfter, IdleIs DEF Keeps, Changed, Ends, KeepsSharing, Sharing
  <1>c. KeepsSweep
    BY <1>0, InsertSharedAfter, IdleIs DEF Keeps, Changed, Ends, KeepsSweep, Purges
  <1>d. KeepsStamp
    BY <1>0, InsertSharedAfter, IdleIs DEF Keeps, Changed, Ends, KeepsStamp, Purges
  <1>e. KeepsClosing
    BY <1>0, InsertSharedAfter, IdleIs DEF Keeps, Changed, Ends, KeepsClosing, Closing, Purges
  <1>g. Shrinking
    BY <1>0, IdleIs DEF InsertShared, content, Shrinking
  <1>h. HasIt(p)'
    BY <1>0, <1>f, InsertSharedAfter, IdleIs DEF InsertShared, content, Keeps, Changed, Ends, At, Fits, HasIt,
       Held, LockOps, InLock
  <1>i. Others(p)
    BY <1>0, InsertSharedAfter DEF Keeps, Changed, Ends, Others
  <1>j. \A d \in Docs : lock'[d] = lock[d] \/ lock[d] \in {Free, p}
    BY <1>0 DEF InsertShared, content, Locked, CanLock
  <1>k. KeepsTodo
    BY <1>0, InsertSharedAfter, IdleIs DEF Keeps, Changed, Ends, KeepsTodo, Reproj
  <1>l. Reproj => proc[Worker].doc \in Docs
    BY <1>f DEF Fits, Reproj
  <1>m. row' = row
    BY DEF InsertShared, content
  <1>n. \A d \in Docs : tomb'[d] = "resolved" => tomb[d] = "resolved"
    BY <1>0 DEF InsertShared, content
  <1>1. Held'
    BY <1>0, <1>h, <1>i, <1>j, HeldFrame
  <1>2. SameRow'
    BY <1>a, <1>b, <1>m, SameRowFrame
  <1>3. Swept'
    BY <1>a, <1>c, SweptFrame
  <1>4. Wiped'
    BY <1>d, <1>g, WipedFrame
  <1>5. Emptied'
    BY <1>a, <1>e, <1>g, <1>k, <1>l, <1>n, EmptiedFrame DEF Gone
  <1>6. Unmirrored'
    BY <1>g, <1>n, UnmirroredFrame
  <1> QED
    BY <1>1, <1>2, <1>3, <1>4, <1>5, <1>6

LEMMA DeleteSharedSealed ==
    ASSUME Base, Base', Fresh, Sealed, Locked, NEW p \in Procs, DeleteShared(p)
    PROVE  Sealed'
  <1> USE DEF Sealed
  <1>0. /\ Worker \in Procs /\ Threads \subseteq Procs /\ Worker \notin Threads /\ p \in Procs
        /\ proc \in [Procs -> Locals] /\ lock \in [Docs -> Procs \cup {Free}]
        /\ mirror \in [Docs -> [Ix -> Versions \cup {0}]] /\ personal \in [Ix -> Versions \cup {0}]
        /\ tomb \in [Docs -> {"none", "partial", "resolved"}] /\ row.id \in Docs \cup {NoDoc}
    BY DEF Base, Manned, Stored, Procs
  <1>f. Fits(p, proc[p], born, tomb, wanted) /\ Fits(Worker, proc[Worker], born, tomb, wanted)
    BY <1>0 DEF Base, Manned
  <1>a. KeepsReproj
    BY <1>0, DeleteSharedAfter, IdleIs DEF Keeps, Changed, Ends, KeepsReproj, Reproj
  <1>b. KeepsSharing
    BY <1>0, DeleteSharedAfter, IdleIs DEF Keeps, Changed, Ends, KeepsSharing, Sharing
  <1>c. KeepsSweep
    BY <1>0, DeleteSharedAfter, IdleIs DEF Keeps, Changed, Ends, KeepsSweep, Purges
  <1>d. KeepsStamp
    BY <1>0, DeleteSharedAfter, IdleIs DEF Keeps, Changed, Ends, KeepsStamp, Purges
  <1>e. KeepsClosing
    <2>1. ASSUME NEW t \in Threads, t # p
          PROVE  Closing(t)' => Closing(t) /\ proc'[t].doc = proc[t].doc
      <3>1. t \in Procs /\ proc'[t] = proc[t]
        BY <1>0, <2>1, DeleteSharedAfter DEF Keeps, Changed, Ends
      <3> QED
        BY <3>1 DEF Closing, Purges
    <2>2. ASSUME p \in Threads
          PROVE  ~Closing(p)'
      <3>1. proc'[p].op \notin {"purge", "repurge"}
        BY <1>0, DeleteSharedAfter, IdleIs DEF Keeps, Changed, Ends
      <3> QED
        BY <3>1 DEF Closing, Purges
    <2> QED
      BY <2>1, <2>2 DEF KeepsClosing
  <1>g. Shrinking
    BY <1>0, IdleIs DEF DeleteShared, content, Shrinking
  <1>h. HasIt(p)'
    BY <1>0, <1>f, DeleteSharedAfter, IdleIs DEF DeleteShared, content, Keeps, Changed, Ends, At, Fits, HasIt,
       Held, LockOps, InLock
  <1>i. Others(p)
    BY <1>0, DeleteSharedAfter DEF Keeps, Changed, Ends, Others
  <1>j. \A d \in Docs : lock'[d] = lock[d] \/ lock[d] \in {Free, p}
    BY <1>0 DEF DeleteShared, content, Locked, CanLock
  <1>k. KeepsTodo
    BY <1>0, DeleteSharedAfter, IdleIs DEF Keeps, Changed, Ends, KeepsTodo, Reproj
  <1>l. Reproj => proc[Worker].doc \in Docs
    BY <1>f DEF Fits, Reproj
  <1>m. row' = row
    BY DEF DeleteShared, content
  <1>n. \A d \in Docs : tomb'[d] = "resolved" => tomb[d] = "resolved"
    BY <1>0 DEF DeleteShared, content
  <1>1. Held'
    BY <1>0, <1>h, <1>i, <1>j, HeldFrame
  <1>2. SameRow'
    BY <1>a, <1>b, <1>m, SameRowFrame
  <1>3. Swept'
    BY <1>a, <1>c, SweptFrame
  <1>4. Wiped'
    BY <1>d, <1>g, WipedFrame
  <1>5. Emptied'
    BY <1>a, <1>e, <1>g, <1>k, <1>l, <1>n, EmptiedFrame DEF Gone
  <1>6. Unmirrored'
    BY <1>g, <1>n, UnmirroredFrame
  <1> QED
    BY <1>1, <1>2, <1>3, <1>4, <1>5, <1>6

LEMMA ClearSealed ==
    ASSUME Base, Base', Fresh, Sealed, Locked, NEW p \in Procs, Clear(p)
    PROVE  Sealed'
  <1> USE DEF Sealed
  <1>0. /\ Worker \in Procs /\ Threads \subseteq Procs /\ Worker \notin Threads /\ p \in Procs
        /\ proc \in [Procs -> Locals] /\ lock \in [Docs -> Procs \cup {Free}]
        /\ mirror \in [Docs -> [Ix -> Versions \cup {0}]] /\ personal \in [Ix -> Versions \cup {0}]
        /\ tomb \in [Docs -> {"none", "partial", "resolved"}] /\ row.id \in Docs \cup {NoDoc}
    BY DEF Base, Manned, Stored, Procs
  <1>f. Fits(p, proc[p], born, tomb, wanted) /\ Fits(Worker, proc[Worker], born, tomb, wanted)
    BY <1>0 DEF Base, Manned
  <1>a. KeepsReproj
    BY <1>0, ClearAfter, IdleIs DEF Keeps, Changed, Ends, KeepsReproj, Reproj
  <1>b. KeepsSharing
    BY <1>0, ClearAfter, IdleIs DEF Keeps, Changed, Ends, KeepsSharing, Sharing
  <1>c. KeepsSweep
    BY ZenonT(60), <1>0, ClearAfter, IdleIs DEF Keeps, Changed, Ends, KeepsSweep, Purges
  <1>e. KeepsClosing
    BY ZenonT(60), <1>0, ClearAfter, IdleIs DEF Keeps, Changed, Ends, KeepsClosing, Closing, Purges
  <1>g. Shrinking
    BY <1>0, IdleIs DEF Clear, content, Shrinking
  <1>h. HasIt(p)'
    BY ZenonT(60), <1>0, <1>f, ClearAfter, IdleIs DEF Clear, content, Keeps, Changed, Ends, At, Fits, HasIt,
       Held, LockOps, InLock
  <1>i. Others(p)
    BY <1>0, ClearAfter DEF Keeps, Changed, Ends, Others
  <1>j. \A d \in Docs : lock'[d] = lock[d] \/ lock[d] \in {Free, p}
    BY <1>0 DEF Clear, content, Locked, CanLock
  <1>k. KeepsTodo
    BY <1>0, ClearAfter, IdleIs DEF Keeps, Changed, Ends, KeepsTodo, Reproj
  <1>l. Reproj => proc[Worker].doc \in Docs
    BY <1>f DEF Fits, Reproj
  <1>m. row' = row
    BY DEF Clear, content
  <1>n. \A d \in Docs : tomb'[d] = "resolved" => tomb[d] = "resolved"
    BY <1>0 DEF Clear, content
  <1>1. Held'
    BY <1>0, <1>h, <1>i, <1>j, HeldFrame
  <1>2. SameRow'
    BY <1>a, <1>b, <1>m, SameRowFrame
  <1>3. Swept'
    BY <1>a, <1>c, SweptFrame
  <1>4. Wiped'
    <2>1. proc[p].doc \in Docs
      BY <1>f, ClearAfter DEF Fits, Legal
    <2>2. \A i \in Ix : mirror'[proc[p].doc][i] = 0
      BY <1>0, <2>1, IdleIs DEF Clear
    <2>3. proc'[p].pc # "idle" => proc'[p].doc = proc[p].doc
      BY ClearAfter, IdleIs DEF Keeps, Changed, Ends
    <2>4. \A q \in Threads : Purges(q, "stamp") => proc[q].doc \in Docs
      BY <1>0 DEF Base, Manned, Fits, Purges
    <2> SUFFICES ASSUME NEW q \in Threads, Purges(q, "stamp")', proc'[q].clean
                 PROVE  \A i \in Ix : mirror'[proc'[q].doc][i] = 0
      BY DEF Wiped
    <2>5. CASE q = p
      BY <2>2, <2>3, <2>5 DEF Purges
    <2>6. CASE q # p
      BY <1>0, <1>g, <1>i, <2>4, <2>6 DEF Wiped, Others, Purges, Shrinking
    <2> QED
      BY <2>5, <2>6
  <1>5. Emptied'
    BY <1>a, <1>e, <1>g, <1>k, <1>l, <1>n, EmptiedFrame DEF Gone
  <1>6. Unmirrored'
    BY <1>g, <1>n, UnmirroredFrame
  <1> QED
    BY <1>1, <1>2, <1>3, <1>4, <1>5, <1>6

LEMMA ScrollSealed ==
    ASSUME Base, Base', Fresh, Sealed, Locked, NEW p \in Procs, Scroll(p)
    PROVE  Sealed'
  <1> USE DEF Sealed
  <1>0. /\ Worker \in Procs /\ Threads \subseteq Procs /\ Worker \notin Threads /\ p \in Procs
        /\ proc \in [Procs -> Locals] /\ lock \in [Docs -> Procs \cup {Free}]
        /\ mirror \in [Docs -> [Ix -> Versions \cup {0}]] /\ personal \in [Ix -> Versions \cup {0}]
        /\ tomb \in [Docs -> {"none", "partial", "resolved"}] /\ row.id \in Docs \cup {NoDoc}
    BY DEF Base, Manned, Stored, Procs
  <1>f. Fits(p, proc[p], born, tomb, wanted) /\ Fits(Worker, proc[Worker], born, tomb, wanted)
    BY <1>0 DEF Base, Manned
  <1>a. KeepsReproj
    BY <1>0, ScrollAfter, IdleIs DEF Keeps, Changed, Ends, KeepsReproj, Reproj
  <1>b. KeepsSharing
    BY <1>0, ScrollAfter, IdleIs DEF Keeps, Changed, Ends, KeepsSharing, Sharing
  <1>c. KeepsSweep
    BY <1>0, ScrollAfter, IdleIs DEF Keeps, Changed, Ends, KeepsSweep, Purges
  <1>d. KeepsStamp
    BY <1>0, ScrollAfter, IdleIs DEF Keeps, Changed, Ends, KeepsStamp, Purges
  <1>e. KeepsClosing
    BY <1>0, ScrollAfter, IdleIs DEF Keeps, Changed, Ends, KeepsClosing, Closing, Purges
  <1>g. Shrinking
    BY <1>0, IdleIs DEF Scroll, content, Shrinking
  <1>h. HasIt(p)'
    BY <1>0, <1>f, ScrollAfter, IdleIs DEF Scroll, content, Keeps, Changed, Ends, At, Fits, HasIt, Held,
       LockOps, InLock
  <1>i. Others(p)
    BY <1>0, ScrollAfter DEF Keeps, Changed, Ends, Others
  <1>j. \A d \in Docs : lock'[d] = lock[d] \/ lock[d] \in {Free, p}
    BY <1>0 DEF Scroll, content, Locked, CanLock
  <1>l. Reproj => proc[Worker].doc \in Docs
    BY <1>f DEF Fits, Reproj
  <1>m. row' = row
    BY DEF Scroll, content
  <1>n. \A d \in Docs : tomb'[d] = "resolved" => tomb[d] = "resolved"
    BY <1>0 DEF Scroll, content
  <1>1. Held'
    BY <1>0, <1>h, <1>i, <1>j, HeldFrame
  <1>2. SameRow'
    BY <1>a, <1>b, <1>m, SameRowFrame
  <1>3. Swept'
    BY <1>a, <1>c, SweptFrame
  <1>4. Wiped'
    BY <1>d, <1>g, WipedFrame
  <1>5. Emptied'
    <2>1. UNCHANGED <<personal, tomb>>
      BY DEF Scroll, content
    <2>2. p = Worker
      BY <1>0, <1>f, ScrollAfter DEF Fits, Fresh, NoPublish, Procs
    <2> SUFFICES ASSUME Reproj', Gone(proc[Worker].doc)'
                 PROVE  \A i \in Ix : proc'[Worker].todo[i] = 0 /\ personal'[i] = 0
      BY DEF Emptied
    <2>3. /\ Reproj /\ proc'[Worker].doc = proc[Worker].doc /\ proc[Worker].doc \in Docs
          /\ proc[Worker].pc = "scroll" /\ proc'[Worker].todo = personal
      BY <1>a, <1>l, <2>2, ScrollAfter DEF KeepsReproj, Changed
    <2>4. Gone(proc[Worker].doc)
      BY <1>e, <2>1, <2>3 DEF Gone, KeepsClosing
    <2> QED
      BY <2>1, <2>3, <2>4 DEF Emptied
  <1>6. Unmirrored'
    BY <1>g, <1>n, UnmirroredFrame
  <1> QED
    BY <1>1, <1>2, <1>3, <1>4, <1>5, <1>6

LEMMA UpsertSealed ==
    ASSUME Base, Base', Fresh, Sealed, Locked, NEW p \in Procs, Upsert(p)
    PROVE  Sealed'
  <1> USE DEF Sealed
  <1>0. /\ Worker \in Procs /\ Threads \subseteq Procs /\ Worker \notin Threads /\ p \in Procs
        /\ proc \in [Procs -> Locals] /\ lock \in [Docs -> Procs \cup {Free}]
        /\ mirror \in [Docs -> [Ix -> Versions \cup {0}]] /\ personal \in [Ix -> Versions \cup {0}]
        /\ tomb \in [Docs -> {"none", "partial", "resolved"}] /\ row.id \in Docs \cup {NoDoc}
    BY DEF Base, Manned, Stored, Procs
  <1>f. Fits(p, proc[p], born, tomb, wanted) /\ Fits(Worker, proc[Worker], born, tomb, wanted)
    BY <1>0 DEF Base, Manned
  <1>a. KeepsReproj
    BY <1>0, UpsertAfter, IdleIs DEF Keeps, Changed, Ends, KeepsReproj, Reproj
  <1>b. KeepsSharing
    BY <1>0, UpsertAfter, IdleIs DEF Keeps, Changed, Ends, KeepsSharing, Sharing
  <1>c. KeepsSweep
    BY ZenonT(60), <1>0, UpsertAfter, IdleIs DEF Keeps, Changed, Ends, KeepsSweep, Purges
  <1>d. KeepsStamp
    BY ZenonT(60), <1>0, UpsertAfter, IdleIs DEF Keeps, Changed, Ends, KeepsStamp, Purges
  <1>e. KeepsClosing
    BY ZenonT(60), <1>0, UpsertAfter, IdleIs DEF Keeps, Changed, Ends, KeepsClosing, Closing, Purges
  <1>g. UNCHANGED <<personal, tomb, row>>
    BY DEF Upsert
  <1>h. HasIt(p)'
    BY ZenonT(60), <1>0, <1>f, UpsertAfter, IdleIs DEF Upsert, content, Keeps, Changed, Ends, At, Fits, HasIt,
       Held, LockOps, InLock
  <1>i. Others(p)
    BY <1>0, UpsertAfter DEF Keeps, Changed, Ends, Others
  <1>j. \A d \in Docs : lock'[d] = lock[d] \/ lock[d] \in {Free, p}
    BY <1>0 DEF Upsert, content, Locked, CanLock
  <1>k. KeepsTodo
    <2>1. p = Worker /\ proc[Worker].pc = "upsert" /\ proc[Worker].todo \in [Ix -> Versions \cup {0}]
      BY <1>0, <1>f, UpsertAfter DEF Fits, Legal, Fresh, NoPublish, Procs, Locals
    <2> QED
      BY <2>1, UpsertAfter, IdleIs DEF Fresh, NoPublish, KeepsTodo, Reproj, Keeps, Changed
  <1>l. Reproj => proc[Worker].doc \in Docs
    BY <1>f DEF Fits, Reproj
  <1>m. row' = row
    BY DEF Upsert, content
  <1>n. \A d \in Docs : tomb'[d] = "resolved" => tomb[d] = "resolved"
    BY <1>0 DEF Upsert, content
  <1>1. Held'
    BY <1>0, <1>h, <1>i, <1>j, HeldFrame
  <1>2. SameRow'
    BY <1>a, <1>b, <1>m, SameRowFrame
  <1>3. Swept'
    BY <1>a, <1>c, SweptFrame
  <1>4. Wiped'
    <2>1. p = Worker /\ proc[Worker].pc = "upsert" /\ proc[Worker].doc \in Docs
      BY <1>0, <1>f, UpsertAfter DEF Fits, Legal, Fresh, NoPublish, Procs
    <2>2. proc[Worker].op \in LockOps /\ lock[proc[Worker].doc] = Worker
      BY <2>1, UpsertAfter DEF Held, HasIt, LockOps, InLock, Fresh, NoPublish
    <2>3. \A d \in Docs, i \in Ix : mirror'[d][i] = mirror[d][i] \/ (d = proc[Worker].doc /\ proc[Worker].todo[i] # 0)
      <3> DEFINE Only == \A d \in Docs, k \in Ix : mirror'[d][k] = mirror[d][k]
                                                  \/ (d = proc[Worker].doc /\ proc[Worker].todo[k] # 0)
                 M(i) == proc[p].todo[i] # 0 /\ mirror' = [mirror EXCEPT ![proc[p].doc][i] = proc[p].todo[i]]
      <3>1. ASSUME NEW i \in Ix, M(i) PROVE Only
        BY <1>0, <2>1, <3>1
      <3>2. ASSUME UNCHANGED mirror PROVE Only
        BY <3>2
      <3>3. UNCHANGED mirror \/ \E i \in Ix : M(i)
        BY UpsertAfter
      <3> HIDE DEF Only, M
      <3>4. Only
        BY <3>1, <3>2, <3>3
      <3> QED
        BY <3>4 DEF Only
    <2>4. \A q \in Threads : Purges(q, "stamp") => proc[q].doc \in Docs /\ lock[proc[q].doc] = q
      BY <1>0 DEF Base, Manned, Fits, Purges, Held, HasIt, LockOps, InLock
    <2>5. \A q \in Threads : Purges(q, "stamp") => proc[q].doc # proc[Worker].doc
      BY <1>0, <2>2, <2>4
    <2> QED
      BY <1>d, <2>3, <2>4, <2>5 DEF Wiped, KeepsStamp
  <1>5. Emptied'
    <2> SUFFICES ASSUME Reproj', Gone(proc[Worker].doc)'
                 PROVE  (\A i \in Ix : IF proc[Worker].pc = "upsert" THEN proc[Worker].todo[i] = 0 ELSE personal[i] = 0)'
      BY DEF Emptied
    <2>2. Reproj /\ proc'[Worker].doc = proc[Worker].doc /\ proc[Worker].doc \in Docs
      BY <1>a, <1>l DEF KeepsReproj
    <2>3. Gone(proc[Worker].doc)
      BY <1>e, <1>g, <2>2 DEF Gone, KeepsClosing
    <2> QED
      BY <1>g, <1>k, <2>2, <2>3 DEF Emptied, KeepsTodo
  <1>6. Unmirrored'
    <2>1. p = Worker /\ proc[Worker].pc = "upsert" /\ proc[Worker].doc \in Docs
      BY <1>0, <1>f, UpsertAfter DEF Fits, Legal, Fresh, NoPublish, Procs
    <2>2. proc[Worker].op \in LockOps /\ lock[proc[Worker].doc] = Worker
      BY <2>1, UpsertAfter DEF Held, HasIt, LockOps, InLock, Fresh, NoPublish
    <2>3. \A d \in Docs, i \in Ix : mirror'[d][i] = mirror[d][i] \/ (d = proc[Worker].doc /\ proc[Worker].todo[i] # 0)
      <3> DEFINE Only == \A d \in Docs, k \in Ix : mirror'[d][k] = mirror[d][k]
                                                  \/ (d = proc[Worker].doc /\ proc[Worker].todo[k] # 0)
                 M(i) == proc[p].todo[i] # 0 /\ mirror' = [mirror EXCEPT ![proc[p].doc][i] = proc[p].todo[i]]
      <3>1. ASSUME NEW i \in Ix, M(i) PROVE Only
        BY <1>0, <2>1, <3>1
      <3>2. ASSUME UNCHANGED mirror PROVE Only
        BY <3>2
      <3>3. UNCHANGED mirror \/ \E i \in Ix : M(i)
        BY UpsertAfter
      <3> HIDE DEF Only, M
      <3>4. Only
        BY <3>1, <3>2, <3>3
      <3> QED
        BY <3>4 DEF Only
    <2>4. tomb[proc[Worker].doc] = "resolved" => \A i \in Ix : proc[Worker].todo[i] = 0
      <3>1. CASE proc[Worker].op = "share"
        BY <2>1, <3>1 DEF SameRow, Sharing, Base, PurgedRowsStayGone
      <3>2. CASE proc[Worker].op = "ingest"
        BY <2>1, <3>2 DEF Emptied, Gone, Reproj
      <3> QED
        BY <2>1, <3>1, <3>2, UpsertAfter DEF Fresh, NoPublish
    <2> QED
      BY <1>g, <2>3, <2>4 DEF Unmirrored
  <1> QED
    BY <1>1, <1>2, <1>3, <1>4, <1>5, <1>6

LEMMA AbortsSealed ==
    ASSUME Base, Base', Fresh, Sealed, Locked, NEW p \in Procs, Aborts(p), UNCHANGED content
    PROVE  Sealed'
  <1> USE DEF Sealed
  <1>0. /\ Worker \in Procs /\ Threads \subseteq Procs /\ Worker \notin Threads /\ p \in Procs
        /\ proc \in [Procs -> Locals] /\ lock \in [Docs -> Procs \cup {Free}]
        /\ mirror \in [Docs -> [Ix -> Versions \cup {0}]] /\ personal \in [Ix -> Versions \cup {0}]
        /\ tomb \in [Docs -> {"none", "partial", "resolved"}] /\ row.id \in Docs \cup {NoDoc}
    BY DEF Base, Manned, Stored, Procs
  <1>f. Fits(p, proc[p], born, tomb, wanted) /\ Fits(Worker, proc[Worker], born, tomb, wanted)
    BY <1>0 DEF Base, Manned
  <1>a. KeepsReproj
    BY <1>0, AbortsAfter, IdleIs DEF Keeps, Changed, Ends, KeepsReproj, Reproj
  <1>b. KeepsSharing
    BY <1>0, AbortsAfter, IdleIs DEF Keeps, Changed, Ends, KeepsSharing, Sharing
  <1>c. KeepsSweep
    BY ZenonT(60), <1>0, AbortsAfter, IdleIs DEF Keeps, Changed, Ends, KeepsSweep, Purges
  <1>d. KeepsStamp
    BY ZenonT(60), <1>0, AbortsAfter, IdleIs DEF Keeps, Changed, Ends, KeepsStamp, Purges
  <1>e. KeepsClosing
    BY ZenonT(60), <1>0, AbortsAfter, IdleIs DEF Keeps, Changed, Ends, KeepsClosing, Closing, Purges
  <1>g. Shrinking
    BY <1>0, IdleIs DEF content, Shrinking
  <1>h. HasIt(p)'
    <2>1. CASE Reprojecting(p) /\ UNCHANGED lock /\ Keeps(p, "unlock")
      BY <1>0, <2>1 DEF Held, HasIt, LockOps, InLock, Reprojecting, Keeps, Changed
    <2>2. CASE Ends(p)
      BY <2>2, IdleIs DEF HasIt, LockOps, Ends
    <2>3. CASE /\ proc[p].op \in {"purge", "repurge"} /\ proc[p].pc \in {"sweep", "clear"} /\ UNCHANGED lock
               /\ Changed(p, "stamp", proc[p].doc, proc[p].todo, FALSE, proc[p].path)
      BY <1>0, <2>3 DEF Held, HasIt, LockOps, InLock, Changed
    <2> QED
      BY <2>1, <2>2, <2>3, AbortsAfter
  <1>i. Others(p)
    BY <1>0, AbortsAfter DEF Keeps, Changed, Ends, Others
  <1>j. \A d \in Docs : lock'[d] = lock[d] \/ lock[d] \in {Free, p}
    BY <1>0, AbortsAfter DEF content, FreedBy, Locked, CanLock
  <1>k. KeepsTodo
    BY <1>0, AbortsAfter, IdleIs DEF Keeps, Changed, Ends, KeepsTodo, Reproj
  <1>l. Reproj => proc[Worker].doc \in Docs
    BY <1>f DEF Fits, Reproj
  <1>m. row' = row
    BY DEF content
  <1>n. \A d \in Docs : tomb'[d] = "resolved" => tomb[d] = "resolved"
    BY <1>0 DEF content
  <1>1. Held'
    BY <1>0, <1>h, <1>i, <1>j, HeldFrame
  <1>2. SameRow'
    BY <1>a, <1>b, <1>m, SameRowFrame
  <1>3. Swept'
    BY <1>a, <1>c, SweptFrame
  <1>4. Wiped'
    BY <1>d, <1>g, WipedFrame
  <1>5. Emptied'
    BY <1>a, <1>e, <1>g, <1>k, <1>l, <1>n, EmptiedFrame DEF Gone
  <1>6. Unmirrored'
    BY <1>g, <1>n, UnmirroredFrame
  <1> QED
    BY <1>1, <1>2, <1>3, <1>4, <1>5, <1>6

LEMMA ClaimSealed ==
    ASSUME Base, Base', Fresh, Sealed, Locked, Claim
    PROVE  Sealed'
  <1> USE DEF Sealed
  <1>0. /\ Worker \in Procs /\ Threads \subseteq Procs /\ Worker \notin Threads /\ Worker \in Procs
        /\ proc \in [Procs -> Locals] /\ lock \in [Docs -> Procs \cup {Free}]
        /\ mirror \in [Docs -> [Ix -> Versions \cup {0}]] /\ personal \in [Ix -> Versions \cup {0}]
        /\ tomb \in [Docs -> {"none", "partial", "resolved"}] /\ row.id \in Docs \cup {NoDoc}
    BY DEF Base, Manned, Stored, Procs
  <1>f. Fits(Worker, proc[Worker], born, tomb, wanted) /\ Fits(Worker, proc[Worker], born, tomb, wanted)
    BY <1>0 DEF Base, Manned
  <1>a. KeepsReproj
    BY <1>0, ClaimDoes, IdleIs DEF Put, KeepsReproj, Reproj
  <1>b. KeepsSharing
    BY <1>0, ClaimDoes, IdleIs DEF Put, KeepsSharing, Sharing
  <1>c. KeepsSweep
    BY <1>0, ClaimDoes, IdleIs DEF Put, KeepsSweep, Purges
  <1>d. KeepsStamp
    BY <1>0, ClaimDoes, IdleIs DEF Put, KeepsStamp, Purges
  <1>e. KeepsClosing
    BY <1>0, ClaimDoes, IdleIs DEF Put, KeepsClosing, Closing, Purges
  <1>g. Shrinking
    BY <1>0, IdleIs DEF Claim, content, Shrinking
  <1>h. HasIt(Worker)'
    BY <1>0, <1>f, ClaimDoes, IdleIs DEF Claim, content, Put, At, Fits, HasIt, Held, LockOps, InLock
  <1>i. Others(Worker)
    BY <1>0, ClaimDoes DEF Put, Others
  <1>j. \A d \in Docs : lock'[d] = lock[d] \/ lock[d] \in {Free, Worker}
    BY <1>0 DEF Claim, content, Locked, CanLock
  <1>k. KeepsTodo
    BY <1>0, ClaimDoes, IdleIs DEF Put, KeepsTodo, Reproj
  <1>l. Reproj => proc[Worker].doc \in Docs
    BY <1>f DEF Fits, Reproj
  <1>m. row' = row
    BY DEF Claim, content
  <1>n. \A d \in Docs : tomb'[d] = "resolved" => tomb[d] = "resolved"
    BY <1>0 DEF Claim, content
  <1>1. Held'
    BY <1>0, <1>h, <1>i, <1>j, HeldFrame
  <1>2. SameRow'
    BY <1>a, <1>b, <1>m, SameRowFrame
  <1>3. Swept'
    BY <1>a, <1>c, SweptFrame
  <1>4. Wiped'
    BY <1>d, <1>g, WipedFrame
  <1>5. Emptied'
    BY <1>a, <1>e, <1>g, <1>k, <1>l, <1>n, EmptiedFrame DEF Gone
  <1>6. Unmirrored'
    BY <1>g, <1>n, UnmirroredFrame
  <1> QED
    BY <1>1, <1>2, <1>3, <1>4, <1>5, <1>6

LEMMA RequestSealed ==
    ASSUME Base, Base', Fresh, Sealed, Locked, NEW t \in Threads, 
           \/ \E k \in {"share", "unshare"} : RequestToggle(t, k)
           \/ RequestPublish(t) \/ RequestUnpublish(t)
           \/ \E d \in Docs : RequestAdmin(t, d) \/ RequestPurge(t, d)
    PROVE  Sealed'
  <1> USE DEF Sealed
  <1>1. /\ Worker \in Procs /\ Threads \subseteq Procs /\ Worker \notin Threads
        /\ proc \in [Procs -> Locals] /\ UNCHANGED <<content, lock>>
    BY RequestDoes DEF Base, Manned, Procs
  <1>2. proc'[Worker] = proc[Worker]
    BY <1>1, RequestDoes DEF Put
  <1>3. \A q \in Procs : /\ q # t => proc'[q] = proc[q]
                         /\ q = t => \/ proc'[q] = proc[q]
                                     \/ /\ proc'[q].pc \in {"enqueue", "insert", "delete", "lock"}
                                        /\ proc'[q].pc = "delete" => proc'[q].op \in {"unpublish", "admin"}
                                        /\ proc'[q].pc = "insert" => proc'[q].op = "publish"
    BY <1>1, RequestDoes DEF Put
  <1>4. HasIt(t)' /\ Others(t)
    BY <1>1, <1>3 DEF Held, HasIt, LockOps, InLock, Others
  <1>5. Held'
    BY <1>1, <1>4, HeldFrame
  <1>6. KeepsReproj /\ KeepsSharing /\ KeepsTodo
    BY <1>2, <1>1 DEF KeepsReproj, KeepsSharing, KeepsTodo, Reproj, Sharing
  <1>7. KeepsSweep /\ KeepsStamp /\ KeepsClosing
    BY <1>1, <1>3 DEF KeepsSweep, KeepsStamp, KeepsClosing, Closing, Purges
  <1>8. Shrinking /\ row' = row /\ (\A d \in Docs : tomb'[d] = "resolved" => tomb[d] = "resolved")
    BY <1>1 DEF Shrinking, content
  <1>9. Reproj => proc[Worker].doc \in Docs
    BY <1>1 DEF Base, Manned, Fits, Reproj
  <1> QED
    BY <1>5, <1>6, <1>7, <1>8, <1>9, SameRowFrame, SweptFrame, WipedFrame, EmptiedFrame, UnmirroredFrame DEF
       Gone

LEMMA OtherSealed ==
    ASSUME Base, Base', Fresh, Sealed, Locked, 
           \/ RequestIngest \/ Crash
           \/ \E t \in Threads : EnqueueToggle(t)
           \/ \E j \in DOMAIN jobs : BackoffElapses(j)
           \/ UNCHANGED vars
    PROVE  Sealed'
  <1> USE DEF Sealed
  <1>1. /\ Worker \in Procs /\ Threads \subseteq Procs /\ Worker \notin Threads
        /\ proc \in [Procs -> Locals] /\ UNCHANGED content
    BY DEF Base, Manned, Procs, RequestIngest, Crash, EnqueueToggle, BackoffElapses, vars
  <1>2. \A q \in Procs : proc'[q] = proc[q] \/ proc'[q] = Idle
    BY <1>1 DEF RequestIngest, Crash, EnqueueToggle, BackoffElapses, vars
  <1>3. lock' = lock \/ \A q \in Procs : proc'[q] = Idle
    BY <1>1 DEF RequestIngest, Crash, EnqueueToggle, BackoffElapses, vars
  <1>4. Held'
    BY <1>2, <1>3, IdleIs DEF Held, HasIt, LockOps
  <1>6. KeepsReproj /\ KeepsSharing /\ KeepsTodo
    BY <1>2, <1>1, IdleIs DEF KeepsReproj, KeepsSharing, KeepsTodo, Reproj, Sharing
  <1>7. KeepsSweep /\ KeepsStamp /\ KeepsClosing
    BY <1>1, <1>2, IdleIs DEF KeepsSweep, KeepsStamp, KeepsClosing, Closing, Purges
  <1>8. Shrinking /\ row' = row /\ (\A d \in Docs : tomb'[d] = "resolved" => tomb[d] = "resolved")
    BY <1>1 DEF Shrinking, content
  <1>9. Reproj => proc[Worker].doc \in Docs
    BY <1>1 DEF Base, Manned, Fits, Reproj
  <1> QED
    BY <1>4, <1>6, <1>7, <1>8, <1>9, SameRowFrame, SweptFrame, WipedFrame, EmptiedFrame, UnmirroredFrame DEF
       Gone

LEMMA NextSealed ==
    ASSUME Base, Base', Sealed, Fresh, Locked, [Next]_vars
    PROVE  Sealed'
  <1>1. ASSUME NEW t \in Threads, ThreadStep(t) PROVE Sealed'
    <2>1. CASE EnqueueToggle(t)
      BY <2>1, OtherSealed
    <2> QED
      BY <1>1, <2>1, RemoveSealed, CheckPathSealed, SweepSealed, StampSealed, VerifySealed DEF ThreadStep
  <1>2. ASSUME WorkerStep PROVE Sealed'
    BY <1>2, ClaimSealed, CompleteSealed, ReadSourceSealed, RecheckSealed, HashSealed, WipeSealed, WriteSealed,
       IndexSealed, LookSealed DEF WorkerStep
  <1>3. ASSUME NEW p \in Procs, CommonStep(p) PROVE Sealed'
    <2>1. CASE Raise(p) \/ ForeignKeyFails(p)
      BY <2>1, AbortsSealed DEF Raise, ForeignKeyFails
    <2> QED
      BY <1>3, <2>1, AcquireSealed, UnlockSealed, InsertSharedSealed, DeleteSharedSealed, ClearSealed,
         ScrollSealed,
         UpsertSealed DEF CommonStep
  <1>4. ASSUME NEW t \in Threads,
               \/ \E k \in {"share", "unshare"} : RequestToggle(t, k)
               \/ RequestPublish(t) \/ RequestUnpublish(t)
               \/ \E d \in Docs : RequestAdmin(t, d) \/ RequestPurge(t, d)
        PROVE  Sealed'
    BY <1>4, RequestSealed
  <1> QED
    BY <1>1, <1>2, <1>3, <1>4, OtherSealed DEF Next

LEMMA SealedHolds == ASSUME Locked PROVE Spec => [](Base /\ Fresh /\ Sealed)
  <1>1. Init => Fresh /\ Sealed
    BY IdleIs, WholeIs DEF Init, Fresh, NoPublish, Copying, Rewriting, NeverStale, At, Procs, Sealed, Held,
       HasIt,
       LockOps, SameRow, Reproj, Sharing, Swept, Wiped, Purges, Emptied, Unmirrored
  <1>2. Base /\ Base' /\ Fresh /\ Sealed /\ [Next]_vars => Fresh' /\ Sealed'
    BY NextFresh, NextSealed DEF Locked
  <1> QED
    BY BaseHolds, <1>1, <1>2, PTL DEF Spec

\* The lock keeps purges and projections of a document apart: once a tombstone
\* is resolved, no row and no shared chunk of the document comes back, whatever
\* fails or crashes, and although a re-projection does not look at the row
\* again under the lock.
THEOREM PurgeIsFinal == ASSUME Locked PROVE Spec => []PurgedStaysPurged
  <1>1. Base /\ Sealed => PurgedStaysPurged
    <2> SUFFICES ASSUME Base, Sealed, NEW d \in Docs, tomb[d] = "resolved"
                 PROVE  row.id # d /\ d \notin shared /\ mirror[d] = NoChunks
      BY DEF PurgedStaysPurged
    <2>1. row.id # d /\ d \notin shared
      BY DEF Base, PurgedRowsStayGone
    <2>2. mirror[d] \in [Ix -> Versions \cup {0}] /\ \A i \in Ix : mirror[d][i] = 0
      BY DEF Base, Stored, Sealed, Unmirrored
    <2>3. mirror[d] = NoChunks
      BY <2>2 DEF NoChunks
    <2> QED
      BY <2>1, <2>3
  <1> QED
    BY SealedHolds, <1>1, PTL

-----------------------------------------------------------------------------
(***************************************************************************)
(* A share that is done is complete, when nothing but the jobs and the      *)
(* purge deletes shared chunks.                                             *)
(***************************************************************************)
JobsOnly == Locked /\ {"unpublish", "admin"} \cap Requests = {}
NoInlineDelete == \A p \in Procs : proc[p].op \notin {"unpublish", "admin"}

ShareAt(s) == /\ proc[Worker].op = "share" /\ proc[Worker].pc = s /\ proc[Worker].clean
              /\ row.id = proc[Worker].doc

\* What the share under way has copied so far.
Copied(i) == personal[i] # 0 => mirror[proc[Worker].doc][i] = personal[i]
FullyCopied == \A i \in Ix : /\ ShareAt("upsert") /\ proc[Worker].todo[i] = 0 => Copied(i)
                             /\ ShareAt("unlock") => Copied(i)
Honest == NoInlineDelete /\ FullyCopied

LEMMA HonestFrame ==
    ASSUME Honest, NoInlineDelete',
           \A s \in {"upsert", "unlock"} : ShareAt(s)' => ShareAt(s) /\ proc'[Worker] = proc[Worker],
           \A i \in Ix : /\ personal'[i] \in {0, personal[i]}
                         /\ ShareAt("upsert") \/ ShareAt("unlock")
                              => mirror'[proc[Worker].doc][i] = mirror[proc[Worker].doc][i] \/ personal'[i] = 0
    PROVE  Honest'
  <1>1. ASSUME NEW i \in Ix, NEW s \in {"upsert", "unlock"}, ShareAt(s)', Copied(i) PROVE Copied(i)'
    <2>1. ShareAt(s) /\ proc'[Worker] = proc[Worker]
      BY <1>1
    <2>2. mirror'[proc[Worker].doc][i] = mirror[proc[Worker].doc][i] \/ personal'[i] = 0
      BY <2>1
    <2> QED
      BY <1>1, <2>1, <2>2 DEF Copied
  <1>2. ASSUME NEW i \in Ix, NEW s \in {"upsert", "unlock"}, ShareAt(s)', s = "upsert" => proc'[Worker].todo[i] = 0
        PROVE  Copied(i)'
    <2>1. ShareAt(s) /\ proc'[Worker] = proc[Worker]
      BY <1>2
    <2>2. Copied(i)
      BY <1>2, <2>1 DEF Honest, FullyCopied
    <2> QED
      BY <1>1, <1>2, <2>2
  <1>3. FullyCopied'
    BY <1>2 DEF FullyCopied
  <1> QED
    BY <1>3 DEF Honest

LEMMA RemoveHonest ==
    ASSUME Base, Base', Fresh, Sealed, Honest, JobsOnly, NEW t \in Threads, Remove(t)
    PROVE  Honest'
  <1>0. /\ Worker \in Procs /\ Threads \subseteq Procs /\ Worker \notin Threads /\ t \in Procs
        /\ proc \in [Procs -> Locals] /\ lock \in [Docs -> Procs \cup {Free}]
        /\ mirror \in [Docs -> [Ix -> Versions \cup {0}]] /\ personal \in [Ix -> Versions \cup {0}]
        /\ tomb \in [Docs -> {"none", "partial", "resolved"}] /\ row.id \in Docs \cup {NoDoc}
    BY DEF Base, Manned, Stored, Procs
  <1>f. Fits(t, proc[t], born, tomb, wanted) /\ Fits(Worker, proc[Worker], born, tomb, wanted)
    BY <1>0 DEF Base, Manned
  <1>1. NoInlineDelete'
    BY <1>0, RemoveAfter, IdleIs DEF Keeps, Changed, Ends, Honest, NoInlineDelete
  <1>2. \A s \in {"upsert", "unlock"} : ShareAt(s)' => ShareAt(s) /\ proc'[Worker] = proc[Worker]
    <2>0. proc'[Worker] = proc[Worker]
      BY <1>0, RemoveAfter DEF Keeps, Changed
    <2>1. row'.id \in {row.id, NoDoc} /\ NoDoc \notin Docs
      BY DEF Remove, NoDoc, Docs
    <2>2. proc[Worker].op = "share" => proc[Worker].doc \in Docs
      BY <1>f DEF Fits
    <2> QED
      BY <2>0, <2>1, <2>2 DEF ShareAt
  <1>3. \A i \in Ix : /\ personal'[i] \in {0, personal[i]}
                      /\ ShareAt("upsert") \/ ShareAt("unlock")
                           => mirror'[proc[Worker].doc][i] = mirror[proc[Worker].doc][i] \/ personal'[i] = 0
    BY <1>0, IdleIs DEF Remove, content, ShareAt
  <1> QED
    BY <1>1, <1>2, <1>3, HonestFrame

LEMMA CheckPathHonest ==
    ASSUME Base, Base', Fresh, Sealed, Honest, JobsOnly, NEW t \in Threads, CheckPath(t)
    PROVE  Honest'
  <1>0. /\ Worker \in Procs /\ Threads \subseteq Procs /\ Worker \notin Threads /\ t \in Procs
        /\ proc \in [Procs -> Locals] /\ lock \in [Docs -> Procs \cup {Free}]
        /\ mirror \in [Docs -> [Ix -> Versions \cup {0}]] /\ personal \in [Ix -> Versions \cup {0}]
        /\ tomb \in [Docs -> {"none", "partial", "resolved"}] /\ row.id \in Docs \cup {NoDoc}
    BY DEF Base, Manned, Stored, Procs
  <1>f. Fits(t, proc[t], born, tomb, wanted) /\ Fits(Worker, proc[Worker], born, tomb, wanted)
    BY <1>0 DEF Base, Manned
  <1>1. NoInlineDelete'
    BY <1>0, CheckPathAfter, IdleIs DEF Keeps, Changed, Ends, Honest, NoInlineDelete
  <1>2. \A s \in {"upsert", "unlock"} : ShareAt(s)' => ShareAt(s) /\ proc'[Worker] = proc[Worker]
    BY <1>0, CheckPathAfter, IdleIs DEF Keeps, Changed, Ends, ShareAt, CheckPath, content
  <1>3. \A i \in Ix : /\ personal'[i] \in {0, personal[i]}
                      /\ ShareAt("upsert") \/ ShareAt("unlock")
                           => mirror'[proc[Worker].doc][i] = mirror[proc[Worker].doc][i] \/ personal'[i] = 0
    BY <1>0, IdleIs DEF CheckPath, content, ShareAt
  <1> QED
    BY <1>1, <1>2, <1>3, HonestFrame

LEMMA SweepHonest ==
    ASSUME Base, Base', Fresh, Sealed, Honest, JobsOnly, NEW t \in Threads, Sweep(t)
    PROVE  Honest'
  <1>0. /\ Worker \in Procs /\ Threads \subseteq Procs /\ Worker \notin Threads /\ t \in Procs
        /\ proc \in [Procs -> Locals] /\ lock \in [Docs -> Procs \cup {Free}]
        /\ mirror \in [Docs -> [Ix -> Versions \cup {0}]] /\ personal \in [Ix -> Versions \cup {0}]
        /\ tomb \in [Docs -> {"none", "partial", "resolved"}] /\ row.id \in Docs \cup {NoDoc}
    BY DEF Base, Manned, Stored, Procs
  <1>f. Fits(t, proc[t], born, tomb, wanted) /\ Fits(Worker, proc[Worker], born, tomb, wanted)
    BY <1>0 DEF Base, Manned
  <1>1. NoInlineDelete'
    BY <1>0, SweepAfter, IdleIs DEF Keeps, Changed, Ends, Honest, NoInlineDelete
  <1>2. \A s \in {"upsert", "unlock"} : ShareAt(s)' => ShareAt(s) /\ proc'[Worker] = proc[Worker]
    BY <1>0, SweepAfter, IdleIs DEF Keeps, Changed, Ends, ShareAt, Sweep, content, WipePath
  <1>3. \A i \in Ix : /\ personal'[i] \in {0, personal[i]}
                      /\ ShareAt("upsert") \/ ShareAt("unlock")
                           => mirror'[proc[Worker].doc][i] = mirror[proc[Worker].doc][i] \/ personal'[i] = 0
    BY <1>0, IdleIs DEF Sweep, content, WipePath, ShareAt
  <1> QED
    BY <1>1, <1>2, <1>3, HonestFrame

LEMMA StampHonest ==
    ASSUME Base, Base', Fresh, Sealed, Honest, JobsOnly, NEW t \in Threads, Stamp(t)
    PROVE  Honest'
  <1>0. /\ Worker \in Procs /\ Threads \subseteq Procs /\ Worker \notin Threads /\ t \in Procs
        /\ proc \in [Procs -> Locals] /\ lock \in [Docs -> Procs \cup {Free}]
        /\ mirror \in [Docs -> [Ix -> Versions \cup {0}]] /\ personal \in [Ix -> Versions \cup {0}]
        /\ tomb \in [Docs -> {"none", "partial", "resolved"}] /\ row.id \in Docs \cup {NoDoc}
    BY DEF Base, Manned, Stored, Procs
  <1>f. Fits(t, proc[t], born, tomb, wanted) /\ Fits(Worker, proc[Worker], born, tomb, wanted)
    BY <1>0 DEF Base, Manned
  <1>1. NoInlineDelete'
    BY <1>0, StampAfter, IdleIs DEF Keeps, Changed, Ends, Honest, NoInlineDelete
  <1>2. \A s \in {"upsert", "unlock"} : ShareAt(s)' => ShareAt(s) /\ proc'[Worker] = proc[Worker]
    BY <1>0, StampAfter, IdleIs DEF Keeps, Changed, Ends, ShareAt, Stamp, content
  <1>3. \A i \in Ix : /\ personal'[i] \in {0, personal[i]}
                      /\ ShareAt("upsert") \/ ShareAt("unlock")
                           => mirror'[proc[Worker].doc][i] = mirror[proc[Worker].doc][i] \/ personal'[i] = 0
    BY <1>0, IdleIs DEF Stamp, content, ShareAt
  <1> QED
    BY <1>1, <1>2, <1>3, HonestFrame

LEMMA VerifyHonest ==
    ASSUME Base, Base', Fresh, Sealed, Honest, JobsOnly, NEW t \in Threads, Verify(t)
    PROVE  Honest'
  <1>0. /\ Worker \in Procs /\ Threads \subseteq Procs /\ Worker \notin Threads /\ t \in Procs
        /\ proc \in [Procs -> Locals] /\ lock \in [Docs -> Procs \cup {Free}]
        /\ mirror \in [Docs -> [Ix -> Versions \cup {0}]] /\ personal \in [Ix -> Versions \cup {0}]
        /\ tomb \in [Docs -> {"none", "partial", "resolved"}] /\ row.id \in Docs \cup {NoDoc}
    BY DEF Base, Manned, Stored, Procs
  <1>f. Fits(t, proc[t], born, tomb, wanted) /\ Fits(Worker, proc[Worker], born, tomb, wanted)
    BY <1>0 DEF Base, Manned
  <1>1. NoInlineDelete'
    BY <1>0, VerifyAfter, IdleIs DEF Keeps, Changed, Ends, Honest, NoInlineDelete
  <1>2. \A s \in {"upsert", "unlock"} : ShareAt(s)' => ShareAt(s) /\ proc'[Worker] = proc[Worker]
    BY <1>0, VerifyAfter, IdleIs DEF Keeps, Changed, Ends, ShareAt, Verify, content
  <1>3. \A i \in Ix : /\ personal'[i] \in {0, personal[i]}
                      /\ ShareAt("upsert") \/ ShareAt("unlock")
                           => mirror'[proc[Worker].doc][i] = mirror[proc[Worker].doc][i] \/ personal'[i] = 0
    BY <1>0, IdleIs DEF Verify, content, ShareAt
  <1> QED
    BY <1>1, <1>2, <1>3, HonestFrame

LEMMA CompleteHonest ==
    ASSUME Base, Base', Fresh, Sealed, Honest, JobsOnly, Complete
    PROVE  Honest'
  <1>0. /\ Worker \in Procs /\ Threads \subseteq Procs /\ Worker \notin Threads /\ Worker \in Procs
        /\ proc \in [Procs -> Locals] /\ lock \in [Docs -> Procs \cup {Free}]
        /\ mirror \in [Docs -> [Ix -> Versions \cup {0}]] /\ personal \in [Ix -> Versions \cup {0}]
        /\ tomb \in [Docs -> {"none", "partial", "resolved"}] /\ row.id \in Docs \cup {NoDoc}
    BY DEF Base, Manned, Stored, Procs
  <1>f. Fits(Worker, proc[Worker], born, tomb, wanted) /\ Fits(Worker, proc[Worker], born, tomb, wanted)
    BY <1>0 DEF Base, Manned
  <1>1. NoInlineDelete'
    BY <1>0, CompleteAfter, IdleIs DEF Keeps, Changed, Ends, Honest, NoInlineDelete
  <1>2. \A s \in {"upsert", "unlock"} : ShareAt(s)' => ShareAt(s) /\ proc'[Worker] = proc[Worker]
    BY <1>0, CompleteAfter, IdleIs DEF Keeps, Changed, Ends, ShareAt, Complete, content
  <1>3. \A i \in Ix : /\ personal'[i] \in {0, personal[i]}
                      /\ ShareAt("upsert") \/ ShareAt("unlock")
                           => mirror'[proc[Worker].doc][i] = mirror[proc[Worker].doc][i] \/ personal'[i] = 0
    BY <1>0, IdleIs, CompleteAfter DEF Complete, content, ShareAt
  <1> QED
    BY <1>1, <1>2, <1>3, HonestFrame

LEMMA ReadSourceHonest ==
    ASSUME Base, Base', Fresh, Sealed, Honest, JobsOnly, ReadSource
    PROVE  Honest'
  <1>0. /\ Worker \in Procs /\ Threads \subseteq Procs /\ Worker \notin Threads /\ Worker \in Procs
        /\ proc \in [Procs -> Locals] /\ lock \in [Docs -> Procs \cup {Free}]
        /\ mirror \in [Docs -> [Ix -> Versions \cup {0}]] /\ personal \in [Ix -> Versions \cup {0}]
        /\ tomb \in [Docs -> {"none", "partial", "resolved"}] /\ row.id \in Docs \cup {NoDoc}
    BY DEF Base, Manned, Stored, Procs
  <1>f. Fits(Worker, proc[Worker], born, tomb, wanted) /\ Fits(Worker, proc[Worker], born, tomb, wanted)
    BY <1>0 DEF Base, Manned
  <1>1. NoInlineDelete'
    BY <1>0, ReadSourceAfter, IdleIs DEF Keeps, Changed, Ends, Honest, NoInlineDelete
  <1>2. \A s \in {"upsert", "unlock"} : ShareAt(s)' => ShareAt(s) /\ proc'[Worker] = proc[Worker]
    BY <1>0, ReadSourceAfter, IdleIs DEF Keeps, Changed, Ends, ShareAt, ReadSource, content
  <1>3. \A i \in Ix : /\ personal'[i] \in {0, personal[i]}
                      /\ ShareAt("upsert") \/ ShareAt("unlock")
                           => mirror'[proc[Worker].doc][i] = mirror[proc[Worker].doc][i] \/ personal'[i] = 0
    BY <1>0, IdleIs, ReadSourceAfter DEF ReadSource, content, ShareAt
  <1> QED
    BY <1>1, <1>2, <1>3, HonestFrame

LEMMA RecheckHonest ==
    ASSUME Base, Base', Fresh, Sealed, Honest, JobsOnly, Recheck
    PROVE  Honest'
  <1>0. /\ Worker \in Procs /\ Threads \subseteq Procs /\ Worker \notin Threads /\ Worker \in Procs
        /\ proc \in [Procs -> Locals] /\ lock \in [Docs -> Procs \cup {Free}]
        /\ mirror \in [Docs -> [Ix -> Versions \cup {0}]] /\ personal \in [Ix -> Versions \cup {0}]
        /\ tomb \in [Docs -> {"none", "partial", "resolved"}] /\ row.id \in Docs \cup {NoDoc}
    BY DEF Base, Manned, Stored, Procs
  <1>f. Fits(Worker, proc[Worker], born, tomb, wanted) /\ Fits(Worker, proc[Worker], born, tomb, wanted)
    BY <1>0 DEF Base, Manned
  <1>1. NoInlineDelete'
    BY <1>0, RecheckAfter, IdleIs DEF Keeps, Changed, Ends, Honest, NoInlineDelete
  <1>2. \A s \in {"upsert", "unlock"} : ShareAt(s)' => ShareAt(s) /\ proc'[Worker] = proc[Worker]
    BY <1>0, RecheckAfter DEF Keeps, Changed, ShareAt, Recheck, content
  <1>3. \A i \in Ix : /\ personal'[i] \in {0, personal[i]}
                      /\ ShareAt("upsert") \/ ShareAt("unlock")
                           => mirror'[proc[Worker].doc][i] = mirror[proc[Worker].doc][i] \/ personal'[i] = 0
    BY <1>0, IdleIs, RecheckAfter DEF Recheck, content, ShareAt
  <1> QED
    BY <1>1, <1>2, <1>3, HonestFrame

LEMMA HashHonest ==
    ASSUME Base, Base', Fresh, Sealed, Honest, JobsOnly, Hash
    PROVE  Honest'
  <1>0. /\ Worker \in Procs /\ Threads \subseteq Procs /\ Worker \notin Threads /\ Worker \in Procs
        /\ proc \in [Procs -> Locals] /\ lock \in [Docs -> Procs \cup {Free}]
        /\ mirror \in [Docs -> [Ix -> Versions \cup {0}]] /\ personal \in [Ix -> Versions \cup {0}]
        /\ tomb \in [Docs -> {"none", "partial", "resolved"}] /\ row.id \in Docs \cup {NoDoc}
    BY DEF Base, Manned, Stored, Procs
  <1>f. Fits(Worker, proc[Worker], born, tomb, wanted) /\ Fits(Worker, proc[Worker], born, tomb, wanted)
    BY <1>0 DEF Base, Manned
  <1>1. NoInlineDelete'
    BY <1>0, HashAfter, IdleIs DEF Keeps, Changed, Ends, Honest, NoInlineDelete
  <1>2. \A s \in {"upsert", "unlock"} : ShareAt(s)' => ShareAt(s) /\ proc'[Worker] = proc[Worker]
    BY <1>0, HashAfter, IdleIs DEF Keeps, Changed, Ends, ShareAt, Hash, content
  <1>3. \A i \in Ix : /\ personal'[i] \in {0, personal[i]}
                      /\ ShareAt("upsert") \/ ShareAt("unlock")
                           => mirror'[proc[Worker].doc][i] = mirror[proc[Worker].doc][i] \/ personal'[i] = 0
    BY <1>0, IdleIs, HashAfter DEF Hash, content, ShareAt
  <1> QED
    BY <1>1, <1>2, <1>3, HonestFrame

LEMMA WipeHonest ==
    ASSUME Base, Base', Fresh, Sealed, Honest, JobsOnly, Wipe
    PROVE  Honest'
  <1>0. /\ Worker \in Procs /\ Threads \subseteq Procs /\ Worker \notin Threads /\ Worker \in Procs
        /\ proc \in [Procs -> Locals] /\ lock \in [Docs -> Procs \cup {Free}]
        /\ mirror \in [Docs -> [Ix -> Versions \cup {0}]] /\ personal \in [Ix -> Versions \cup {0}]
        /\ tomb \in [Docs -> {"none", "partial", "resolved"}] /\ row.id \in Docs \cup {NoDoc}
    BY DEF Base, Manned, Stored, Procs
  <1>f. Fits(Worker, proc[Worker], born, tomb, wanted) /\ Fits(Worker, proc[Worker], born, tomb, wanted)
    BY <1>0 DEF Base, Manned
  <1>1. NoInlineDelete'
    BY <1>0, WipeAfter, IdleIs DEF Keeps, Changed, Ends, Honest, NoInlineDelete
  <1>2. proc'[Worker].pc = "write"
    BY WipeAfter DEF Changed
  <1> QED
    BY <1>1, <1>2 DEF Honest, FullyCopied, ShareAt

LEMMA WriteHonest ==
    ASSUME Base, Base', Fresh, Sealed, Honest, JobsOnly, Write
    PROVE  Honest'
  <1>0. /\ Worker \in Procs /\ Threads \subseteq Procs /\ Worker \notin Threads /\ Worker \in Procs
        /\ proc \in [Procs -> Locals] /\ lock \in [Docs -> Procs \cup {Free}]
        /\ mirror \in [Docs -> [Ix -> Versions \cup {0}]] /\ personal \in [Ix -> Versions \cup {0}]
        /\ tomb \in [Docs -> {"none", "partial", "resolved"}] /\ row.id \in Docs \cup {NoDoc}
    BY DEF Base, Manned, Stored, Procs
  <1>f. Fits(Worker, proc[Worker], born, tomb, wanted) /\ Fits(Worker, proc[Worker], born, tomb, wanted)
    BY <1>0 DEF Base, Manned
  <1>1. NoInlineDelete'
    BY <1>0, WriteAfter, IdleIs DEF Keeps, Changed, Ends, Honest, NoInlineDelete
  <1>2. proc'[Worker].pc \in {"write", "index"}
    BY WriteAfter DEF Changed, Keeps
  <1> QED
    BY <1>1, <1>2 DEF Honest, FullyCopied, ShareAt

LEMMA IndexHonest ==
    ASSUME Base, Base', Fresh, Sealed, Honest, JobsOnly, Index
    PROVE  Honest'
  <1>0. /\ Worker \in Procs /\ Threads \subseteq Procs /\ Worker \notin Threads /\ Worker \in Procs
        /\ proc \in [Procs -> Locals] /\ lock \in [Docs -> Procs \cup {Free}]
        /\ mirror \in [Docs -> [Ix -> Versions \cup {0}]] /\ personal \in [Ix -> Versions \cup {0}]
        /\ tomb \in [Docs -> {"none", "partial", "resolved"}] /\ row.id \in Docs \cup {NoDoc}
    BY DEF Base, Manned, Stored, Procs
  <1>f. Fits(Worker, proc[Worker], born, tomb, wanted) /\ Fits(Worker, proc[Worker], born, tomb, wanted)
    BY <1>0 DEF Base, Manned
  <1>1. NoInlineDelete'
    BY <1>0, IndexAfter, IdleIs DEF Keeps, Changed, Ends, Honest, NoInlineDelete
  <1>2. \A s \in {"upsert", "unlock"} : ShareAt(s)' => ShareAt(s) /\ proc'[Worker] = proc[Worker]
    BY <1>0, IndexAfter, IdleIs DEF Keeps, Changed, Ends, ShareAt, Index, content
  <1>3. \A i \in Ix : /\ personal'[i] \in {0, personal[i]}
                      /\ ShareAt("upsert") \/ ShareAt("unlock")
                           => mirror'[proc[Worker].doc][i] = mirror[proc[Worker].doc][i] \/ personal'[i] = 0
    BY IndexAfter DEF Index, ShareAt
  <1> QED
    BY <1>1, <1>2, <1>3, HonestFrame

LEMMA LookHonest ==
    ASSUME Base, Base', Fresh, Sealed, Honest, JobsOnly, Look
    PROVE  Honest'
  <1>0. /\ Worker \in Procs /\ Threads \subseteq Procs /\ Worker \notin Threads /\ Worker \in Procs
        /\ proc \in [Procs -> Locals] /\ lock \in [Docs -> Procs \cup {Free}]
        /\ mirror \in [Docs -> [Ix -> Versions \cup {0}]] /\ personal \in [Ix -> Versions \cup {0}]
        /\ tomb \in [Docs -> {"none", "partial", "resolved"}] /\ row.id \in Docs \cup {NoDoc}
    BY DEF Base, Manned, Stored, Procs
  <1>f. Fits(Worker, proc[Worker], born, tomb, wanted) /\ Fits(Worker, proc[Worker], born, tomb, wanted)
    BY <1>0 DEF Base, Manned
  <1>1. NoInlineDelete'
    BY <1>0, LookAfter, IdleIs DEF Keeps, Changed, Ends, Honest, NoInlineDelete
  <1>2. \A s \in {"upsert", "unlock"} : ShareAt(s)' => ShareAt(s) /\ proc'[Worker] = proc[Worker]
    BY <1>0, LookAfter, IdleIs DEF Keeps, Changed, Ends, ShareAt, Look, content
  <1>3. \A i \in Ix : /\ personal'[i] \in {0, personal[i]}
                      /\ ShareAt("upsert") \/ ShareAt("unlock")
                           => mirror'[proc[Worker].doc][i] = mirror[proc[Worker].doc][i] \/ personal'[i] = 0
    BY <1>0, IdleIs, LookAfter DEF Look, content, ShareAt
  <1> QED
    BY <1>1, <1>2, <1>3, HonestFrame

LEMMA AcquireHonest ==
    ASSUME Base, Base', Fresh, Sealed, Honest, JobsOnly, NEW p \in Procs, Acquire(p)
    PROVE  Honest'
  <1>0. /\ Worker \in Procs /\ Threads \subseteq Procs /\ Worker \notin Threads /\ p \in Procs
        /\ proc \in [Procs -> Locals] /\ lock \in [Docs -> Procs \cup {Free}]
        /\ mirror \in [Docs -> [Ix -> Versions \cup {0}]] /\ personal \in [Ix -> Versions \cup {0}]
        /\ tomb \in [Docs -> {"none", "partial", "resolved"}] /\ row.id \in Docs \cup {NoDoc}
    BY DEF Base, Manned, Stored, Procs
  <1>f. Fits(p, proc[p], born, tomb, wanted) /\ Fits(Worker, proc[Worker], born, tomb, wanted)
    BY <1>0 DEF Base, Manned
  <1>1. NoInlineDelete'
    BY <1>0, AcquireAfter, IdleIs DEF Keeps, Changed, Ends, Honest, NoInlineDelete
  <1>2. \A s \in {"upsert", "unlock"} : ShareAt(s)' => ShareAt(s) /\ proc'[Worker] = proc[Worker]
    BY <1>0, AcquireAfter, IdleIs DEF Keeps, Changed, Ends, ShareAt, Acquire, content
  <1>3. \A i \in Ix : /\ personal'[i] \in {0, personal[i]}
                      /\ ShareAt("upsert") \/ ShareAt("unlock")
                           => mirror'[proc[Worker].doc][i] = mirror[proc[Worker].doc][i] \/ personal'[i] = 0
    BY <1>0, IdleIs DEF Acquire, content, ShareAt
  <1> QED
    BY <1>1, <1>2, <1>3, HonestFrame

LEMMA UnlockHonest ==
    ASSUME Base, Base', Fresh, Sealed, Honest, JobsOnly, NEW p \in Procs, Unlock(p)
    PROVE  Honest'
  <1>0. /\ Worker \in Procs /\ Threads \subseteq Procs /\ Worker \notin Threads /\ p \in Procs
        /\ proc \in [Procs -> Locals] /\ lock \in [Docs -> Procs \cup {Free}]
        /\ mirror \in [Docs -> [Ix -> Versions \cup {0}]] /\ personal \in [Ix -> Versions \cup {0}]
        /\ tomb \in [Docs -> {"none", "partial", "resolved"}] /\ row.id \in Docs \cup {NoDoc}
    BY DEF Base, Manned, Stored, Procs
  <1>f. Fits(p, proc[p], born, tomb, wanted) /\ Fits(Worker, proc[Worker], born, tomb, wanted)
    BY <1>0 DEF Base, Manned
  <1>1. NoInlineDelete'
    BY <1>0, UnlockAfter, IdleIs DEF Keeps, Changed, Ends, Honest, NoInlineDelete
  <1>2. \A s \in {"upsert", "unlock"} : ShareAt(s)' => ShareAt(s) /\ proc'[Worker] = proc[Worker]
    BY <1>0, UnlockAfter, IdleIs DEF Keeps, Changed, Ends, ShareAt, Unlock, content
  <1>3. \A i \in Ix : /\ personal'[i] \in {0, personal[i]}
                      /\ ShareAt("upsert") \/ ShareAt("unlock")
                           => mirror'[proc[Worker].doc][i] = mirror[proc[Worker].doc][i] \/ personal'[i] = 0
    BY <1>0, IdleIs DEF Unlock, content, ShareAt
  <1> QED
    BY <1>1, <1>2, <1>3, HonestFrame

LEMMA InsertSharedHonest ==
    ASSUME Base, Base', Fresh, Sealed, Honest, JobsOnly, NEW p \in Procs, InsertShared(p)
    PROVE  Honest'
  <1>0. /\ Worker \in Procs /\ Threads \subseteq Procs /\ Worker \notin Threads /\ p \in Procs
        /\ proc \in [Procs -> Locals] /\ lock \in [Docs -> Procs \cup {Free}]
        /\ mirror \in [Docs -> [Ix -> Versions \cup {0}]] /\ personal \in [Ix -> Versions \cup {0}]
        /\ tomb \in [Docs -> {"none", "partial", "resolved"}] /\ row.id \in Docs \cup {NoDoc}
    BY DEF Base, Manned, Stored, Procs
  <1>f. Fits(p, proc[p], born, tomb, wanted) /\ Fits(Worker, proc[Worker], born, tomb, wanted)
    BY <1>0 DEF Base, Manned
  <1>1. NoInlineDelete'
    BY <1>0, InsertSharedAfter, IdleIs DEF Keeps, Changed, Ends, Honest, NoInlineDelete
  <1>2. \A s \in {"upsert", "unlock"} : ShareAt(s)' => ShareAt(s) /\ proc'[Worker] = proc[Worker]
    BY <1>0, InsertSharedAfter, IdleIs DEF Keeps, Changed, Ends, ShareAt, InsertShared, content
  <1>3. \A i \in Ix : /\ personal'[i] \in {0, personal[i]}
                      /\ ShareAt("upsert") \/ ShareAt("unlock")
                           => mirror'[proc[Worker].doc][i] = mirror[proc[Worker].doc][i] \/ personal'[i] = 0
    BY <1>0, IdleIs DEF InsertShared, content, ShareAt
  <1> QED
    BY <1>1, <1>2, <1>3, HonestFrame

LEMMA DeleteSharedHonest ==
    ASSUME Base, Base', Fresh, Sealed, Honest, JobsOnly, NEW p \in Procs, DeleteShared(p)
    PROVE  Honest'
  <1>0. /\ Worker \in Procs /\ Threads \subseteq Procs /\ Worker \notin Threads /\ p \in Procs
        /\ proc \in [Procs -> Locals] /\ lock \in [Docs -> Procs \cup {Free}]
        /\ mirror \in [Docs -> [Ix -> Versions \cup {0}]] /\ personal \in [Ix -> Versions \cup {0}]
        /\ tomb \in [Docs -> {"none", "partial", "resolved"}] /\ row.id \in Docs \cup {NoDoc}
    BY DEF Base, Manned, Stored, Procs
  <1>f. Fits(p, proc[p], born, tomb, wanted) /\ Fits(Worker, proc[Worker], born, tomb, wanted)
    BY <1>0 DEF Base, Manned
  <1>1. NoInlineDelete'
    BY <1>0, DeleteSharedAfter, IdleIs DEF Keeps, Changed, Ends, Honest, NoInlineDelete
  <1>2. \A s \in {"upsert", "unlock"} : ShareAt(s)' => ShareAt(s) /\ proc'[Worker] = proc[Worker]
    BY <1>0, DeleteSharedAfter, IdleIs DEF Keeps, Changed, Ends, ShareAt, DeleteShared, content
  <1>3. \A i \in Ix : /\ personal'[i] \in {0, personal[i]}
                      /\ ShareAt("upsert") \/ ShareAt("unlock")
                           => mirror'[proc[Worker].doc][i] = mirror[proc[Worker].doc][i] \/ personal'[i] = 0
    BY <1>0, IdleIs DEF DeleteShared, content, ShareAt
  <1> QED
    BY <1>1, <1>2, <1>3, HonestFrame

LEMMA ClearHonest ==
    ASSUME Base, Base', Fresh, Sealed, Honest, JobsOnly, NEW p \in Procs, Clear(p)
    PROVE  Honest'
  <1>0. /\ Worker \in Procs /\ Threads \subseteq Procs /\ Worker \notin Threads /\ p \in Procs
        /\ proc \in [Procs -> Locals] /\ lock \in [Docs -> Procs \cup {Free}]
        /\ mirror \in [Docs -> [Ix -> Versions \cup {0}]] /\ personal \in [Ix -> Versions \cup {0}]
        /\ tomb \in [Docs -> {"none", "partial", "resolved"}] /\ row.id \in Docs \cup {NoDoc}
    BY DEF Base, Manned, Stored, Procs
  <1>f. Fits(p, proc[p], born, tomb, wanted) /\ Fits(Worker, proc[Worker], born, tomb, wanted)
    BY <1>0 DEF Base, Manned
  <1>1. NoInlineDelete'
    BY <1>0, ClearAfter, IdleIs DEF Keeps, Changed, Ends, Honest, NoInlineDelete
  <1>2. \A s \in {"upsert", "unlock"} : ShareAt(s)' => ShareAt(s) /\ proc'[Worker] = proc[Worker]
    BY ZenonT(60), <1>0, ClearAfter, IdleIs DEF Keeps, Changed, Ends, ShareAt, Clear, content
  <1>3. \A i \in Ix : /\ personal'[i] \in {0, personal[i]}
                      /\ ShareAt("upsert") \/ ShareAt("unlock")
                           => mirror'[proc[Worker].doc][i] = mirror[proc[Worker].doc][i] \/ personal'[i] = 0
    <2>1. UNCHANGED personal
      BY DEF Clear
    <2>2. ASSUME ShareAt("upsert") \/ ShareAt("unlock")
          PROVE  proc[p].doc # proc[Worker].doc /\ proc[p].doc \in Docs /\ proc[Worker].doc \in Docs
      <3>1. p # Worker /\ proc[p].op \in LockOps /\ proc[p].pc = "clear"
        BY <1>0, <1>f, <2>2, ClearAfter DEF ShareAt, Fits, Legal, LockOps, OpNames, Honest, NoInlineDelete,
           Fresh, NoPublish
      <3>2. lock[proc[p].doc] = p /\ lock[proc[Worker].doc] = Worker
        BY <1>0, <2>2, <3>1 DEF Sealed, Held, HasIt, LockOps, InLock, ShareAt
      <3>3. proc[p].doc \in Docs /\ proc[Worker].doc \in Docs
        BY <1>f, <2>2, <3>1, ClearAfter DEF Fits, Legal, ShareAt
      <3> QED
        BY <3>1, <3>2, <3>3
    <2> QED
      BY <1>0, <2>1, <2>2 DEF Clear
  <1> QED
    BY <1>1, <1>2, <1>3, HonestFrame

LEMMA ScrollHonest ==
    ASSUME Base, Base', Fresh, Sealed, Honest, JobsOnly, NEW p \in Procs, Scroll(p)
    PROVE  Honest'
  <1>0. /\ Worker \in Procs /\ Threads \subseteq Procs /\ Worker \notin Threads /\ p \in Procs
        /\ proc \in [Procs -> Locals] /\ lock \in [Docs -> Procs \cup {Free}]
        /\ mirror \in [Docs -> [Ix -> Versions \cup {0}]] /\ personal \in [Ix -> Versions \cup {0}]
        /\ tomb \in [Docs -> {"none", "partial", "resolved"}] /\ row.id \in Docs \cup {NoDoc}
    BY DEF Base, Manned, Stored, Procs
  <1>f. Fits(p, proc[p], born, tomb, wanted) /\ Fits(Worker, proc[Worker], born, tomb, wanted)
    BY <1>0 DEF Base, Manned
  <1>1. NoInlineDelete'
    BY <1>0, ScrollAfter, IdleIs DEF Keeps, Changed, Ends, Honest, NoInlineDelete
  <1>2. p = Worker /\ UNCHANGED <<row, personal, mirror>>
    BY <1>0, <1>f, ScrollAfter DEF Fits, Fresh, NoPublish, Procs, Scroll, content
  <1>3. proc'[Worker].pc = "upsert" /\ proc'[Worker].todo = personal
    BY <1>2, ScrollAfter DEF Changed
  <1> QED
    BY <1>1, <1>2, <1>3 DEF Honest, FullyCopied, ShareAt, Copied

LEMMA UpsertHonest ==
    ASSUME Base, Base', Fresh, Sealed, Honest, JobsOnly, NEW p \in Procs, Upsert(p)
    PROVE  Honest'
  <1>0. /\ Worker \in Procs /\ Threads \subseteq Procs /\ Worker \notin Threads /\ p \in Procs
        /\ proc \in [Procs -> Locals] /\ lock \in [Docs -> Procs \cup {Free}]
        /\ mirror \in [Docs -> [Ix -> Versions \cup {0}]] /\ personal \in [Ix -> Versions \cup {0}]
        /\ tomb \in [Docs -> {"none", "partial", "resolved"}] /\ row.id \in Docs \cup {NoDoc}
    BY DEF Base, Manned, Stored, Procs
  <1>f. Fits(p, proc[p], born, tomb, wanted) /\ Fits(Worker, proc[Worker], born, tomb, wanted)
    BY <1>0 DEF Base, Manned
  <1>1. NoInlineDelete'
    BY <1>0, UpsertAfter, IdleIs DEF Keeps, Changed, Ends, Honest, NoInlineDelete
  <1>2. p = Worker /\ UNCHANGED <<row, personal>> /\ proc[Worker].doc \in Docs /\ proc[Worker].pc = "upsert"
        /\ proc[Worker].todo \in [Ix -> Versions \cup {0}]
    BY <1>0, <1>f, UpsertAfter DEF Fits, Legal, Fresh, NoPublish, Procs, Upsert, Locals
  <1>3. CASE UNCHANGED mirror /\ proc[p].todo = NoChunks /\ Keeps(p, "unlock")
    <2>1. \A i \in Ix : proc[Worker].todo[i] = 0
      BY <1>2, <1>3, IdleIs
    <2>2. proc'[Worker].pc = "unlock" /\ proc'[Worker].op = proc[Worker].op
          /\ proc'[Worker].doc = proc[Worker].doc /\ proc'[Worker].clean = proc[Worker].clean
      BY <1>2, <1>3 DEF Keeps, Changed
    <2>3. ShareAt("unlock")' => \A i \in Ix : Copied(i)
      BY <1>2, <2>1, <2>2 DEF Honest, FullyCopied, ShareAt
    <2>4. \A i \in Ix : Copied(i) => Copied(i)'
      BY <1>2, <1>3, <2>2 DEF Copied
    <2>5. FullyCopied'
      BY <2>2, <2>3, <2>4 DEF FullyCopied, ShareAt
    <2> QED
      BY <1>1, <2>5 DEF Honest
  <1>4. ASSUME NEW i \in Ix, proc[p].todo[i] # 0, mirror' = [mirror EXCEPT ![proc[p].doc][i] = proc[p].todo[i]],
               Changed(p, "upsert", proc[p].doc, [proc[p].todo EXCEPT ![i] = 0], proc[p].clean, proc[p].path)
        PROVE  Honest'
    <2> SUFFICES ASSUME NEW k \in Ix, ShareAt("upsert")', proc'[Worker].todo[k] = 0 PROVE Copied(k)'
      BY <1>1, <1>2, <1>4 DEF Honest, FullyCopied, ShareAt, Changed
    <2>1. ShareAt("upsert") /\ proc'[Worker].doc = proc[Worker].doc
      BY <1>2, <1>4 DEF ShareAt, Changed
    <2>2. CASE k = i
      <3>1. mirror'[proc[Worker].doc][i] = proc[Worker].todo[i]
        BY <1>0, <1>2, <1>4
      <3>2. personal[i] # 0 => proc[Worker].todo[i] = personal[i]
        BY <1>2, <1>4 DEF Fresh, Copying, At
      <3> QED
        BY <1>2, <2>1, <2>2, <3>1, <3>2 DEF Copied
    <2>3. CASE k # i
      <3>1. proc[Worker].todo[k] = 0 /\ mirror'[proc[Worker].doc][k] = mirror[proc[Worker].doc][k]
        BY <1>0, <1>2, <1>4, <2>3 DEF Changed
      <3>2. Copied(k)
        BY <2>1, <3>1 DEF Honest, FullyCopied, ShareAt, Copied
      <3> QED
        BY <1>2, <2>1, <3>1, <3>2 DEF Copied
    <2> QED
      BY <2>2, <2>3
  <1>5. ASSUME NEW i \in Ix,
               Changed(p, "upsert", proc[p].doc, [proc[p].todo EXCEPT ![i] = 0], FALSE, proc[p].path)
        PROVE  Honest'
    BY <1>1, <1>2, <1>5 DEF Honest, FullyCopied, ShareAt, Changed
  <1> QED
    BY <1>0, <1>2, <1>3, <1>4, <1>5, UpsertAfter DEF Fresh, NoPublish

LEMMA AbortsHonest ==
    ASSUME Base, Base', Fresh, Sealed, Honest, JobsOnly, NEW p \in Procs, Aborts(p), UNCHANGED content
    PROVE  Honest'
  <1>0. /\ Worker \in Procs /\ Threads \subseteq Procs /\ Worker \notin Threads /\ p \in Procs
        /\ proc \in [Procs -> Locals] /\ lock \in [Docs -> Procs \cup {Free}]
        /\ mirror \in [Docs -> [Ix -> Versions \cup {0}]] /\ personal \in [Ix -> Versions \cup {0}]
        /\ tomb \in [Docs -> {"none", "partial", "resolved"}] /\ row.id \in Docs \cup {NoDoc}
    BY DEF Base, Manned, Stored, Procs
  <1>f. Fits(p, proc[p], born, tomb, wanted) /\ Fits(Worker, proc[Worker], born, tomb, wanted)
    BY <1>0 DEF Base, Manned
  <1>1. NoInlineDelete'
    BY <1>0, AbortsAfter, IdleIs DEF Keeps, Changed, Ends, Honest, NoInlineDelete
  <1>2. \A s \in {"upsert", "unlock"} : ShareAt(s)' => ShareAt(s) /\ proc'[Worker] = proc[Worker]
    <2>1. CASE Reprojecting(p) /\ Keeps(p, "unlock")
      BY <1>0, <2>1 DEF Reprojecting, Keeps, Changed, ShareAt, content
    <2>2. CASE Ends(p)
      BY <1>0, <2>2, IdleIs DEF Ends, ShareAt, content
    <2>3. CASE Changed(p, "stamp", proc[p].doc, proc[p].todo, FALSE, proc[p].path)
      BY <1>0, <2>3 DEF Changed, ShareAt, content
    <2> QED
      BY <2>1, <2>2, <2>3, AbortsAfter
  <1>3. \A i \in Ix : /\ personal'[i] \in {0, personal[i]}
                      /\ ShareAt("upsert") \/ ShareAt("unlock")
                           => mirror'[proc[Worker].doc][i] = mirror[proc[Worker].doc][i] \/ personal'[i] = 0
    BY <1>0, IdleIs DEF content, ShareAt
  <1> QED
    BY <1>1, <1>2, <1>3, HonestFrame

LEMMA ClaimHonest ==
    ASSUME Base, Base', Fresh, Sealed, Honest, JobsOnly, Claim
    PROVE  Honest'
  <1>0. /\ Worker \in Procs /\ Threads \subseteq Procs /\ Worker \notin Threads /\ Worker \in Procs
        /\ proc \in [Procs -> Locals] /\ lock \in [Docs -> Procs \cup {Free}]
        /\ mirror \in [Docs -> [Ix -> Versions \cup {0}]] /\ personal \in [Ix -> Versions \cup {0}]
        /\ tomb \in [Docs -> {"none", "partial", "resolved"}] /\ row.id \in Docs \cup {NoDoc}
    BY DEF Base, Manned, Stored, Procs
  <1>f. Fits(Worker, proc[Worker], born, tomb, wanted) /\ Fits(Worker, proc[Worker], born, tomb, wanted)
    BY <1>0 DEF Base, Manned
  <1>1. NoInlineDelete'
    BY <1>0, ClaimDoes, IdleIs DEF Put, Honest, NoInlineDelete
  <1>2. \A s \in {"upsert", "unlock"} : ShareAt(s)' => ShareAt(s) /\ proc'[Worker] = proc[Worker]
    BY <1>0, ClaimDoes, IdleIs DEF Put, ShareAt, Claim, content
  <1>3. \A i \in Ix : /\ personal'[i] \in {0, personal[i]}
                      /\ ShareAt("upsert") \/ ShareAt("unlock")
                           => mirror'[proc[Worker].doc][i] = mirror[proc[Worker].doc][i] \/ personal'[i] = 0
    BY <1>0, IdleIs, ClaimDoes DEF Claim, content, ShareAt
  <1> QED
    BY <1>1, <1>2, <1>3, HonestFrame

LEMMA RequestHonest ==
    ASSUME Base, Base', Fresh, Sealed, Honest, JobsOnly, NEW t \in Threads, 
           \/ \E k \in {"share", "unshare"} : RequestToggle(t, k)
           \/ RequestPublish(t) \/ RequestUnpublish(t)
           \/ \E d \in Docs : RequestAdmin(t, d) \/ RequestPurge(t, d)
    PROVE  Honest'
  <1>1. /\ Worker \in Procs /\ Threads \subseteq Procs /\ Worker \notin Threads
        /\ proc \in [Procs -> Locals] /\ UNCHANGED content
    BY RequestDoes DEF Base, Manned, Procs
  <1>2. proc'[Worker] = proc[Worker]
    BY <1>1, RequestDoes DEF Put
  <1>3. NoInlineDelete'
    BY <1>1, RequestDoes DEF Put, JobsOnly, Honest, NoInlineDelete
  <1> QED
    BY <1>1, <1>2, <1>3, HonestFrame DEF content, ShareAt

LEMMA OtherHonest ==
    ASSUME Base, Base', Fresh, Sealed, Honest, JobsOnly, 
           \/ RequestIngest \/ Crash
           \/ \E t \in Threads : EnqueueToggle(t)
           \/ \E j \in DOMAIN jobs : BackoffElapses(j)
           \/ UNCHANGED vars
    PROVE  Honest'
  <1>1. /\ Worker \in Procs /\ UNCHANGED content
    BY DEF Procs, RequestIngest, Crash, EnqueueToggle, BackoffElapses, vars
  <1>2. \A q \in Procs : proc'[q] = proc[q] \/ proc'[q] = Idle
    BY DEF Base, Manned, RequestIngest, Crash, EnqueueToggle, BackoffElapses, vars
  <1>3. NoInlineDelete'
    BY <1>2, IdleIs DEF Honest, NoInlineDelete
  <1> QED
    BY <1>1, <1>2, <1>3, IdleIs, HonestFrame DEF content, ShareAt

LEMMA NextHonest ==
    ASSUME Base, Base', Honest, Fresh, Sealed, JobsOnly, [Next]_vars
    PROVE  Honest'
  <1>1. ASSUME NEW t \in Threads, ThreadStep(t) PROVE Honest'
    <2>1. CASE EnqueueToggle(t)
      BY <2>1, OtherHonest
    <2> QED
      BY <1>1, <2>1, RemoveHonest, CheckPathHonest, SweepHonest, StampHonest, VerifyHonest DEF ThreadStep
  <1>2. ASSUME WorkerStep PROVE Honest'
    BY <1>2, ClaimHonest, CompleteHonest, ReadSourceHonest, RecheckHonest, HashHonest, WipeHonest, WriteHonest,
       IndexHonest, LookHonest DEF WorkerStep
  <1>3. ASSUME NEW p \in Procs, CommonStep(p) PROVE Honest'
    <2>1. CASE Raise(p) \/ ForeignKeyFails(p)
      BY <2>1, AbortsHonest DEF Raise, ForeignKeyFails
    <2> QED
      BY <1>3, <2>1, AcquireHonest, UnlockHonest, InsertSharedHonest, DeleteSharedHonest, ClearHonest,
         ScrollHonest,
         UpsertHonest DEF CommonStep
  <1>4. ASSUME NEW t \in Threads,
               \/ \E k \in {"share", "unshare"} : RequestToggle(t, k)
               \/ RequestPublish(t) \/ RequestUnpublish(t)
               \/ \E d \in Docs : RequestAdmin(t, d) \/ RequestPurge(t, d)
        PROVE  Honest'
    BY <1>4, RequestHonest
  <1> QED
    BY <1>1, <1>2, <1>3, <1>4, OtherHonest DEF Next

\* A share that ends without a failed chunk has copied every chunk the owner
\* has by then, whatever was purged, failed or crashed before.
THEOREM HonestShares == ASSUME JobsOnly PROVE Spec => []HonestShare
  <1>1. Init => Honest
    BY IdleIs DEF Init, Honest, NoInlineDelete, FullyCopied, ShareAt, Procs
  <1>2. Base /\ Base' /\ Fresh /\ Sealed /\ Honest /\ [Next]_vars => Honest'
    BY NextHonest
  <1>3. Honest => HonestShare
    BY DEF Honest, FullyCopied, Copied, ShareAt, HonestShare, SharedCleanly, At
  <1> QED
    BY SealedHolds, <1>1, <1>2, <1>3, PTL DEF Spec, JobsOnly

-----------------------------------------------------------------------------
(***************************************************************************)
(* The last request wins, while no job was retried: then jobs are done in   *)
(* the order they were asked for.  The lock is not needed, but the routes   *)
(* that bypass the jobs must be left alone.                                 *)
(***************************************************************************)
NoRequests == {"publish", "unpublish", "admin"} \cap Requests = {}

Toggles == {"share", "unshare"}
ToggleOf(j, d) == jobs[j].kind \in Toggles /\ jobs[j].doc = d
Latest(j, d) == ToggleOf(j, d) /\ \A i \in DOMAIN jobs : ToggleOf(i, d) => i <= j
HasJob(j) == proc[Worker].op # "none" /\ proc[Worker].job = j

\* Jobs are done in the order of their ids, and the worker runs the next one.
Lined == \A j \in DOMAIN jobs :
  /\ jobs[j].status # "dead" /\ (jobs[j].status = "pending" => jobs[j].due)
  /\ jobs[j].status = "running" <=> HasJob(j)
  /\ jobs[j].status # "done" => \A i \in DOMAIN jobs : i > j => jobs[i].status = "pending"

AtJob == proc[Worker].op # "none" =>
  /\ proc[Worker].job \in DOMAIN jobs /\ jobs[proc[Worker].job].kind = proc[Worker].op
  /\ proc[Worker].op \in Toggles => jobs[proc[Worker].job].doc = proc[Worker].doc

\* What the job at hand has done to the row.
Applied == proc[Worker].op \in Toggles /\ row.id = proc[Worker].doc
           /\ proc[Worker].pc \in {"clear", "scroll", "upsert", "unlock", "complete"}
             => (proc[Worker].doc \in shared <=> proc[Worker].op = "share")

AsAsked(d) == row.id = d /\ wanted[d] # "none" => (d \in shared <=> wanted[d] = "share")

\* The latest request is in the queue or has been carried out.
Asked   == \A d \in Docs, j \in DOMAIN jobs :
             Latest(j, d) /\ jobs[j].status # "done" => wanted[d] = jobs[j].kind
Reached == \A d \in Docs :
             (\A j \in DOMAIN jobs : ToggleOf(j, d) => jobs[j].status = "done") => AsAsked(d)

NoRoutes == \A p \in Procs : proc[p].op \notin {"publish", "unpublish", "admin"}
Ordered  == NoRoutes /\ (Undisturbed => Lined /\ AtJob /\ Applied /\ Asked /\ Reached)

WorkerSame == /\ proc'[Worker].op = proc[Worker].op /\ proc'[Worker].job = proc[Worker].job
              /\ proc[Worker].op \in Toggles => proc'[Worker].doc = proc[Worker].doc

\* A document is as it was asked for still, or the worker is about it.
Still(d) == row'.id = d /\ wanted[d] # "none" =>
              \/ row.id = d /\ (d \in shared' <=> d \in shared)
              \/ proc[Worker].op \in Toggles /\ proc[Worker].doc = d

\* Steps between the claim of a job and its end.
LEMMA OrderedFrame ==
    ASSUME Base, Ordered, NoRoutes', jobs' = jobs, wanted' = wanted, WorkerSame,
           Undisturbed => Applied', \A d \in Docs : Still(d)
    PROVE  Ordered'
  <1> SUFFICES ASSUME Undisturbed' PROVE (Lined /\ AtJob /\ Applied /\ Asked /\ Reached)'
    BY DEF Ordered
  <1>1. Undisturbed /\ Lined /\ AtJob /\ Applied /\ Asked /\ Reached
    BY DEF Ordered, Undisturbed
  <1>2. Lined'
    BY <1>1 DEF Lined, HasJob, WorkerSame
  <1>3. AtJob'
    BY <1>1 DEF AtJob, WorkerSame
  <1>4. Asked'
    BY <1>1 DEF Asked, Latest, ToggleOf
  <1>5. Reached'
    <2> SUFFICES ASSUME NEW d \in Docs, \A j \in DOMAIN jobs : ToggleOf(j, d) => jobs[j].status = "done",
                        row'.id = d, wanted[d] # "none"
                 PROVE  d \in shared' <=> wanted[d] = "share"
      BY DEF Reached, AsAsked, ToggleOf
    <2>1. ~(proc[Worker].op \in Toggles /\ proc[Worker].doc = d)
      BY <1>1 DEF AtJob, Lined, HasJob, ToggleOf, Toggles
    <2> QED
      BY <1>1, <2>1 DEF Still, Reached, AsAsked
  <1> QED
    BY <1>1, <1>2, <1>3, <1>4, <1>5

\* What the threads do: a purge may take the row, and with it the shared row.
LEMMA ThreadFrame ==
    ASSUME Base, Ordered, NoRoutes', jobs' = jobs, wanted' = wanted, proc'[Worker] = proc[Worker],
           \/ row' = row /\ shared' = shared
           \/ row'.id = NoDoc
           \/ row' = row /\ \E d \in Docs : d # row.id /\ shared' = shared \ {d}
    PROVE  Ordered'
  <1>0. /\ Worker \in Procs /\ Threads \subseteq Procs /\ Worker \notin Threads /\ jobs \in Seq(Jobs)
        /\ proc \in [Procs -> Locals] /\ wanted \in [Docs -> {"none", "share", "unshare"}]
        /\ Fits(Worker, proc[Worker], born, tomb, wanted)
    BY DEF Base, Manned, Stored, Procs
  <1>1. WorkerSame
    BY DEF WorkerSame
  <1>2. \A d \in Docs : Still(d)
    BY DEF Still, Docs, NoDoc
  <1>3. Undisturbed => Applied'
    <2>1. proc[Worker].op \in Toggles => proc[Worker].doc \in Docs /\ proc[Worker].doc # NoDoc
      BY <1>0 DEF Fits, Toggles, Docs, NoDoc
    <2> QED
      BY <2>1 DEF Ordered, Applied
  <1> QED
    BY <1>1, <1>2, <1>3, OrderedFrame

\* The threads leave the worker and the jobs alone.
LEMMA ThreadsApart ==
    ASSUME Base, NEW t \in Threads,
           Remove(t) \/ CheckPath(t) \/ Sweep(t) \/ Stamp(t) \/ Verify(t) \/ CommonStep(t)
    PROVE  /\ proc'[Worker] = proc[Worker] /\ (proc'[t].op = proc[t].op \/ proc'[t] = Idle)
           /\ \A q \in Procs : q # t => proc'[q] = proc[q]
           /\ jobs' = jobs
  <1>0. Worker \in Procs /\ Threads \subseteq Procs /\ Worker \notin Threads /\ t \in Procs /\ t # Worker
        /\ proc \in [Procs -> Locals]
    BY DEF Base, Manned, Procs
  <1>1. Fits(t, proc[t], born, tomb, wanted)
    BY <1>0 DEF Base, Manned
  <1>2. proc'[Worker] = proc[Worker] /\ (proc'[t].op = proc[t].op \/ proc'[t] = Idle)
        /\ \A q \in Procs : q # t => proc'[q] = proc[q]
    <2>1. CASE Remove(t) \/ CheckPath(t) \/ Sweep(t) \/ Stamp(t) \/ Verify(t)
      BY <1>0, <1>1, <2>1, RemoveAfter, CheckPathAfter, SweepAfter, StampAfter, VerifyAfter DEF Keeps, Changed, Ends
    <2>2. CASE Acquire(t) \/ Unlock(t) \/ InsertShared(t) \/ DeleteShared(t) \/ Clear(t)
      BY <1>0, <1>1, <2>2, AcquireAfter, UnlockAfter, InsertSharedAfter, DeleteSharedAfter, ClearAfter
         DEF Keeps, Changed, Ends
    <2>3. CASE Scroll(t) \/ Upsert(t)
      BY <1>0, <1>1, <2>3, ScrollAfter, UpsertAfter DEF Keeps, Changed, Ends
    <2>4. CASE Raise(t) \/ ForeignKeyFails(t)
      <3>1. Aborts(t)
        BY <2>4 DEF Raise, ForeignKeyFails
      <3> QED
        BY <1>0, <1>1, <3>1, AbortsAfter DEF Keeps, Changed, Ends
    <2> QED
      BY <2>1, <2>2, <2>3, <2>4 DEF CommonStep
  <1>3. jobs' = jobs
    BY <1>0 DEF Remove, CheckPath, Sweep, Stamp, Verify, CommonStep, Acquire, Unlock, InsertShared,
       DeleteShared, Clear, Scroll, Upsert, Raise, ForeignKeyFails, Aborts, counts
  <1> QED
    BY <1>2, <1>3

LEMMA ThreadOrdered ==
    ASSUME Base, Ordered, NEW t \in Threads,
           Remove(t) \/ CheckPath(t) \/ Sweep(t) \/ Stamp(t) \/ Verify(t) \/ CommonStep(t)
    PROVE  Ordered'
  <1>0. /\ Worker \in Procs /\ Threads \subseteq Procs /\ Worker \notin Threads /\ jobs \in Seq(Jobs)
        /\ proc \in [Procs -> Locals] /\ wanted \in [Docs -> {"none", "share", "unshare"}]
        /\ Fits(Worker, proc[Worker], born, tomb, wanted)
    BY DEF Base, Manned, Stored, Procs
  <1>1. t \in Procs /\ t # Worker /\ Fits(t, proc[t], born, tomb, wanted) /\ proc[t].op \notin {"publish", "unpublish", "admin"}
    BY <1>0 DEF Base, Manned, Ordered, NoRoutes
  <1>2. proc'[Worker] = proc[Worker] /\ (proc'[t].op = proc[t].op \/ proc'[t] = Idle)
        /\ \A q \in Procs : q # t => proc'[q] = proc[q]
    BY ThreadsApart
  <1>3. NoRoutes'
    BY <1>2, IdleIs DEF Ordered, NoRoutes
  <1>4. jobs' = jobs /\ wanted' = wanted
    BY <1>1 DEF Remove, CheckPath, Sweep, Stamp, Verify, CommonStep, Acquire, Unlock, InsertShared, DeleteShared,
       Clear, Scroll, Upsert, Raise, ForeignKeyFails, Aborts, counts
  <1>5. CASE Remove(t)
    <2>1. proc[t].doc \in Docs
      BY <1>1, <1>5, RemoveAfter DEF Fits
    <2> QED
      BY <1>2, <1>3, <1>4, <1>5, <2>1, ThreadFrame DEF Remove
  <1>6. CASE ~Remove(t)
    <2>1. ~InsertShared(t) /\ ~DeleteShared(t)
      BY <1>1, InsertSharedAfter, DeleteSharedAfter DEF Fits
    <2>2. row' = row /\ shared' = shared
      BY <1>6, <2>1 DEF CheckPath, Sweep, Stamp, Verify, CommonStep, Acquire, Unlock, Clear, Scroll, Upsert,
         Raise, ForeignKeyFails, content
    <2> QED
      BY <1>2, <1>3, <1>4, <2>2, ThreadFrame
  <1> QED
    BY <1>5, <1>6

\* The worker within a job goes on with that job.
LEMMA WithinJob ==
    ASSUME Base,
           \/ ReadSource \/ Recheck \/ Hash \/ Wipe \/ Write \/ Index \/ Look
           \/ Acquire(Worker) \/ Unlock(Worker) \/ InsertShared(Worker) \/ DeleteShared(Worker)
           \/ Clear(Worker) \/ Scroll(Worker) \/ Upsert(Worker)
    PROVE  /\ proc[Worker].op \in {"share", "unshare", "ingest"}
           /\ WorkerSame /\ \A q \in Procs : q # Worker => proc'[q] = proc[q]
           /\ jobs' = jobs
  <1>0. Worker \in Procs /\ proc \in [Procs -> Locals] /\ Fits(Worker, proc[Worker], born, tomb, wanted)
    BY DEF Base, Manned, Procs
  <1>1. proc[Worker].op \in {"share", "unshare", "ingest"}
    <2>1. proc[Worker].op \in {"none", "share", "unshare", "ingest"} /\ (proc[Worker].op = "none" <=> proc[Worker].pc = "idle")
      BY <1>0 DEF Fits, Legal
    <2>2. proc[Worker].pc # "idle"
      BY DEF ReadSource, Recheck, Hash, Wipe, Write, Index, Look, Acquire, Unlock, InsertShared, DeleteShared,
         Clear, Scroll, Upsert, At
    <2> QED
      BY <2>1, <2>2
  <1>2. WorkerSame /\ \A q \in Procs : q # Worker => proc'[q] = proc[q]
    <2>1. CASE ReadSource
      BY <1>0, <1>1, <2>1, ReadSourceAfter DEF Keeps, Changed, Ends, WorkerSame, Toggles
    <2>2. CASE Recheck
      BY <1>0, <1>1, <2>2, RecheckAfter DEF Keeps, Changed, Ends, WorkerSame, Toggles
    <2>3. CASE Hash
      BY <1>0, <1>1, <2>3, HashAfter DEF Keeps, Changed, Ends, WorkerSame, Toggles
    <2>4. CASE Wipe
      BY <1>0, <1>1, <2>4, WipeAfter DEF Keeps, Changed, Ends, WorkerSame, Toggles
    <2>5. CASE Write
      BY <1>0, <1>1, <2>5, WriteAfter DEF Keeps, Changed, Ends, WorkerSame, Toggles
    <2>6. CASE Index
      BY <1>0, <1>1, <2>6, IndexAfter DEF Keeps, Changed, Ends, WorkerSame, Toggles
    <2>7. CASE Look
      BY <1>0, <1>1, <2>7, LookAfter DEF Keeps, Changed, Ends, WorkerSame, Toggles
    <2>8. CASE Acquire(Worker)
      BY <1>0, <1>1, <2>8, AcquireAfter DEF Keeps, Changed, Ends, WorkerSame, Toggles
    <2>9. CASE Unlock(Worker)
      BY <1>0, <1>1, <2>9, UnlockAfter DEF Keeps, Changed, Ends, WorkerSame, Toggles
    <2>10. CASE InsertShared(Worker)
      BY <1>0, <1>1, <2>10, InsertSharedAfter DEF Keeps, Changed, Ends, WorkerSame, Toggles
    <2>11. CASE DeleteShared(Worker)
      BY <1>0, <1>1, <2>11, DeleteSharedAfter DEF Keeps, Changed, Ends, WorkerSame, Toggles
    <2>12. CASE Clear(Worker)
      BY <1>0, <1>1, <2>12, ClearAfter DEF Keeps, Changed, Ends, WorkerSame, Toggles
    <2>13. CASE Scroll(Worker)
      BY <1>0, <1>1, <2>13, ScrollAfter DEF Keeps, Changed, Ends, WorkerSame, Toggles
    <2>14. CASE Upsert(Worker)
      BY <1>0, <1>1, <2>14, UpsertAfter DEF Keeps, Changed, Ends, WorkerSame, Toggles
    <2> QED
      BY <2>1, <2>2, <2>3, <2>4, <2>5, <2>6, <2>7, <2>8, <2>9, <2>10, <2>11, <2>12, <2>13, <2>14
  <1>3. jobs' = jobs
    BY DEF ReadSource, Recheck, Hash, Wipe, Write, Index, Look, Acquire, Unlock, InsertShared, DeleteShared,
       Clear, Scroll, Upsert, counts
  <1> QED
    BY <1>1, <1>2, <1>3

\* The worker within a job: what it does to the row, it does at the steps insert
\* and delete, and only when the document is there.
LEMMA WorkerOrdered ==
    ASSUME Base, Ordered,
           \/ ReadSource \/ Recheck \/ Hash \/ Wipe \/ Write \/ Index \/ Look
           \/ Acquire(Worker) \/ Unlock(Worker) \/ InsertShared(Worker) \/ DeleteShared(Worker)
           \/ Clear(Worker) \/ Scroll(Worker) \/ Upsert(Worker)
    PROVE  Ordered'
  <1>0. /\ Worker \in Procs /\ Threads \subseteq Procs /\ Worker \notin Threads /\ jobs \in Seq(Jobs)
        /\ proc \in [Procs -> Locals] /\ wanted \in [Docs -> {"none", "share", "unshare"}]
        /\ Fits(Worker, proc[Worker], born, tomb, wanted)
    BY DEF Base, Manned, Stored, Procs
  <1> DEFINE w == proc[Worker]
             Late == {"clear", "scroll", "upsert", "unlock", "complete"}
  <1>1. w.op \in {"share", "unshare", "ingest"}
    BY WithinJob
  <1>2. WorkerSame /\ \A q \in Procs : q # Worker => proc'[q] = proc[q]
    BY WithinJob
  <1>3. NoRoutes'
    BY <1>0, <1>1, <1>2 DEF Ordered, NoRoutes, WorkerSame
  <1>4. jobs' = jobs /\ wanted' = wanted
    BY DEF ReadSource, Recheck, Hash, Wipe, Write, Index, Look, Acquire, Unlock, InsertShared, DeleteShared,
       Clear, Scroll, Upsert, counts
  <1>5. \A d \in Docs : Still(d)
    <2>1. CASE InsertShared(Worker)
      <3>1. row' = row /\ shared' = shared \cup {w.doc} /\ w.op = "share"
        BY <1>0, <1>1, <2>1, InsertSharedAfter DEF InsertShared
      <3> QED
        BY <3>1 DEF Still, Toggles
    <2>2. CASE DeleteShared(Worker)
      <3>1. row' = row /\ shared' = shared \ {w.doc} /\ w.op = "unshare"
        BY <1>0, <1>1, <2>2, DeleteSharedAfter DEF DeleteShared
      <3> QED
        BY <3>1 DEF Still, Toggles
    <2>3. CASE Index
      <3>1. UNCHANGED shared /\ (row'.id = row.id \/ row'.id = born + 1)
        BY <2>3 DEF Index, Base, Stored
      <3>2. \A d \in Docs : wanted[d] # "none" => d <= born
        BY DEF Base, Known
      <3>3. born \in Nat
        BY DEF Base, Stored
      <3> QED
        BY <3>1, <3>2, <3>3 DEF Still, Docs
    <2>4. CASE row' = row /\ shared' = shared
      BY <2>4 DEF Still
    <2> QED
      BY <2>1, <2>2, <2>3, <2>4 DEF ReadSource, Recheck, Hash, Wipe, Write, Look, Acquire, Unlock,
         Clear, Scroll, Upsert, content
  <1>6. Undisturbed => Applied'
    <2> SUFFICES ASSUME Undisturbed, w.op \in Toggles, row'.id = w.doc, proc'[Worker].pc \in Late
                 PROVE  w.doc \in shared' <=> w.op = "share"
      BY <1>2 DEF Applied, WorkerSame
    <2>0. Applied
      BY DEF Ordered
    <2>1. CASE InsertShared(Worker)
      BY <1>0, <1>1, <2>1, InsertSharedAfter DEF InsertShared
    <2>2. CASE DeleteShared(Worker)
      <3>1. shared' = shared \ {w.doc} /\ w.op = "unshare"
        BY <1>0, <1>1, <2>2, DeleteSharedAfter DEF DeleteShared
      <3> QED
        BY <3>1
    <2>3. CASE ReadSource \/ Recheck \/ Acquire(Worker)
      <3>1. row' = row
        BY <2>3 DEF ReadSource, Recheck, Acquire, content
      <3>2. CASE ReadSource
        BY <1>0, <3>1, <3>2, ReadSourceAfter DEF Keeps, Changed
      <3>3. CASE Recheck
        BY <1>0, <3>1, <3>3, RecheckAfter DEF Keeps, Changed
      <3>4. CASE Acquire(Worker)
        BY <1>0, <1>1, <3>4, AcquireAfter DEF Keeps, Changed, Toggles
      <3> QED
        BY <2>3, <3>2, <3>3, <3>4
    <2>4. CASE Unlock(Worker) \/ Clear(Worker) \/ Scroll(Worker) \/ Upsert(Worker)
      <3>1. w.pc \in Late /\ row' = row /\ shared' = shared
        BY <2>4 DEF Unlock, Clear, Scroll, Upsert, content, At
      <3> QED
        BY <2>0, <3>1 DEF Applied
    <2>5. CASE Hash \/ Wipe \/ Write \/ Index \/ Look
      BY <2>5, HashAfter, WipeAfter, WriteAfter, IndexAfter, LookAfter DEF Toggles
    <2> QED
      BY <2>1, <2>2, <2>3, <2>4, <2>5
  <1> QED
    BY <1>2, <1>3, <1>4, <1>5, <1>6, OrderedFrame

\* A job is claimed when all before it are done.
LEMMA ClaimOrdered ==
    ASSUME Base, Ordered, Claim
    PROVE  Ordered'
  <1>0. /\ Worker \in Procs /\ Threads \subseteq Procs /\ Worker \notin Threads /\ jobs \in Seq(Jobs)
        /\ proc \in [Procs -> Locals] /\ wanted \in [Docs -> {"none", "share", "unshare"}]
        /\ Fits(Worker, proc[Worker], born, tomb, wanted)
    BY DEF Base, Manned, Stored, Procs
  <1>1. PICK j \in DOMAIN jobs :
          /\ jobs[j].status = "pending" /\ jobs[j].due
          /\ \A i \in 1 .. (j - 1) : ~(jobs[i].status = "pending" /\ jobs[i].due)
          /\ jobs' = [jobs EXCEPT ![j].status = "running"]
          /\ Start(Worker, jobs[j].kind, FirstStep(jobs[j].kind), jobs[j].doc, jobs[j].ver, j)
    BY DEF Claim
  <1>2. /\ proc'[Worker].op = jobs[j].kind /\ proc'[Worker].pc \in {"hash", "read"}
        /\ proc'[Worker].doc = jobs[j].doc /\ proc'[Worker].job = j
        /\ \A q \in Procs : q # Worker => proc'[q] = proc[q]
    BY <1>0, <1>1, IdleIs DEF Start, Locals, FirstStep
  <1>3. jobs[j].kind \in {"share", "unshare", "ingest"} /\ proc[Worker].op = "none"
    BY <1>0, JobsAre DEF Jobs, JobKinds, Claim, At, Fits, Legal, Base
  <1>4. /\ DOMAIN jobs' = DOMAIN jobs /\ jobs'[j].status = "running"
        /\ \A i \in DOMAIN jobs : /\ jobs'[i].kind = jobs[i].kind /\ jobs'[i].doc = jobs[i].doc
                                  /\ jobs'[i].tries = jobs[i].tries /\ jobs'[i].due = jobs[i].due
                                  /\ i # j => jobs'[i].status = jobs[i].status
    BY <1>0, <1>1, JobsAre DEF Jobs, Base
  <1>5. UNCHANGED <<row, shared, wanted>>
    BY DEF Claim, content
  <1>6. NoRoutes'
    BY <1>2, <1>3 DEF Ordered, NoRoutes
  <1> SUFFICES ASSUME Undisturbed' PROVE (Lined /\ AtJob /\ Applied /\ Asked /\ Reached)'
    BY <1>6 DEF Ordered
  <1>7. Undisturbed /\ Lined /\ Asked /\ Reached
    <2>1. Undisturbed
      BY <1>4 DEF Undisturbed
    <2> QED
      BY <2>1 DEF Ordered
  <1>8. Lined'
    <2>1. \A i \in DOMAIN jobs : jobs[i].status # "running"
      BY <1>3, <1>7 DEF Lined, HasJob
    <2>2. \A i \in DOMAIN jobs : i < j => jobs[i].status = "done"
      <3> SUFFICES ASSUME NEW i \in DOMAIN jobs, i < j PROVE jobs[i].status = "done"
        OBVIOUS
      <3>1. i \in 1 .. (j - 1)
        BY <1>0
      <3>2. jobs[i].status \in {"pending", "running", "done", "dead"}
        BY JobsAre DEF Jobs, Base
      <3> QED
        BY <1>1, <1>7, <2>1, <3>1, <3>2 DEF Lined
    <2>3. DOMAIN jobs \subseteq Nat
      BY <1>0
    <2> QED
      BY <1>1, <1>2, <1>3, <1>4, <1>7, <2>1, <2>2, <2>3 DEF Lined, HasJob
  <1>9. AtJob' /\ Applied'
    <2>1. AtJob'
      BY <1>1, <1>2, <1>4 DEF AtJob
    <2>2. Applied'
      BY <1>2 DEF Applied
    <2> QED
      BY <2>1, <2>2
  <1>10. Asked'
    BY <1>1, <1>4, <1>5, <1>7 DEF Asked, Latest, ToggleOf
  <1>11. Reached'
    BY <1>1, <1>4, <1>5, <1>7 DEF Reached, AsAsked, ToggleOf
  <1> QED
    BY <1>8, <1>9, <1>10, <1>11

\* When the latest job of a document is complete, the document is as asked.
LEMMA CompleteOrdered ==
    ASSUME Base, Ordered, Complete
    PROVE  Ordered'
  <1>0. /\ Worker \in Procs /\ Threads \subseteq Procs /\ Worker \notin Threads /\ jobs \in Seq(Jobs)
        /\ proc \in [Procs -> Locals] /\ wanted \in [Docs -> {"none", "share", "unshare"}]
        /\ Fits(Worker, proc[Worker], born, tomb, wanted)
    BY DEF Base, Manned, Stored, Procs
  <1> DEFINE j == proc[Worker].job
  <1>1. proc[Worker].op # "none" /\ proc[Worker].pc = "complete" /\ proc'[Worker] = Idle
        /\ \A q \in Procs : q # Worker => proc'[q] = proc[q]
    BY <1>0, CompleteAfter DEF Ends, Fits, Legal
  <1>2. jobs' = [jobs EXCEPT ![j].status = "done"] /\ UNCHANGED <<row, shared, wanted>>
    BY DEF Complete, content
  <1>3. NoRoutes'
    BY <1>1, IdleIs DEF Ordered, NoRoutes
  <1>4. /\ DOMAIN jobs' = DOMAIN jobs
        /\ \A i \in DOMAIN jobs : /\ jobs'[i].kind = jobs[i].kind /\ jobs'[i].doc = jobs[i].doc
                                  /\ jobs'[i].tries = jobs[i].tries /\ jobs'[i].due = jobs[i].due
                                  /\ i # j => jobs'[i].status = jobs[i].status
                                  /\ i = j => jobs'[i].status = "done"
    BY <1>0, <1>2, JobsAre DEF Jobs, Base
  <1> SUFFICES ASSUME Undisturbed' PROVE (Lined /\ AtJob /\ Applied /\ Asked /\ Reached)'
    BY <1>3 DEF Ordered
  <1>5. Undisturbed /\ Lined /\ AtJob /\ Applied /\ Asked /\ Reached
    <2>1. Undisturbed
      BY <1>4 DEF Undisturbed
    <2> QED
      BY <2>1 DEF Ordered
  <1>6. /\ j \in DOMAIN jobs /\ jobs[j].status = "running" /\ DOMAIN jobs \subseteq Nat
        /\ \A i \in DOMAIN jobs : i # j => jobs[i].status # "running"
        /\ \A i \in DOMAIN jobs : i < j => jobs[i].status = "done"
        /\ \A i \in DOMAIN jobs : i > j => jobs[i].status = "pending"
    <2>1. j \in DOMAIN jobs /\ jobs[j].status = "running" /\ DOMAIN jobs \subseteq Nat
      BY <1>0, <1>1, <1>5 DEF AtJob, Lined, HasJob
    <2>2. \A i \in DOMAIN jobs : i # j => jobs[i].status # "running"
      BY <1>5 DEF Lined, HasJob
    <2>3. \A i \in DOMAIN jobs : i < j => jobs[i].status = "done"
      BY <1>5, <2>1 DEF Lined
    <2>4. \A i \in DOMAIN jobs : i > j => jobs[i].status = "pending"
      BY <1>5, <2>1 DEF Lined
    <2> QED
      BY <2>1, <2>2, <2>3, <2>4
  <1>7. Lined'
    <2> SUFFICES ASSUME NEW i \in DOMAIN jobs
                 PROVE  /\ jobs'[i].status # "dead" /\ (jobs'[i].status = "pending" => jobs'[i].due)
                        /\ jobs'[i].status # "running"
                        /\ jobs'[i].status # "done" => \A m \in DOMAIN jobs : m > i => jobs'[m].status = "pending"
      BY <1>1, <1>4, IdleIs DEF Lined, HasJob
    <2>1. CASE i = j
      BY <1>4, <2>1
    <2>2. CASE i # j
      <3>1. jobs'[i].status = jobs[i].status /\ jobs'[i].due = jobs[i].due
        BY <1>4, <2>2
      <3>2. jobs[i].status # "dead" /\ (jobs[i].status = "pending" => jobs[i].due) /\ jobs[i].status # "running"
        BY <1>5, <1>6, <2>2 DEF Lined
      <3>3. ASSUME jobs[i].status # "done", NEW m \in DOMAIN jobs, m > i PROVE jobs'[m].status = "pending"
        <4>1. jobs[m].status = "pending"
          BY <1>5, <3>3 DEF Lined
        <4>2. m # j
          BY <1>6, <4>1
        <4> QED
          BY <1>4, <4>1, <4>2
      <3> QED
        BY <3>1, <3>2, <3>3
    <2> QED
      BY <2>1, <2>2
  <1>8. AtJob' /\ Applied'
    BY <1>1, IdleIs DEF AtJob, Applied, Toggles
  <1>9. Asked'
    BY <1>2, <1>4, <1>5 DEF Asked, Latest, ToggleOf
  <1>10. Reached'
    <2> SUFFICES ASSUME NEW d \in Docs, \A i \in DOMAIN jobs : ToggleOf(i, d) => i = j \/ jobs[i].status = "done"
                 PROVE  AsAsked(d)
      BY <1>2, <1>4 DEF Reached, AsAsked, ToggleOf
    <2>1. CASE ToggleOf(j, d)
      <3>1. Latest(j, d)
        <4> SUFFICES ASSUME NEW i \in DOMAIN jobs, ToggleOf(i, d) PROVE i <= j
          BY <2>1 DEF Latest
        <4> QED
          BY <1>6
      <3>2. wanted[d] = proc[Worker].op
        BY <1>1, <1>5, <1>6, <3>1 DEF Asked, AtJob
      <3>3. proc[Worker].op \in Toggles /\ proc[Worker].doc = d
        BY <1>1, <1>5, <2>1 DEF AtJob, ToggleOf
      <3> QED
        BY <1>1, <1>5, <3>2, <3>3 DEF Applied, AsAsked
    <2>2. CASE ~ToggleOf(j, d)
      BY <1>5, <2>2 DEF Reached
    <2> QED
      BY <2>1, <2>2
  <1> QED
    BY <1>7, <1>8, <1>9, <1>10

LEMMA NoIdleStep == "idle" \notin Steps
  <1> SUFFICES ASSUME NEW o \in Operations PROVE "idle" \notin StepsOf(o)
    BY DEF Steps
  <1> QED
    BY DEF Operations, StepsOf, Program

\* A job that fails is disturbed from then on.
LEMMA FailOrdered ==
    ASSUME Base, Ordered, Raise(Worker) \/ ForeignKeyFails(Worker)
    PROVE  Ordered'
  <1>0. /\ Worker \in Procs /\ Threads \subseteq Procs /\ Worker \notin Threads /\ jobs \in Seq(Jobs)
        /\ proc \in [Procs -> Locals] /\ wanted \in [Docs -> {"none", "share", "unshare"}]
        /\ Fits(Worker, proc[Worker], born, tomb, wanted)
    BY DEF Base, Manned, Stored, Procs
  <1>1. Aborts(Worker) /\ UNCHANGED <<row, shared, wanted>> /\ proc[Worker].pc # "idle"
    BY NoIdleStep, SharingAssumption DEF Raise, ForeignKeyFails, content, At
  <1>2. NoRoutes'
    BY <1>0, <1>1, AbortsAfter, IdleIs DEF Ordered, NoRoutes, Keeps, Changed, Ends
  <1>3. CASE Reprojecting(Worker)
    <2>1. jobs' = jobs /\ Keeps(Worker, "unlock")
      BY <1>0, <1>1, <1>3, GoesOn DEF Aborts, Goto, Put
    <2>2. WorkerSame /\ Applied' /\ \A d \in Docs : Still(d)
      BY <1>1, <1>3, <2>1 DEF Keeps, Changed, WorkerSame, Applied, Still, Reprojecting, Toggles
    <2> QED
      BY <1>1, <1>2, <2>1, <2>2, OrderedFrame
  <1>4. CASE ~Reprojecting(Worker)
    <2>1. jobs' = [jobs EXCEPT ![proc[Worker].job] = Retried(@, 1)]
      BY <1>1, <1>4 DEF Aborts, JobFails
    <2> SUFFICES ASSUME Undisturbed' PROVE FALSE
      BY <1>2 DEF Ordered
    <2>2. CASE Undisturbed
      <3>1. proc[Worker].job \in DOMAIN jobs
        BY <1>0, <1>1, <2>2 DEF Ordered, AtJob, Fits, Legal
      <3>2. jobs'[proc[Worker].job].tries = jobs[proc[Worker].job].tries + 1 /\ jobs[proc[Worker].job].tries \in Nat
        BY <1>0, <2>1, <3>1, JobsAre DEF Retried, Jobs, Base
      <3> QED
        BY <2>1, <3>1, <3>2, <1>0 DEF Undisturbed
    <2>3. CASE ~Undisturbed
      <3>1. PICK i \in DOMAIN jobs : jobs[i].tries # 0
        BY <2>3 DEF Undisturbed
      <3>2. jobs[i].tries \in Nat /\ i \in DOMAIN jobs' /\ jobs'[i].tries \in {jobs[i].tries, jobs[i].tries + 1}
        BY <1>0, <2>1, <3>1, JobsAre DEF Retried, Jobs, Base
      <3> QED
        BY <3>1, <3>2 DEF Undisturbed
    <2> QED
      BY <2>2, <2>3
  <1> QED
    BY <1>3, <1>4

\* A job that is enqueued is the last of all, and what was asked last.
LEMMA EnqueueOrdered ==
    ASSUME Base, Ordered, NoRoutes', NEW k \in JobKinds, NEW d \in Docs \cup {NoDoc}, NEW v \in Versions \cup {0},
           jobs' = Append(jobs, NewJob(k, d, v)), UNCHANGED <<row, shared>>, proc'[Worker] = proc[Worker],
           k \in Toggles => d \in Docs,
           wanted' = IF k \in Toggles THEN [wanted EXCEPT ![d] = k] ELSE wanted
    PROVE  Ordered'
  <1>0. /\ Worker \in Procs /\ Threads \subseteq Procs /\ Worker \notin Threads /\ jobs \in Seq(Jobs)
        /\ proc \in [Procs -> Locals] /\ wanted \in [Docs -> {"none", "share", "unshare"}]
        /\ Fits(Worker, proc[Worker], born, tomb, wanted)
    BY DEF Base, Manned, Stored, Procs
  <1> DEFINE n == Len(jobs) + 1
             new == NewJob(k, d, v)
  <1>1. /\ new.kind = k /\ new.doc = d /\ new.status = "pending" /\ new.tries = 0 /\ new.due
    BY DEF NewJob
  <1> HIDE DEF new
  <1>2. /\ n \in Nat /\ DOMAIN jobs = 1 .. (n - 1) /\ DOMAIN jobs' = 1 .. n /\ jobs'[n] = new
        /\ \A i \in DOMAIN jobs : jobs'[i] = jobs[i]
    BY <1>0 DEF new
  <1> HIDE DEF n
  <1> SUFFICES ASSUME Undisturbed' PROVE (Lined /\ AtJob /\ Applied /\ Asked /\ Reached)'
    BY DEF Ordered
  <1>3. Undisturbed /\ Lined /\ AtJob /\ Applied /\ Asked /\ Reached
    BY <1>2 DEF Ordered, Undisturbed
  <1>4. Lined'
    <2>1. ~HasJob(n)
      BY <1>2, <1>3 DEF AtJob, HasJob
    <2> QED
      BY <1>1, <1>2, <1>3, <2>1 DEF Lined, HasJob
  <1>5. AtJob' /\ Applied'
    BY <1>2, <1>3 DEF AtJob, Applied
  <1>6. Asked'
    <2> SUFFICES ASSUME NEW e \in Docs, NEW j \in DOMAIN jobs', Latest(j, e)', jobs'[j].status # "done"
                 PROVE  wanted'[e] = jobs'[j].kind
      BY DEF Asked
    <2>1. CASE k \in Toggles /\ e = d
      <3>1. n \in DOMAIN jobs' /\ jobs'[n].kind \in Toggles /\ jobs'[n].doc = e
        BY <1>1, <1>2, <2>1
      <3>2. j = n
        <4>1. n <= j
          BY <3>1 DEF Latest, ToggleOf
        <4> QED
          BY <1>2, <4>1
      <3> QED
        BY <1>0, <1>1, <1>2, <2>1, <3>2
    <2>2. CASE ~(k \in Toggles /\ e = d)
      <3>1. j # n
        BY <1>1, <1>2, <2>2 DEF Latest, ToggleOf
      <3>2. j \in DOMAIN jobs /\ Latest(j, e) /\ jobs'[j] = jobs[j]
        BY <1>2, <3>1 DEF Latest, ToggleOf
      <3> QED
        BY <1>0, <1>3, <2>2, <3>2 DEF Asked
    <2> QED
      BY <2>1, <2>2
  <1>7. Reached'
    <2> SUFFICES ASSUME NEW e \in Docs, \A j \in DOMAIN jobs' : ToggleOf(j, e)' => jobs'[j].status = "done"
                 PROVE  AsAsked(e)'
      BY DEF Reached
    <2>1. ~(k \in Toggles /\ e = d)
      BY SMTT(40), <1>1, <1>2 DEF ToggleOf
    <2>2. \A j \in DOMAIN jobs : ToggleOf(j, e) => jobs[j].status = "done"
      BY <1>2 DEF ToggleOf
    <2> QED
      BY <1>0, <1>3, <2>1, <2>2 DEF Reached, AsAsked
  <1> QED
    BY <1>4, <1>5, <1>6, <1>7

\* A request that a job in flight absorbs.
LEMMA CoalesceOrdered ==
    ASSUME Base, Ordered, NEW k \in Toggles, row.id \in Docs, Coalesces(row.id, k),
           wanted' = [wanted EXCEPT ![row.id] = k], UNCHANGED <<row, shared, jobs, proc>>
    PROVE  Ordered'
  <1>0. /\ Worker \in Procs /\ Threads \subseteq Procs /\ Worker \notin Threads /\ jobs \in Seq(Jobs)
        /\ proc \in [Procs -> Locals] /\ wanted \in [Docs -> {"none", "share", "unshare"}]
        /\ Fits(Worker, proc[Worker], born, tomb, wanted)
    BY DEF Base, Manned, Stored, Procs
  <1>1. NoRoutes'
    BY DEF Ordered, NoRoutes
  <1> SUFFICES ASSUME Undisturbed' PROVE (Lined /\ AtJob /\ Applied /\ Asked /\ Reached)'
    BY <1>1 DEF Ordered
  <1>2. Undisturbed /\ Lined /\ AtJob /\ Applied /\ Asked /\ Reached
    BY DEF Ordered, Undisturbed
  <1>3. PICK j \in DOMAIN jobs :
          /\ jobs[j].kind = k /\ jobs[j].doc = row.id /\ jobs[j].status \in {"pending", "running"}
          /\ \A i \in InFlight(row.id, {"share", "unshare"}) : i <= j
    BY DEF Coalesces, InFlight
  <1>4. Latest(j, row.id)
    <2> SUFFICES ASSUME NEW i \in DOMAIN jobs, ToggleOf(i, row.id), i > j PROVE FALSE
      BY <1>0, <1>3 DEF Latest, ToggleOf
    <2>1. jobs[i].status = "pending"
      BY <1>2, <1>3 DEF Lined
    <2>2. i \in InFlight(row.id, {"share", "unshare"})
      BY <2>1 DEF InFlight, ToggleOf, Toggles
    <2>3. i \in Nat /\ j \in Nat
      BY <1>0
    <2> QED
      BY <1>3, <2>2, <2>3
  <1>5. Lined' /\ AtJob' /\ Applied'
    BY <1>2 DEF Lined, HasJob, AtJob, Applied
  <1>6. Asked'
    <2> SUFFICES ASSUME NEW e \in Docs, NEW i \in DOMAIN jobs, Latest(i, e), jobs[i].status # "done"
                 PROVE  wanted'[e] = jobs[i].kind
      BY DEF Asked, Latest, ToggleOf
    <2>1. CASE e = row.id
      <3>1. i = j
        BY <1>0, <1>4, <2>1 DEF Latest
      <3> QED
        BY <1>0, <1>3, <2>1, <3>1
    <2>2. CASE e # row.id
      BY <1>0, <1>2, <2>2 DEF Asked
    <2> QED
      BY <2>1, <2>2
  <1>7. Reached'
    <2> SUFFICES ASSUME NEW e \in Docs, \A i \in DOMAIN jobs : ToggleOf(i, e) => jobs[i].status = "done"
                 PROVE  AsAsked(e)'
      BY DEF Reached, ToggleOf
    <2>1. e # row.id
      BY <1>3 DEF ToggleOf
    <2> QED
      BY <1>0, <1>2, <2>1 DEF Reached, AsAsked
  <1> QED
    BY <1>5, <1>6, <1>7

LEMMA RequestOrdered ==
    ASSUME Base, Ordered, NoRequests, NEW t \in Threads,
           \/ \E k \in {"share", "unshare"} : RequestToggle(t, k)
           \/ RequestPublish(t) \/ RequestUnpublish(t)
           \/ \E d \in Docs : RequestAdmin(t, d) \/ RequestPurge(t, d)
    PROVE  Ordered'
  <1>0. /\ Worker \in Procs /\ Threads \subseteq Procs /\ Worker \notin Threads /\ jobs \in Seq(Jobs)
        /\ proc \in [Procs -> Locals] /\ wanted \in [Docs -> {"none", "share", "unshare"}]
        /\ Fits(Worker, proc[Worker], born, tomb, wanted)
    BY DEF Base, Manned, Stored, Procs
  <1>1. UNCHANGED content /\ proc'[Worker] = proc[Worker] /\ NoRoutes'
    <2>1. /\ UNCHANGED content
          /\ UNCHANGED proc \/ \E r \in Locals : Put(t, r) /\ r.op \notin {"publish", "unpublish", "admin"}
      BY RequestDoes DEF NoRequests
    <2> QED
      BY <1>0, <2>1 DEF Put, Ordered, NoRoutes
  <1>2. ASSUME NEW k \in {"share", "unshare"}, RequestToggle(t, k) PROVE Ordered'
    <2>1. CASE Coalesces(row.id, k)
      BY <1>2, <2>1, CoalesceOrdered DEF RequestToggle, content, Toggles, Base, Stored, Docs, NoDoc
    <2>2. CASE ~Coalesces(row.id, k)
      BY <1>1, <1>2, <2>2, ThreadFrame DEF RequestToggle, content
    <2> QED
      BY <2>1, <2>2
  <1>3. ASSUME NEW d \in Docs, RequestPurge(t, d) PROVE Ordered'
    BY <1>1, <1>3, ThreadFrame DEF RequestPurge, Serve, content
  <1>4. ~RequestPublish(t) /\ ~RequestUnpublish(t) /\ \A d \in Docs : ~RequestAdmin(t, d)
    BY DEF NoRequests, RequestPublish, RequestUnpublish, RequestAdmin
  <1> QED
    BY <1>2, <1>3, <1>4

LEMMA EnqueuesOrdered ==
    ASSUME Base, Ordered, RequestIngest \/ \E t \in Threads : EnqueueToggle(t)
    PROVE  Ordered'
  <1>0. /\ Worker \in Procs /\ Threads \subseteq Procs /\ Worker \notin Threads /\ jobs \in Seq(Jobs)
        /\ proc \in [Procs -> Locals] /\ wanted \in [Docs -> {"none", "share", "unshare"}]
        /\ Fits(Worker, proc[Worker], born, tomb, wanted)
    BY DEF Base, Manned, Stored, Procs
  <1>1. CASE RequestIngest
    <2>1. PICK v \in Versions : jobs' = Append(jobs, NewJob("ingest", NoDoc, v))
      BY <1>1 DEF RequestIngest
    <2>2. UNCHANGED <<row, shared, proc, wanted>> /\ NoRoutes'
      BY <1>1 DEF RequestIngest, content, Ordered, NoRoutes
    <2> QED
      BY <2>1, <2>2, EnqueueOrdered DEF JobKinds, Toggles
  <1>2. ASSUME NEW t \in Threads, EnqueueToggle(t) PROVE Ordered'
    <2>1. t \in Procs /\ t # Worker /\ proc[t].op \in {"share", "unshare"} /\ proc[t].doc \in Docs
      BY <1>0, <1>2 DEF EnqueueToggle, At, Base, Manned, Fits, Legal
    <2>2. UNCHANGED <<row, shared>> /\ proc'[Worker] = proc[Worker] /\ NoRoutes'
      BY <1>0, <1>2, <2>1, IdleIs DEF EnqueueToggle, content, Ordered, NoRoutes
    <2> QED
      BY <1>2, <2>1, <2>2, EnqueueOrdered DEF EnqueueToggle, JobKinds, Toggles
  <1> QED
    BY <1>1, <1>2

\* Only a retried job waits, and a crash that interrupts a job retries it.
LEMMA OtherOrdered ==
    ASSUME Base, Ordered, Crash \/ \E j \in DOMAIN jobs : BackoffElapses(j)
    PROVE  Ordered'
  <1>0. /\ Worker \in Procs /\ Threads \subseteq Procs /\ Worker \notin Threads /\ jobs \in Seq(Jobs)
        /\ proc \in [Procs -> Locals] /\ wanted \in [Docs -> {"none", "share", "unshare"}]
        /\ Fits(Worker, proc[Worker], born, tomb, wanted)
    BY DEF Base, Manned, Stored, Procs
  <1>1. CASE Crash
    <2> DEFINE again(i) == [Retried(jobs[i], 1) EXCEPT !.due = TRUE]
    <2>1. \A i \in DOMAIN jobs : again(i).tries = jobs[i].tries + 1 /\ jobs[i].tries \in Nat
      BY JobsAre DEF Retried, Jobs, Base
    <2>2. jobs' = [i \in DOMAIN jobs |-> IF jobs[i].status = "running" THEN again(i) ELSE jobs[i]]
      BY <1>1 DEF Crash
    <2> HIDE DEF again
    <2>3. NoRoutes' /\ UNCHANGED <<row, shared, wanted>> /\ proc'[Worker] = Idle
      BY <1>0, <1>1, IdleIs DEF Crash, content, NoRoutes
    <2> SUFFICES ASSUME Undisturbed' PROVE (Lined /\ AtJob /\ Applied /\ Asked /\ Reached)'
      BY <2>3 DEF Ordered
    <2>4. \A i \in DOMAIN jobs : jobs[i].status # "running"
      BY <2>1, <2>2 DEF Undisturbed
    <2>5. jobs' = jobs
      BY <1>0, <2>2, <2>4
    <2>6. Undisturbed /\ Lined /\ AtJob /\ Applied /\ Asked /\ Reached
      BY <2>5 DEF Ordered, Undisturbed
    <2>7. Lined' /\ AtJob' /\ Applied'
      BY <2>3, <2>4, <2>5, <2>6, IdleIs DEF Lined, HasJob, AtJob, Applied, Toggles
    <2> QED
      BY <2>3, <2>5, <2>6, <2>7 DEF Asked, Reached, Latest, ToggleOf, AsAsked
  <1>2. ASSUME NEW j \in DOMAIN jobs, BackoffElapses(j) PROVE Ordered'
    <2>1. NoRoutes' /\ ~jobs[j].due /\ jobs[j].status = "pending" /\ jobs' = [jobs EXCEPT ![j].due = TRUE]
      BY <1>2 DEF BackoffElapses, Ordered, NoRoutes
    <2>2. DOMAIN jobs' = DOMAIN jobs /\ \A i \in DOMAIN jobs : jobs'[i].tries = jobs[i].tries
      BY <1>0, <2>1, JobsAre DEF Jobs, Base
    <2> QED
      BY <2>1, <2>2 DEF Ordered, Undisturbed, Lined
  <1> QED
    BY <1>1, <1>2

LEMMA NextOrdered ==
    ASSUME Base, Ordered, NoRequests, [Next]_vars
    PROVE  Ordered'
  <1>1. ASSUME NEW t \in Threads, ThreadStep(t) PROVE Ordered'
    BY <1>1, ThreadOrdered, EnqueuesOrdered DEF ThreadStep
  <1>2. ASSUME WorkerStep PROVE Ordered'
    BY <1>2, WorkerOrdered, ClaimOrdered, CompleteOrdered DEF WorkerStep
  <1>3. ASSUME NEW p \in Procs, CommonStep(p) PROVE Ordered'
    BY <1>3, ThreadOrdered, WorkerOrdered, FailOrdered DEF CommonStep, Procs
  <1>4. CASE UNCHANGED vars
    BY <1>4 DEF vars, content, Ordered, NoRoutes, Undisturbed, Lined, HasJob, AtJob, Applied, Asked, Reached,
       Latest, ToggleOf, AsAsked
  <1> QED
    BY <1>1, <1>2, <1>3, <1>4, RequestOrdered, EnqueuesOrdered, OtherOrdered DEF Next

\* Share and unshare requests in any order, absorbed by a job in flight or not,
\* end as the owner asked last, when no job had to be retried and the routes
\* beside the jobs are left alone (services/documents.py, _enqueue_share_job).
THEOREM LastWins == ASSUME NoRequests PROVE Spec => []LastRequestWins
  <1>1. Init => Ordered
    BY IdleIs DEF Init, Ordered, NoRoutes, Lined, AtJob, Applied, Asked, Reached, AsAsked, HasJob, Procs, Toggles
  <1>2. Base /\ Ordered /\ [Next]_vars => Ordered'
    BY NextOrdered
  <1>3. Base /\ Ordered => LastRequestWins
    <2> SUFFICES ASSUME Base, Ordered, Quiet, Undisturbed PROVE InStateAskedFor
      BY DEF LastRequestWins
    <2>1. \A j \in DOMAIN jobs : jobs[j].status = "done"
      BY DEF Quiet, Ordered, Lined
    <2> QED
      BY <2>1 DEF Ordered, Reached, AsAsked, InStateAskedFor
  <1> QED
    BY BaseHolds, <1>1, <1>2, <1>3, PTL DEF Spec

-----------------------------------------------------------------------------
(***************************************************************************)
(* The jobs of the path keep the promise of the queue, JobLedger.           *)
(***************************************************************************)
\* The worker has a job that runs; a job that waits has attempts left.
Running == proc[Worker].op # "none" =>
  proc[Worker].job \in DOMAIN jobs /\ jobs[proc[Worker].job].status = "running"
Waiting == \A j \in DOMAIN jobs : jobs[j].status = "pending" => jobs[j].tries <= MaxTries

\* What a step may do to a row of user_batch_jobs.
Moved(a, b) ==
  \/ b.status = a.status /\ b.tries = a.tries
  \/ a.status = "pending" /\ b.status = "running" /\ b.tries = a.tries
  \/ a.status = "running" /\ b.status = "done" /\ b.tries = a.tries
  \/ /\ a.status = "running" /\ b.tries = a.tries + 1
     /\ b.status = IF b.tries < MaxTries THEN "pending" ELSE "dead"

QueueMoves == /\ DOMAIN jobs \subseteq DOMAIN jobs'
              /\ \A j \in DOMAIN jobs : Moved(jobs[j], jobs'[j])
              /\ \A j \in DOMAIN jobs' \ DOMAIN jobs : jobs'[j].status = "pending" /\ jobs'[j].tries = 0

\* What one step does to one job is a step of the ledger, or nothing.
LedgerStep(j) ==
  \/ Ledger!Submit(j) \/ Ledger!Start(j) \/ Ledger!Requeue(j) \/ Ledger!Finish(j)
  \/ Ledger!GiveUp(j) \/ Ledger!Cancel(j) \/ Ledger!Stay(j)

\* A retry spends an attempt.
LEMMA RetriedMoves ==
    ASSUME NEW a \in Jobs, a.status = "running"
    PROVE  Moved(a, Retried(a, 1)) /\ Moved(a, [Retried(a, 1) EXCEPT !.due = TRUE])
  <1>1. /\ Retried(a, 1).tries = a.tries + 1 /\ Retried(a, 1) \in Jobs
        /\ Retried(a, 1).status = IF a.tries + 1 < MaxTries THEN "pending" ELSE "dead"
    BY RetriedIs DEF Retried, Jobs
  <1>2. LET b == [Retried(a, 1) EXCEPT !.due = TRUE] IN
        b.tries = Retried(a, 1).tries /\ b.status = Retried(a, 1).status
    BY <1>1 DEF Jobs
  <1> QED
    BY <1>1, <1>2 DEF Moved

\* What becomes of the rows, and of those that wait.
LEMMA StillWaiting ==
    ASSUME Waiting, QueueMoves, jobs \in Seq(Jobs)
    PROVE  Waiting'
  <1> SUFFICES ASSUME NEW j \in DOMAIN jobs', jobs'[j].status = "pending"
               PROVE  jobs'[j].tries <= MaxTries
    BY DEF Waiting
  <1>1. CASE j \in DOMAIN jobs
    <2>1. Moved(jobs[j], jobs'[j]) /\ jobs[j] \in Jobs
      BY <1>1 DEF QueueMoves
    <2>2. jobs[j].tries \in Nat /\ MaxTries \in Nat
      BY <2>1 DEF Jobs
    <2> QED
      BY <1>1, <2>1, <2>2 DEF Moved, Waiting
  <1>2. CASE j \notin DOMAIN jobs
    BY <1>2 DEF QueueMoves
  <1> QED
    BY <1>1, <1>2

\* One row changes.
LEMMA OneMoves ==
    ASSUME Base, NEW j \in DOMAIN jobs, NEW b \in Jobs, jobs' = [jobs EXCEPT ![j] = b], Moved(jobs[j], b)
    PROVE  QueueMoves /\ jobs'[j] = b
  BY DEF QueueMoves, Moved, Base, Stored

\* A row is added.
LEMMA OneAdded ==
    ASSUME Base, NEW k, NEW d, NEW v, jobs' = Append(jobs, NewJob(k, d, v))
    PROVE  QueueMoves /\ \A j \in DOMAIN jobs : jobs'[j] = jobs[j]
  <1>1. NewJob(k, d, v).status = "pending" /\ NewJob(k, d, v).tries = 0
    BY DEF NewJob
  <1>2. jobs \in Seq(Jobs)
    BY DEF Base, Stored
  <1> HIDE DEF NewJob
  <1>3. /\ DOMAIN jobs \subseteq DOMAIN jobs' /\ \A j \in DOMAIN jobs : jobs'[j] = jobs[j]
        /\ \A j \in DOMAIN jobs' \ DOMAIN jobs : jobs'[j] = NewJob(k, d, v)
    BY <1>2
  <1> QED
    BY <1>1, <1>3 DEF QueueMoves, Moved

\* The worker claims, completes or fails a job, or a crash interrupts it.
LEMMA ClaimMoves ==
    ASSUME Base, Claim
    PROVE  QueueMoves /\ Running'
  <1>1. PICK j \in DOMAIN jobs :
          /\ jobs[j].status = "pending" /\ jobs' = [jobs EXCEPT ![j].status = "running"]
          /\ Start(Worker, jobs[j].kind, FirstStep(jobs[j].kind), jobs[j].doc, jobs[j].ver, j)
    BY DEF Claim
  <1>2. jobs[j] \in Jobs /\ [jobs[j] EXCEPT !.status = "running"] \in Jobs
    BY JobsAre, JobIs DEF Base
  <1>3. jobs' = [jobs EXCEPT ![j] = [jobs[j] EXCEPT !.status = "running"]]
    BY <1>1
  <1>4. LET b == [jobs[j] EXCEPT !.status = "running"] IN b.status = "running" /\ b.tries = jobs[j].tries
    BY <1>2 DEF Jobs
  <1>5. QueueMoves /\ jobs'[j].status = "running"
    BY <1>1, <1>2, <1>3, <1>4, OneMoves DEF Moved
  <1>6. proc'[Worker].job = j
    BY <1>1, IdleIs DEF Start, Base, Manned, Procs, Locals
  <1> QED
    BY <1>5, <1>6 DEF Running, QueueMoves

LEMMA CompleteMoves ==
    ASSUME Base, Running, Complete
    PROVE  QueueMoves /\ Running'
  <1> DEFINE j == proc[Worker].job
  <1>1. Ends(Worker) /\ proc[Worker].op # "none" /\ jobs' = [jobs EXCEPT ![j].status = "done"]
    BY CompleteAfter DEF Complete, Base, Manned, Fits, Legal, Procs
  <1>2. j \in DOMAIN jobs /\ jobs[j].status = "running"
    BY <1>1 DEF Running
  <1>3. jobs[j] \in Jobs /\ [jobs[j] EXCEPT !.status = "done"] \in Jobs
    BY <1>2, JobsAre, JobIs DEF Base
  <1>4. LET b == [jobs[j] EXCEPT !.status = "done"] IN b.status = "done" /\ b.tries = jobs[j].tries
    BY <1>3 DEF Jobs
  <1>5. jobs' = [jobs EXCEPT ![j] = [jobs[j] EXCEPT !.status = "done"]]
    BY <1>1
  <1>6. QueueMoves
    BY <1>2, <1>3, <1>4, <1>5, OneMoves DEF Moved
  <1> QED
    BY <1>1, <1>6, IdleIs DEF Running, Ends

LEMMA FailMoves ==
    ASSUME Base, Running, Raise(Worker) \/ ForeignKeyFails(Worker)
    PROVE  QueueMoves /\ Running'
  <1>0. /\ Worker \in Procs /\ proc \in [Procs -> Locals] /\ Fits(Worker, proc[Worker], born, tomb, wanted)
        /\ jobs \in Seq(Jobs)
    BY DEF Base, Manned, Stored, Procs
  <1>1. Aborts(Worker) /\ proc[Worker].pc # "idle"
    BY NoIdleStep, SharingAssumption DEF Raise, ForeignKeyFails, At
  <1>2. CASE Reprojecting(Worker)
    <2>1. jobs' = jobs /\ Keeps(Worker, "unlock")
      BY <1>0, <1>1, <1>2, GoesOn DEF Aborts, Goto, Put
    <2> QED
      BY <2>1 DEF Keeps, Changed, Running, QueueMoves, Moved
  <1>3. CASE ~Reprojecting(Worker)
    <2> DEFINE j == proc[Worker].job
    <2>1. jobs' = [jobs EXCEPT ![j] = Retried(jobs[j], 1)] /\ proc'[Worker] = Idle
      BY <1>0, <1>1, <1>3 DEF Aborts, JobFails, Goto
    <2>2. j \in DOMAIN jobs /\ jobs[j].status = "running"
      BY <1>0, <1>1 DEF Running, Fits, Legal
    <2>3. jobs[j] \in Jobs
      BY <2>2, JobsAre DEF Base
    <2>4. Retried(jobs[j], 1) \in Jobs /\ Moved(jobs[j], Retried(jobs[j], 1))
      BY <2>2, <2>3, RetriedIs, RetriedMoves
    <2>5. QueueMoves
      BY <2>1, <2>2, <2>4, OneMoves
    <2> QED
      BY <2>1, <2>5, IdleIs DEF Running
  <1> QED
    BY <1>2, <1>3

LEMMA CrashMoves ==
    ASSUME Base, Crash
    PROVE  QueueMoves /\ Running'
  <1>1. jobs \in Seq(Jobs) /\ \A j \in DOMAIN jobs : jobs[j] \in Jobs
    BY JobsAre DEF Base, Stored
  <1>2. DOMAIN jobs' = DOMAIN jobs /\ \A j \in DOMAIN jobs :
          jobs'[j] = IF jobs[j].status = "running" THEN [Retried(jobs[j], 1) EXCEPT !.due = TRUE] ELSE jobs[j]
    BY DEF Crash
  <1>3. \A j \in DOMAIN jobs : Moved(jobs[j], jobs'[j])
    <2> SUFFICES ASSUME NEW j \in DOMAIN jobs PROVE Moved(jobs[j], jobs'[j])
      OBVIOUS
    <2>1. CASE jobs[j].status = "running"
      BY <1>1, <1>2, <2>1, RetriedMoves
    <2>2. CASE jobs[j].status # "running"
      BY <1>2, <2>2 DEF Moved
    <2> QED
      BY <2>1, <2>2
  <1>4. proc'[Worker] = Idle
    BY DEF Crash, Procs
  <1> QED
    BY <1>2, <1>3, <1>4, IdleIs DEF QueueMoves, Running

\* Steps that change no row and leave the worker with its job.
LEMMA NoRowMoves ==
    ASSUME Running, jobs' = jobs, proc'[Worker].op = proc[Worker].op, proc'[Worker].job = proc[Worker].job
    PROVE  QueueMoves /\ Running'
  BY DEF QueueMoves, Running, Moved

\* Every step moves the rows as a queue does.
LEMMA NextMoves ==
    ASSUME Base, Running, [Next]_vars
    PROVE  QueueMoves /\ Running'
  <1>0. /\ Worker \in Procs /\ Threads \subseteq Procs /\ Worker \notin Threads /\ jobs \in Seq(Jobs)
        /\ proc \in [Procs -> Locals]
    BY DEF Base, Manned, Stored, Procs
  <1>1. CASE RequestIngest
    <2>1. PICK v \in Versions : jobs' = Append(jobs, NewJob("ingest", NoDoc, v))
      BY <1>1 DEF RequestIngest
    <2>2. QueueMoves /\ \A j \in DOMAIN jobs : jobs'[j] = jobs[j]
      BY <2>1, OneAdded
    <2> QED
      BY <1>1, <2>2 DEF RequestIngest, Running, QueueMoves
  <1>2. ASSUME NEW t \in Threads, EnqueueToggle(t)
        PROVE  QueueMoves /\ Running'
    <2>1. QueueMoves /\ \A j \in DOMAIN jobs : jobs'[j] = jobs[j]
      BY <1>2, OneAdded DEF EnqueueToggle
    <2>2. proc'[Worker] = proc[Worker]
      BY <1>0, <1>2 DEF EnqueueToggle
    <2> QED
      BY <2>1, <2>2 DEF Running, QueueMoves
  <1>3. ASSUME NEW t \in Threads, \/ \E k \in {"share", "unshare"} : RequestToggle(t, k)
                                  \/ RequestPublish(t) \/ RequestUnpublish(t)
                                  \/ \E d \in Docs : RequestAdmin(t, d) \/ RequestPurge(t, d)
        PROVE  QueueMoves /\ Running'
    <2>1. jobs' = jobs
      BY <1>3 DEF RequestToggle, RequestPublish, RequestUnpublish, RequestAdmin, RequestPurge, Serve
    <2>2. UNCHANGED proc \/ \E r \in Locals : Put(t, r)
      BY <1>3, RequestDoes
    <2>3. proc'[Worker] = proc[Worker]
      BY <1>0, <2>2 DEF Put
    <2> QED
      BY <2>1, <2>3, NoRowMoves
  <1>4. ASSUME NEW t \in Threads, Remove(t) \/ CheckPath(t) \/ Sweep(t) \/ Stamp(t) \/ Verify(t) \/ CommonStep(t)
        PROVE  QueueMoves /\ Running'
    BY <1>4, ThreadsApart, NoRowMoves
  <1>5. CASE \/ ReadSource \/ Recheck \/ Hash \/ Wipe \/ Write \/ Index \/ Look
             \/ Acquire(Worker) \/ Unlock(Worker) \/ InsertShared(Worker) \/ DeleteShared(Worker)
             \/ Clear(Worker) \/ Scroll(Worker) \/ Upsert(Worker)
    BY <1>5, WithinJob, NoRowMoves DEF WorkerSame
  <1>6. ASSUME NEW j \in DOMAIN jobs, BackoffElapses(j)
        PROVE  QueueMoves /\ Running'
    <2>1. jobs[j] \in Jobs
      BY JobsAre DEF Base
    <2> DEFINE b == [jobs[j] EXCEPT !.due = TRUE]
    <2>2. b \in Jobs /\ b.status = jobs[j].status /\ b.tries = jobs[j].tries
      BY <2>1, JobIs DEF Jobs
    <2>3. jobs' = [jobs EXCEPT ![j] = b] /\ UNCHANGED proc
      BY <1>6 DEF BackoffElapses
    <2> HIDE DEF b
    <2>4. QueueMoves /\ jobs'[j].status = jobs[j].status
      BY <2>2, <2>3, OneMoves DEF Moved
    <2>5. \A i \in DOMAIN jobs : i # j => jobs'[i] = jobs[i]
      BY <2>3
    <2> QED
      BY <2>3, <2>4, <2>5 DEF Running, QueueMoves
  <1>7. CASE UNCHANGED vars
    BY <1>7, NoRowMoves DEF vars
  <1> QED
    BY <1>1, <1>2, <1>3, <1>4, <1>5, <1>6, <1>7, ClaimMoves, CompleteMoves, FailMoves, CrashMoves
    DEF Next, ThreadStep, WorkerStep, CommonStep, Procs

\* What the rows do is what the ledger allows.
LEMMA LedgerSteps ==
    ASSUME jobs \in Seq(Jobs), jobs' \in Seq(Jobs), Waiting, QueueMoves, NEW j \in 1 .. MaxJobs
    PROVE  LedgerStep(j)
  <1>1. CASE j \notin DOMAIN jobs'
    <2>1. j \notin DOMAIN jobs
      BY <1>1 DEF QueueMoves
    <2> QED
      BY <1>1, <2>1 DEF LedgerStep, Ledger!Stay, Phase, Starts
  <1>2. CASE j \in DOMAIN jobs' \ DOMAIN jobs
    <2>1. jobs'[j].status = "pending" /\ jobs'[j].tries = 0
      BY <1>2 DEF QueueMoves
    <2>2. Phase[j] = "absent" /\ Phase'[j] = "pending"
      BY <1>2, <2>1 DEF Phase
    <2>3. Starts[j] = 0 /\ Starts'[j] = 0
      BY <1>2, <2>1 DEF Starts
    <2> QED
      BY <2>2, <2>3 DEF LedgerStep, Ledger!Submit, Ledger!Moves
  <1>3. CASE j \in DOMAIN jobs
    <2>0. j \in DOMAIN jobs' /\ Moved(jobs[j], jobs'[j])
      BY <1>3 DEF QueueMoves
    <2>1. /\ jobs[j].tries \in Nat /\ jobs'[j].tries \in Nat /\ MaxTries \in Nat
          /\ jobs[j].status \in {"pending", "running", "done", "dead"}
      <3>1. jobs[j] \in Jobs /\ jobs'[j] \in Jobs
        BY <1>3, <2>0
      <3>2. MaxTries \in Nat /\ \A a \in Jobs : a.tries \in Nat /\ a.status \in {"pending", "running", "done", "dead"}
        BY DEF Jobs
      <3> QED
        BY <3>1, <3>2
    <2>2. /\ Phase[j] = jobs[j].status /\ Phase'[j] = jobs'[j].status
          /\ Starts[j] = jobs[j].tries + IF jobs[j].status \in {"running", "done"} THEN 1 ELSE 0
          /\ Starts'[j] = jobs'[j].tries + IF jobs'[j].status \in {"running", "done"} THEN 1 ELSE 0
      <3>1. Phase[j] = jobs[j].status /\ Phase'[j] = jobs'[j].status
        BY <1>3, <2>0 DEF Phase
      <3>2. Starts[j] = jobs[j].tries + IF jobs[j].status \in {"running", "done"} THEN 1 ELSE 0
        BY <1>3 DEF Starts
      <3>3. Starts'[j] = jobs'[j].tries + IF jobs'[j].status \in {"running", "done"} THEN 1 ELSE 0
        BY <2>0 DEF Starts
      <3> QED
        BY <3>1, <3>2, <3>3
    <2>3. CASE jobs'[j].status = jobs[j].status /\ jobs'[j].tries = jobs[j].tries
      BY <2>2, <2>3 DEF LedgerStep, Ledger!Stay
    <2>4. CASE jobs[j].status = "pending" /\ jobs'[j].status = "running" /\ jobs'[j].tries = jobs[j].tries
      <3>1. Starts[j] = jobs[j].tries /\ Starts'[j] = jobs[j].tries + 1 /\ jobs[j].tries <= MaxTries
        BY <1>3, <2>1, <2>2, <2>4 DEF Waiting
      <3> QED
        BY <2>1, <2>2, <2>4, <3>1 DEF LedgerStep, Ledger!Start, Ledger!Moves, Ledger!Budget
    <2>5. CASE jobs[j].status = "running" /\ jobs'[j].status = "done" /\ jobs'[j].tries = jobs[j].tries
      <3>1. Starts[j] > 0 /\ Starts'[j] = Starts[j]
        BY <2>1, <2>2, <2>5
      <3> QED
        BY <2>2, <2>5, <3>1 DEF LedgerStep, Ledger!Finish, Ledger!Moves
    <2>6. CASE /\ jobs[j].status = "running" /\ jobs'[j].tries = jobs[j].tries + 1
               /\ jobs'[j].status = IF jobs'[j].tries < MaxTries THEN "pending" ELSE "dead"
      <3>1. Starts[j] = jobs[j].tries + 1 /\ Starts'[j] = jobs[j].tries + 1
        BY <2>1, <2>2, <2>6
      <3> QED
        BY <2>1, <2>2, <2>6, <3>1
        DEF LedgerStep, Ledger!Requeue, Ledger!GiveUp, Ledger!Moves, Ledger!Budget
    <2> QED
      BY <2>0, <2>3, <2>4, <2>5, <2>6 DEF Moved
  <1> QED
    BY <1>1, <1>2, <1>3

(* The jobs of DocumentSharing refine JobLedger, as BatchQueue does: over    *)
(* errors, retries and crashes no settled job starts again, none is given    *)
(* up before its attempts are spent, and none is done that never started     *)
(* (services/batch_queue.py, fail and complete).                             *)
THEOREM SharingKeepsLedger == Spec => ImplementsJobLedger
  <1>1. Init => Ledger!Init /\ Running /\ Waiting
    <2>1. Init => Running /\ Waiting
      BY IdleIs DEF Init, Running, Waiting, Procs
    <2>2. Init => Phase = [j \in 1 .. MaxJobs |-> "absent"] /\ Starts = [j \in 1 .. MaxJobs |-> 0]
      BY DEF Init, Phase, Starts
    <2> QED
      BY <2>1, <2>2 DEF Ledger!Init
  <1>2. Base /\ Running /\ Waiting /\ [Next]_vars => Running' /\ Waiting'
    BY NextMoves, StillWaiting DEF Base, Stored
  <1>3. Base /\ Base' /\ Running /\ Waiting /\ [Next]_vars => [Ledger!Next]_(Ledger!vars)
    BY NextMoves, LedgerSteps DEF Base, Stored, Ledger!Next, LedgerStep
  <1> QED
    BY <1>1, <1>2, <1>3, BaseHolds, PTL DEF Spec, ImplementsJobLedger, Ledger!Spec

=============================================================================
