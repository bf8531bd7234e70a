--------------------------- MODULE EntityCascade ---------------------------
(***************************************************************************)
(* The shared entities of one owner's documents:                           *)
(*   - the personal entities, the documents that mention them              *)
(*     (entity_relations) and the documents that are shared (file_index);  *)
(*   - the shared projection row of an entity with its share_origin, and   *)
(*     its shared point in the vector store;                               *)
(*   - the batch worker, which runs share, unshare and ingest jobs under   *)
(*     the lock of the document (batch_handlers/share_document.py,         *)
(*     services/document_entity_cascade.py, services/projection.py);       *)
(*   - request threads: the purge, which takes the same lock, and the      *)
(*     routes that take none: publish and unpublish of an entity, and the  *)
(*     unpublish of a document by its owner or an administrator.           *)
(*                                                                         *)
(* Every SQL statement and every call of the vector store is one step, but *)
(* for the last deletes of the purge transaction, which are one. The graph *)
(* feature is on, no row predates share_origin, and no entity is staged.   *)
(* The chunks of a document are the subject of DocumentSharing.            *)
(***************************************************************************)
EXTENDS Naturals, FiniteSets

CONSTANTS Docs,       \* documents of the owner
          Entities,   \* ids that personal entities have or are given
          Mentioned,  \* Mentioned[d]: the entities extracted from d at first
          Rooted,     \* entities that other evidence relates too: never orphans
          Worker,     \* the batch worker loop
          Threads,    \* request threads
          Requests,   \* the operations that are started, a subset of Operations
          MaxCalls,   \* bound: operations started
          MaxFaults   \* bound: statements and calls that raise

Procs == Threads \cup {Worker}
Jobs  == {"share", "unshare", "ingest"}
Locking == Jobs \cup {"purge"}
\* withdraw is the unpublish route of a document, or the administrator's.
OfDocument == Locking \cup {"withdraw"}
OfEntity   == {"publish", "unpublish"}
Operations == OfDocument \cup OfEntity
Origins    == {"none", "document", "user", "multiple"}
Steps == {"idle", "store", "prune", "look", "lock", "cover", "uncover", "list", "point",
          "row", "undo", "plan", "drop", "erase", "orphans", "commit", "wipe", "arm", "unlock"}
Free   == "free"
NoDoc  == "no document"
NoOne  == "no entity"

ASSUME CascadeAssumption ==
  /\ Mentioned \in [Docs -> SUBSET Entities]
  /\ Rooted \subseteq Entities
  /\ Worker \notin Threads
  /\ Free \notin Procs /\ NoDoc \notin Docs /\ NoOne \notin Entities
  /\ Requests \subseteq Operations
  /\ MaxCalls \in Nat /\ MaxFaults \in Nat

VARIABLES personal,  \* entities with a personal row
          gone,      \* entities whose personal row the garbage collection deleted
          source,    \* documents with a personal row
          shared,    \* documents with a shared row
          mentions,  \* mentions[d]: entities related to d by evidence DOCUMENT
          origin,    \* origin[e]: share_origin of the shared row, or none
          points,    \* entities with a shared point
          lock,      \* lock[d]: holder of share_document_lock
          op,        \* op[p]: what p runs
          at,        \* at[p]: its next step
          doc,       \* doc[p]: the document it is about
          ent,       \* ent[p]: the entity it handles now
          todo,      \* todo[p]: entities of its list or plan still to handle
          fix,       \* fix[p]: rows its plan downgrades
          gc,        \* gc[p]: relations an ingest pruned, orphans a purge collects
          calls, faults,
          asked,     \* ghost: entities the owner published and did not unpublish
          crossed,   \* ghost: entities that two operations handled across one
                     \*   another, or that a projection or a retraction skipped
          late,      \* ghost: entities the owner published while a retraction of
                     \*   them was planned, or unpublished while a downgrade was
          spoilt     \* ghost: entities whose point could not be deleted

tables == <<personal, gone, source, mentions>>
counts == <<calls, faults>>
ghosts == <<asked, crossed, late, spoilt>>
vars   == <<tables, shared, origin, points, lock, op, at, doc, ent, todo, fix, gc,
            calls, faults, ghosts>>

Subject == <<op, doc>>
Plans   == <<todo, fix, gc>>

At(p, s) == at[p] = s
Holds(e) == origin[e] # "none"

\* Before the first step some documents have been shared by finished jobs.
Init ==
  /\ \E S \in SUBSET Docs :
       LET seen == UNION {Mentioned[d] : d \in S} IN
         /\ shared = S
         /\ origin = [e \in Entities |-> IF e \in seen THEN "document" ELSE "none"]
         /\ points = seen
  /\ personal = Rooted \cup UNION {Mentioned[d] : d \in Docs}
  /\ gone = {} /\ source = Docs /\ mentions = Mentioned
  /\ lock = [d \in Docs |-> Free]
  /\ op = [p \in Procs |-> "share"] /\ at = [p \in Procs |-> "idle"]
  /\ doc = [p \in Procs |-> NoDoc] /\ ent = [p \in Procs |-> NoOne]
  /\ todo = [p \in Procs |-> {}] /\ fix = [p \in Procs |-> {}] /\ gc = [p \in Procs |-> {}]
  /\ calls = 0 /\ faults = 0
  /\ asked = {} /\ crossed = {} /\ late = {} /\ spoilt = {}


Goto(p, s) == at' = [at EXCEPT ![p] = s] /\ UNCHANGED Subject
Forget(p) ==
  /\ ent' = [ent EXCEPT ![p] = NoOne]
  /\ todo' = [todo EXCEPT ![p] = {}]
  /\ fix' = [fix EXCEPT ![p] = {}]
  /\ gc' = [gc EXCEPT ![p] = {}]
Finish(p) ==
  /\ at' = [at EXCEPT ![p] = "idle"]
  /\ op' = [op EXCEPT ![p] = "share"]
  /\ doc' = [doc EXCEPT ![p] = NoDoc]
  /\ Forget(p)
\* Where p goes on when its operation is over, with the lock or without.
Leave(p) == IF op[p] \in Locking THEN Goto(p, "unlock") /\ Forget(p) ELSE Finish(p)

FirstStep(o) ==
  CASE o = "ingest"    -> "store"
    [] o = "withdraw"  -> "uncover"
    [] o = "publish"   -> "point"
    [] o = "unpublish" -> "drop"
    [] OTHER           -> "lock"

\* A job of the worker or a request of a thread begins with the look at the row
\* it is about.
Begin(p, o) ==
  /\ At(p, "idle") /\ o \in Requests /\ (o \in Jobs <=> p = Worker)
  /\ calls < MaxCalls
  /\ op' = [op EXCEPT ![p] = o]
  /\ at' = [at EXCEPT ![p] = FirstStep(o)]
  /\ \/ /\ o \in OfDocument
        /\ \E d \in source : doc' = [doc EXCEPT ![p] = d]
        /\ UNCHANGED todo
     \/ /\ o \in OfEntity
        /\ \E e \in personal : todo' = [todo EXCEPT ![p] = {e}]
        /\ UNCHANGED doc
  /\ calls' = calls + 1
  /\ UNCHANGED <<tables, shared, origin, points, lock, ent, fix, gc, faults, ghosts>>

(***************************************************************************)
(* The lock of a document, and a job's second look under it.               *)
(***************************************************************************)
Lock(p) ==
  LET d == doc[p] IN
  /\ At(p, "lock") /\ lock[d] = Free
  /\ lock' = [lock EXCEPT ![d] = p]
  /\ Goto(p, CASE op[p] = "share" -> "cover" [] op[p] = "ingest" -> "plan"
               [] OTHER -> "uncover")
  /\ UNCHANGED <<tables, shared, origin, points, ent, Plans, counts, ghosts>>

Unlock(p) ==
  /\ At(p, "unlock")
  /\ lock' = [lock EXCEPT ![doc[p]] = Free]
  /\ Finish(p)
  /\ UNCHANGED <<tables, shared, origin, points, counts, ghosts>>

(***************************************************************************)
(* Projection: the share job and the re-ingest of a shared document go     *)
(* through the entities of the document, publish handles one.              *)
(***************************************************************************)
Mentions(e, D) == \E d \in D : e \in mentions[d]

\* A share job whose document was purged meanwhile does nothing.
Cover(p) ==
  LET d == doc[p] IN
  /\ At(p, "cover")
  /\ \/ /\ d \in source
        /\ shared' = shared \cup {d}
        /\ Goto(p, "list") /\ UNCHANGED <<ent, Plans>>
     \/ d \notin source /\ UNCHANGED shared /\ Leave(p)
  /\ UNCHANGED <<tables, origin, points, lock, counts, ghosts>>

List(p) ==
  /\ At(p, "list")
  /\ Goto(p, "point")
  /\ todo' = [todo EXCEPT ![p] = mentions[doc[p]] \cap personal]
  /\ UNCHANGED <<tables, shared, origin, points, lock, ent, fix, gc, counts, ghosts>>

UpsertPoint(p) ==
  /\ At(p, "point")
  /\ \E e \in todo[p] :
       /\ points' = points \cup {e}
       /\ ent' = [ent EXCEPT ![p] = e]
       /\ todo' = [todo EXCEPT ![p] = @ \ {e}]
  /\ Goto(p, "row")
  /\ UNCHANGED <<tables, shared, origin, lock, fix, gc, counts, ghosts>>

EndList(p) ==
  /\ At(p, "point") /\ todo[p] = {}
  /\ Leave(p)
  /\ UNCHANGED <<tables, shared, origin, points, lock, counts, ghosts>>

\* Mutant: the last reason to share is the one that is kept.
PromotedLast(old, new) == new

\* ON CONFLICT ... share_origin: a second reason to share makes it multiple.
Promoted(old, new) == IF old \in {"none", new} THEN new ELSE "multiple"

\* A retraction planned before e was shared anew will delete the row.
Planned(e) ==
  \E q \in Procs :
    \/ at[q] \in {"drop", "erase", "orphans", "commit"} /\ e \in todo[q]
    \/ At(q, "commit") /\ e \in gc[q]

InsertRow(p) ==
  LET e == ent[p]
      new == IF op[p] = "publish" THEN "user" ELSE "document" IN
  /\ At(p, "row") /\ e \in personal
  /\ origin' = [origin EXCEPT ![e] = Promoted(@, new)]
  /\ IF new = "user"
     THEN /\ asked' = asked \cup {e}
          /\ late' = IF Planned(e) THEN late \cup {e} ELSE late \ {e}
     ELSE UNCHANGED <<asked, late>>
  /\ crossed' = IF Planned(e) \/ (new = "document" /\ doc[p] \notin shared)
                THEN crossed \cup {e} ELSE crossed
  /\ Goto(p, "point") /\ ent' = [ent EXCEPT ![p] = NoOne]
  /\ UNCHANGED <<tables, shared, points, lock, Plans, counts, spoilt>>

\* Mutant: the point of a refused row is left.
InsertRefusedLeft(p) ==
  /\ At(p, "row") /\ ent[p] \notin personal
  /\ Goto(p, "point") /\ ent' = [ent EXCEPT ![p] = NoOne]
  /\ UNCHANGED <<tables, shared, origin, points, lock, Plans, counts, ghosts>>

\* The personal row is gone: the foreign key refuses the insert.
InsertRefused(p) ==
  /\ At(p, "row") /\ ent[p] \notin personal
  /\ Goto(p, "undo")
  /\ UNCHANGED <<tables, shared, origin, points, lock, ent, Plans, counts, ghosts>>

UndoPoint(p) ==
  /\ At(p, "undo")
  /\ points' = points \ {ent[p]}
  /\ Goto(p, "point") /\ ent' = [ent EXCEPT ![p] = NoOne]
  /\ UNCHANGED <<tables, shared, origin, lock, Plans, counts, ghosts>>

(***************************************************************************)
(* Retraction: what a document no longer justifies.                        *)
(***************************************************************************)
\* unproject_file: without a shared row there is nothing to retract. A job
\* looks at the personal row first.
Uncover(p) ==
  LET d == doc[p]
      here == op[p] = "unshare" => d \in source IN
  /\ At(p, "uncover")
  /\ shared' = IF here THEN shared \ {d} ELSE shared
  /\ IF here /\ (d \in shared \/ op[p] = "purge")
     THEN Goto(p, "plan") /\ UNCHANGED <<ent, Plans>>
     ELSE Leave(p)
  /\ UNCHANGED <<tables, origin, points, lock, counts, ghosts>>

\* Mutants: any other document counts, shared or not; no other document counts.
UnjustifiedByAny(p) ==
  {e \in (IF op[p] = "ingest" THEN gc[p] ELSE mentions[doc[p]]) \cap personal :
     Holds(e) /\ ~Mentions(e, source \ {doc[p]})}
UnjustifiedByOne(p) ==
  {e \in (IF op[p] = "ingest" THEN gc[p] ELSE mentions[doc[p]]) : Holds(e)}

\* The entities that p's operation may retract: those an ingest pruned, or all
\* the document mentions, as far as they are projected and no other shared
\* document mentions them.
Unjustified(p) ==
  {e \in (IF op[p] = "ingest" THEN gc[p] ELSE mentions[doc[p]]) \cap personal :
     Holds(e) /\ ~Mentions(e, shared \ {doc[p]})}

\* A withdrawal takes no lock: the document may be shared again by now.
Plan(p) ==
  LET retract == {e \in Unjustified(p) : origin[e] = "document"} IN
  /\ At(p, "plan")
  /\ Goto(p, IF op[p] = "purge" THEN "orphans" ELSE "drop")
  /\ todo' = [todo EXCEPT ![p] = retract]
  /\ fix' = [fix EXCEPT ![p] = {e \in Unjustified(p) : origin[e] = "multiple"}]
  /\ crossed' = IF op[p] = "withdraw" /\ doc[p] \in shared
                THEN crossed \cup retract ELSE crossed
  /\ UNCHANGED <<tables, shared, origin, points, lock, ent, gc, counts, asked, late, spoilt>>

\* A plan made while e was published will call it the owner's.
Kept(e) == \E q \in Procs : e \in fix[q]

\* unproject_entity, called for a plan or by the unpublish of an entity, which
\* takes the row of a shared document's entity too.
DropRow(p) ==
  /\ At(p, "drop")
  /\ \E e \in todo[p] :
       /\ origin' = [origin EXCEPT ![e] = "none"]
       /\ ent' = [ent EXCEPT ![p] = e]
       /\ todo' = [todo EXCEPT ![p] = @ \ {e}]
       /\ IF op[p] = "unpublish"
          THEN /\ asked' = asked \ {e}
               /\ late' = IF Kept(e) THEN late \cup {e} ELSE late \ {e}
               /\ crossed' = IF Mentions(e, shared) \/ Kept(e)
                             THEN crossed \cup {e} ELSE crossed
          ELSE UNCHANGED <<asked, late, crossed>>
  /\ Goto(p, "erase")
  /\ UNCHANGED <<tables, shared, points, lock, fix, gc, counts, spoilt>>

ErasePoint(p) ==
  /\ At(p, "erase")
  /\ points' = points \ {ent[p]}
  /\ Goto(p, "drop") /\ ent' = [ent EXCEPT ![p] = NoOne]
  /\ UNCHANGED <<tables, shared, origin, lock, Plans, counts, ghosts>>

\* The rows that remain and are to be downgraded, in one statement.
Downgraded(p) == [e \in Entities |-> IF e \in fix[p] /\ Holds(e) THEN "user" ELSE origin[e]]

EndPlan(p) ==
  /\ At(p, "drop") /\ todo[p] = {}
  /\ origin' = Downgraded(p)
  /\ \/ /\ op[p] = "ingest"
        /\ Goto(p, "list") /\ Forget(p)
     \/ op[p] # "ingest" /\ Leave(p)
  /\ UNCHANGED <<tables, shared, points, lock, counts, ghosts>>

(***************************************************************************)
(* Re-ingest: new relations, the prune of old ones, and the re-projection  *)
(* of a document that is still shared.                                     *)
(***************************************************************************)
Extract(p) ==
  LET d == doc[p] IN
  /\ At(p, "store")
  /\ \E X \in SUBSET (Entities \ gone) :
       /\ personal' = personal \cup X
       /\ mentions' = [mentions EXCEPT ![d] = @ \cup X]
       /\ todo' = [todo EXCEPT ![p] = X]
  /\ Goto(p, "prune")
  /\ UNCHANGED <<gone, source, shared, origin, points, lock, ent, fix, gc, counts, ghosts>>

Prune(p) ==
  LET d == doc[p] IN
  /\ At(p, "prune")
  /\ mentions' = [mentions EXCEPT ![d] = @ \cap todo[p]]
  /\ gc' = [gc EXCEPT ![p] = mentions[d] \ todo[p]]
  /\ todo' = [todo EXCEPT ![p] = {}]
  /\ Goto(p, "look")
  /\ UNCHANGED <<personal, gone, source, shared, origin, points, lock, ent, fix, counts, ghosts>>

\* A shared row that only a document justified, and none does any more.
Stray(e) == origin[e] = "document" /\ ~Mentions(e, shared)

\* A document that is not shared when the ingest looks retracts nothing.
Look(p) ==
  LET d == doc[p] IN
  /\ At(p, "look")
  /\ IF d \in source \cap shared
     THEN Goto(p, "lock") /\ UNCHANGED <<ent, Plans, crossed>>
     ELSE Finish(p) /\ crossed' = crossed \cup {e \in gc[p] : Stray(e)}
  /\ UNCHANGED <<tables, shared, origin, points, lock, counts, asked, late, spoilt>>

(***************************************************************************)
(* The purge: a plan, the orphans, the deletes, and then the points.       *)
(***************************************************************************)
Orphans(p) ==
  LET d == doc[p] IN
  /\ At(p, "orphans")
  /\ gc' = [gc EXCEPT ![p] = {e \in (mentions[d] \cap personal) \ Rooted :
                ~Mentions(e, Docs \ {d}) /\ origin[e] \notin {"user", "multiple"}}]
  /\ Goto(p, "commit")
  /\ UNCHANGED <<tables, shared, origin, points, lock, ent, todo, fix, counts, ghosts>>

\* Deleting a personal row cascades to its shared row and to its relations.
Commit(p) ==
  LET d == doc[p]
      lost == gc[p] IN
  /\ At(p, "commit")
  /\ personal' = personal \ lost /\ gone' = gone \cup lost
  /\ source' = source \ {d}
  /\ mentions' = [x \in Docs |-> IF x = d THEN {} ELSE mentions[x] \ lost]
  /\ origin' = [e \in Entities |-> IF e \in lost \cup todo[p] THEN "none"
                                                                   ELSE Downgraded(p)[e]]
  /\ Goto(p, "wipe") /\ fix' = [fix EXCEPT ![p] = {}]
  /\ UNCHANGED <<shared, points, lock, ent, todo, gc, counts, ghosts>>

WipePoints(p) ==
  /\ At(p, "wipe")
  /\ points' = points \ todo[p]
  /\ Goto(p, "arm") /\ todo' = [todo EXCEPT ![p] = {}]
  /\ UNCHANGED <<tables, shared, origin, lock, ent, fix, gc, counts, ghosts>>

EntityArm(p) ==
  /\ At(p, "arm")
  /\ points' = points \ gc[p]
  /\ Goto(p, "unlock") /\ gc' = [gc EXCEPT ![p] = {}]
  /\ UNCHANGED <<tables, shared, origin, lock, ent, todo, fix, counts, ghosts>>

(***************************************************************************)
(* Statements and calls that raise. Projections count the entity as failed *)
(* and go on, retractions log it and go on, deletes of points are swallowed *)
(* and an error of a plan ends the operation. A purge whose transaction    *)
(* raises is rolled back and is left out.                                  *)
(***************************************************************************)
RaiseProject(p) ==
  /\ \/ /\ At(p, "point")
        /\ \E e \in todo[p] :
             /\ todo' = [todo EXCEPT ![p] = @ \ {e}]
             /\ crossed' = crossed \cup {e}
        /\ Goto(p, "point")
     \/ /\ At(p, "row")
        /\ crossed' = crossed \cup {ent[p]}
        /\ Goto(p, "undo") /\ UNCHANGED todo
  /\ UNCHANGED <<tables, shared, origin, points, lock, ent, fix, gc, calls, asked, late, spoilt>>

RaiseDrop(p) ==
  /\ At(p, "drop")
  /\ \E e \in todo[p] :
       /\ todo' = [todo EXCEPT ![p] = @ \ {e}]
       /\ crossed' = crossed \cup {e}
  /\ UNCHANGED <<tables, shared, origin, points, lock, Subject, at, ent, fix, gc, calls, asked, late, spoilt>>

RaisePlan(p) ==
  /\ At(p, "plan") /\ op[p] # "purge"
  /\ Leave(p)
  /\ crossed' = crossed \cup gc[p] \cup mentions[doc[p]]
  /\ UNCHANGED <<tables, shared, origin, points, lock, calls, asked, late, spoilt>>

RaisePrune(p) ==
  /\ At(p, "prune")
  /\ Goto(p, "look") /\ todo' = [todo EXCEPT ![p] = {}]
  /\ UNCHANGED <<tables, shared, origin, points, lock, ent, fix, gc, calls, ghosts>>

RaiseDelete(p) ==
  /\ at[p] \in {"undo", "erase"}
  /\ Goto(p, IF At(p, "undo") THEN "point" ELSE "drop")
  /\ ent' = [ent EXCEPT ![p] = NoOne]
  /\ spoilt' = spoilt \cup {ent[p]}
  /\ UNCHANGED <<tables, shared, origin, points, lock, Plans, calls, asked, late, crossed>>

RaiseWipe(p) ==
  /\ \/ /\ At(p, "wipe")
        /\ Goto(p, "arm") /\ todo' = [todo EXCEPT ![p] = {}] /\ UNCHANGED gc
        /\ spoilt' = spoilt \cup todo[p]
     \/ /\ At(p, "arm")
        /\ Goto(p, "unlock") /\ gc' = [gc EXCEPT ![p] = {}] /\ UNCHANGED todo
        /\ spoilt' = spoilt \cup gc[p]
  /\ UNCHANGED <<tables, shared, origin, points, lock, ent, fix, calls, asked, late, crossed>>

Fault(p) ==
  /\ faults < MaxFaults /\ faults' = faults + 1
  /\ \/ RaiseProject(p) \/ RaiseDrop(p) \/ RaisePlan(p)
     \/ RaisePrune(p) \/ RaiseDelete(p) \/ RaiseWipe(p)

Project(p) == Cover(p) \/ List(p) \/ UpsertPoint(p) \/ EndList(p) \/ InsertRow(p)
              \/ InsertRefused(p) \/ UndoPoint(p)
Retract(p) == Uncover(p) \/ Plan(p) \/ DropRow(p) \/ ErasePoint(p) \/ EndPlan(p)
Ingest(p)  == Extract(p) \/ Prune(p) \/ Look(p)
Purge(p)   == Orphans(p) \/ Commit(p) \/ WipePoints(p) \/ EntityArm(p)

Next ==
  \E p \in Procs :
    \/ \E o \in Requests : Begin(p, o)
    \/ Lock(p) \/ Unlock(p)
    \/ Project(p) \/ Retract(p) \/ Ingest(p) \/ Purge(p)
    \/ Fault(p)

Spec == Init /\ [][Next]_vars

(***************************************************************************)
(* Properties.                                                             *)
(***************************************************************************)
\* The types of all variables.
TypeOK ==
  /\ personal \in SUBSET Entities /\ gone \in SUBSET Entities
  /\ source \in SUBSET Docs /\ shared \in SUBSET Docs
  /\ mentions \in [Docs -> SUBSET Entities]
  /\ origin \in [Entities -> Origins] /\ points \in SUBSET Entities
  /\ lock \in [Docs -> Procs \cup {Free}]
  /\ op \in [Procs -> Operations] /\ at \in [Procs -> Steps]
  /\ doc \in [Procs -> Docs \cup {NoDoc}] /\ ent \in [Procs -> Entities \cup {NoOne}]
  /\ todo \in [Procs -> SUBSET Entities] /\ fix \in [Procs -> SUBSET Entities]
  /\ gc \in [Procs -> SUBSET Entities]
  /\ calls \in 0 .. MaxCalls /\ faults \in 0 .. MaxFaults
  /\ asked \in SUBSET Entities /\ crossed \in SUBSET Entities
  /\ late \in SUBSET Entities /\ spoilt \in SUBSET Entities

AtRest == \A p \in Procs : At(p, "idle")

\* plan_document_entity_retraction counts references: when nothing runs, a row
\* that only documents justified is mentioned by one that is shared, whatever
\* was unshared, purged and re-ingested side by side.
OrphanFree == AtRest => \A e \in Entities \ crossed : ~Stray(e)

\* The count is never too low: when nothing runs, every entity that a shared
\* document mentions is shared.
MentionedIsShared ==
  AtRest => \A d \in shared : \A e \in (mentions[d] \cap personal) \ crossed : Holds(e)

\* share_origin: what the owner published stays shared through every unshare,
\* purge and re-ingest of its documents, and nothing else is called theirs, in
\* every order but two, in which a plan is carried out after the owner has acted:
\* an entity published between the plan of its retraction and the delete (that
\* share is lost), and one unpublished between the plan of its downgrade and the
\* update (a row that a document makes meanwhile is called the owner's).
AskedIsShared ==
  \A e \in Entities \ late : e \in asked <=> origin[e] \in {"user", "multiple"}

\* _insert_projection_or_rollback_qdrant: when nothing runs, no point that the
\* household can find is without the row by which its owner can unshare it.
NoHiddenPoint == AtRest => \A e \in points \ spoilt : Holds(e)
=============================================================================
