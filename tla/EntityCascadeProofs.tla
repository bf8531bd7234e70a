------------------------ MODULE EntityCascadeProofs ------------------------
(***************************************************************************)
(* Proofs about EntityCascade: the four safety properties hold for any     *)
(* documents, entities, request threads, numbers of operations and faults. *)
(***************************************************************************)
EXTENDS EntityCascade, TLAPS

USE CascadeAssumption

-----------------------------------------------------------------------------
(***************************************************************************)
(* Where operations are: what each step belongs to, and who holds a lock.  *)
(***************************************************************************)
Belongs ==
  \A p \in Procs :
    /\ At(p, "idle") => todo[p] = {} /\ fix[p] = {} /\ gc[p] = {}
    /\ ~At(p, "idle") => (op[p] \in Jobs <=> p = Worker)
    /\ op[p] \in OfDocument /\ ~At(p, "idle") => doc[p] \in Docs
    /\ at[p] \in {"row", "undo", "erase"} => ent[p] \in Entities
    /\ at[p] \in {"store", "prune", "look"} => op[p] = "ingest"
    /\ at[p] \in {"store", "prune"} => gc[p] = {}
    /\ at[p] \in {"orphans", "commit", "wipe", "arm"} => op[p] = "purge"
    /\ At(p, "cover") => op[p] = "share"
    /\ At(p, "list") => op[p] \in {"share", "ingest"}
    /\ at[p] \in {"point", "row", "undo"} => op[p] \in {"share", "ingest", "publish"}
    /\ At(p, "uncover") => op[p] \in {"unshare", "withdraw", "purge"}
    /\ At(p, "plan") => op[p] \in {"unshare", "withdraw", "purge", "ingest"}
    /\ at[p] \in {"drop", "erase"} => op[p] \in {"unshare", "withdraw", "ingest", "unpublish"}
    /\ at[p] \in {"lock", "unlock"} => op[p] \in Locking
    /\ fix[p] # {} => at[p] \in {"drop", "erase", "orphans", "commit"}

\* The steps that are taken under the lock of the document.
Inside(p) == op[p] \in Locking /\ at[p] \notin {"idle", "store", "prune", "look", "lock"}
LockHeld == \A p \in Procs : Inside(p) => lock[doc[p]] = p

\* Leaving an operation keeps the types of what it holds.
LEMMA LeaveTypes ==
    ASSUME TypeOK, NEW p \in Procs, Leave(p)
    PROVE  /\ op' \in [Procs -> Operations] /\ at' \in [Procs -> Steps]
           /\ doc' \in [Procs -> Docs \cup {NoDoc}] /\ ent' \in [Procs -> Entities \cup {NoOne}]
           /\ todo' \in [Procs -> SUBSET Entities] /\ fix' \in [Procs -> SUBSET Entities]
           /\ gc' \in [Procs -> SUBSET Entities]
  <1> USE DEF TypeOK, Steps, Forget, Subject
  <1>1. CASE op[p] \in Locking
    BY <1>1 DEF Leave, Goto
  <1>2. CASE op[p] \notin Locking
    BY <1>2 DEF Leave, Finish, Operations, OfDocument, Locking, Jobs
  <1> QED
    BY <1>1, <1>2

\* The types are kept by every step.
LEMMA TypeInductive ==
    ASSUME TypeOK, Belongs, [Next]_vars
    PROVE  TypeOK'
  <1> USE DEF tables, counts, ghosts, Plans, Subject, TypeOK, At, Steps
  <1>1. ASSUME NEW p \in Procs, NEW o \in Requests, Begin(p, o)
        PROVE  TypeOK'
    BY <1>1 DEF Begin, Operations, OfDocument, OfEntity, Locking, Jobs, FirstStep
  <1>2. ASSUME NEW p \in Procs, Lock(p)
        PROVE  TypeOK'
    BY <1>2 DEF Lock, Goto
  <1>3. ASSUME NEW p \in Procs, Unlock(p)
        PROVE  TypeOK'
    BY <1>3 DEF Unlock, Finish, Forget, Operations, OfDocument, Locking, Jobs
  <1>4. ASSUME NEW p \in Procs, Cover(p)
        PROVE  TypeOK'
    <2>1. CASE doc[p] \in source
      BY <1>4, <2>1 DEF Cover, Goto
    <2>2. CASE doc[p] \notin source
      BY <1>4, <2>2, LeaveTypes DEF Cover
    <2> QED
      BY <2>1, <2>2
  <1>5. ASSUME NEW p \in Procs, List(p)
        PROVE  TypeOK'
    BY <1>5 DEF List, Goto
  <1>6. ASSUME NEW p \in Procs, UpsertPoint(p)
        PROVE  TypeOK'
    BY <1>6 DEF UpsertPoint, Goto
  <1>7. ASSUME NEW p \in Procs, EndList(p)
        PROVE  TypeOK'
    BY <1>7, LeaveTypes DEF EndList
  <1>8. ASSUME NEW p \in Procs, InsertRow(p)
        PROVE  TypeOK'
    BY <1>8 DEF InsertRow, Goto, Promoted, Origins
  <1>9. ASSUME NEW p \in Procs, InsertRefused(p)
        PROVE  TypeOK'
    BY <1>9 DEF InsertRefused, Goto
  <1>10. ASSUME NEW p \in Procs, UndoPoint(p)
        PROVE  TypeOK'
    BY <1>10 DEF UndoPoint, Goto
  <1>11. ASSUME NEW p \in Procs, Uncover(p)
        PROVE  TypeOK'
    <2>1. CASE Leave(p)
      BY <1>11, <2>1, LeaveTypes DEF Uncover
    <2>2. CASE Goto(p, "plan") /\ UNCHANGED <<ent, Plans>>
      BY <1>11, <2>2 DEF Uncover, Goto
    <2> QED
      BY <1>11, <2>1, <2>2 DEF Uncover
  <1>12. ASSUME NEW p \in Procs, Plan(p)
        PROVE  TypeOK'
    BY <1>12 DEF Plan, Goto, Unjustified
  <1>13. ASSUME NEW p \in Procs, DropRow(p)
        PROVE  TypeOK'
    BY <1>13 DEF DropRow, Goto, Kept, Origins
  <1>14. ASSUME NEW p \in Procs, ErasePoint(p)
        PROVE  TypeOK'
    BY <1>14 DEF ErasePoint, Goto
  <1>15. ASSUME NEW p \in Procs, EndPlan(p)
        PROVE  TypeOK'
    <2>1. origin' \in [Entities -> Origins]
      BY <1>15 DEF EndPlan, Downgraded, Origins
    <2>2. CASE op[p] = "ingest"
      BY <1>15, <2>1, <2>2 DEF EndPlan, Goto, Forget
    <2>3. CASE op[p] # "ingest"
      BY <1>15, <2>1, <2>3, LeaveTypes DEF EndPlan
    <2> QED
      BY <2>2, <2>3
  <1>16. ASSUME NEW p \in Procs, Extract(p)
        PROVE  TypeOK'
    BY <1>16 DEF Extract, Goto, Belongs, OfDocument, Locking, Jobs
  <1>17. ASSUME NEW p \in Procs, Prune(p)
        PROVE  TypeOK'
    BY <1>17 DEF Prune, Goto, Belongs, OfDocument, Locking, Jobs
  <1>18. ASSUME NEW p \in Procs, Look(p)
        PROVE  TypeOK'
    <2>1. CASE doc[p] \in source \cap shared
      BY <1>18, <2>1 DEF Look, Goto
    <2>2. CASE doc[p] \notin source \cap shared
      BY <1>18, <2>2 DEF Look, Finish, Forget, Operations, OfDocument, Locking, Jobs
    <2> QED
      BY <2>1, <2>2
  <1>19. ASSUME NEW p \in Procs, Orphans(p)
        PROVE  TypeOK'
    BY <1>19 DEF Orphans, Goto
  <1>20. ASSUME NEW p \in Procs, Commit(p)
        PROVE  TypeOK'
    BY <1>20 DEF Commit, Goto, Downgraded, Origins, Holds
  <1>21. ASSUME NEW p \in Procs, WipePoints(p)
        PROVE  TypeOK'
    BY <1>21 DEF WipePoints, Goto
  <1>22. ASSUME NEW p \in Procs, EntityArm(p)
        PROVE  TypeOK'
    BY <1>22 DEF EntityArm, Goto
  <1>23. ASSUME NEW p \in Procs, RaiseProject(p), faults' = faults + 1, faults < MaxFaults
        PROVE  TypeOK'
    BY <1>23 DEF RaiseProject, Goto, Belongs
  <1>24. ASSUME NEW p \in Procs, RaiseDrop(p), faults' = faults + 1, faults < MaxFaults
        PROVE  TypeOK'
    BY <1>24 DEF RaiseDrop
  <1>25. ASSUME NEW p \in Procs, RaisePlan(p), faults' = faults + 1, faults < MaxFaults
        PROVE  TypeOK'
    <2>1. doc[p] \in Docs
      BY <1>25 DEF RaisePlan, Belongs, OfDocument, Locking, Jobs
    <2>2. crossed' \in SUBSET Entities
      BY <1>25, <2>1 DEF RaisePlan
    <2> QED
      BY <1>25, <2>2, LeaveTypes DEF RaisePlan
  <1>26. ASSUME NEW p \in Procs, RaisePrune(p), faults' = faults + 1, faults < MaxFaults
        PROVE  TypeOK'
    BY <1>26 DEF RaisePrune, Goto
  <1>27. ASSUME NEW p \in Procs, RaiseDelete(p), faults' = faults + 1, faults < MaxFaults
        PROVE  TypeOK'
    BY <1>27 DEF RaiseDelete, Goto, Belongs
  <1>28. ASSUME NEW p \in Procs, RaiseWipe(p), faults' = faults + 1, faults < MaxFaults
        PROVE  TypeOK'
    BY SMTT(40), <1>28 DEF RaiseWipe, Goto
  <1>29. CASE UNCHANGED vars
    BY <1>29 DEF vars
  <1> QED
    BY <1>1, <1>2, <1>3, <1>4, <1>5, <1>6, <1>7, <1>8, <1>9, <1>10, <1>11, <1>12, <1>13, <1>14, <1>15, <1>16, <1>17, <1>18, <1>19, <1>20, <1>21, <1>22, <1>23, <1>24, <1>25, <1>26, <1>27, <1>28, <1>29
    DEF Next, Project, Retract, Ingest, Purge, Fault

\* Every step finds its operation where it belongs.
LEMMA BelongsInductive ==
    ASSUME TypeOK, Belongs, [Next]_vars
    PROVE  Belongs'
  <1> USE DEF tables, counts, ghosts, Plans, Subject, TypeOK, Belongs, At, OfDocument, OfEntity, Locking, Jobs
  <1>1. ASSUME NEW p \in Procs, NEW o \in Requests, Begin(p, o)
        PROVE  Belongs'
    BY <1>1 DEF Begin, FirstStep
  <1>2. ASSUME NEW p \in Procs, Lock(p)
        PROVE  Belongs'
    BY <1>2 DEF Lock, Goto
  <1>3. ASSUME NEW p \in Procs, Unlock(p)
        PROVE  Belongs'
    BY <1>3 DEF Unlock, Finish, Forget
  <1>4. ASSUME NEW p \in Procs, Cover(p)
        PROVE  Belongs'
    BY <1>4 DEF Cover, Leave, Goto, Forget, Finish
  <1>5. ASSUME NEW p \in Procs, List(p)
        PROVE  Belongs'
    BY <1>5 DEF List, Goto
  <1>6. ASSUME NEW p \in Procs, UpsertPoint(p)
        PROVE  Belongs'
    BY <1>6 DEF UpsertPoint, Goto
  <1>7. ASSUME NEW p \in Procs, EndList(p)
        PROVE  Belongs'
    BY <1>7 DEF EndList, Leave, Goto, Forget, Finish
  <1>8. ASSUME NEW p \in Procs, InsertRow(p)
        PROVE  Belongs'
    BY <1>8 DEF InsertRow, Goto, Promoted
  <1>9. ASSUME NEW p \in Procs, InsertRefused(p)
        PROVE  Belongs'
    BY <1>9 DEF InsertRefused, Goto
  <1>10. ASSUME NEW p \in Procs, UndoPoint(p)
        PROVE  Belongs'
    BY <1>10 DEF UndoPoint, Goto
  <1>11. ASSUME NEW p \in Procs, Uncover(p)
        PROVE  Belongs'
    BY <1>11 DEF Uncover, Leave, Goto, Forget, Finish
  <1>12. ASSUME NEW p \in Procs, Plan(p)
        PROVE  Belongs'
    BY <1>12 DEF Plan, Goto
  <1>13. ASSUME NEW p \in Procs, DropRow(p)
        PROVE  Belongs'
    BY <1>13 DEF DropRow, Goto, Kept
  <1>14. ASSUME NEW p \in Procs, ErasePoint(p)
        PROVE  Belongs'
    BY <1>14 DEF ErasePoint, Goto
  <1>15. ASSUME NEW p \in Procs, EndPlan(p)
        PROVE  Belongs'
    BY <1>15 DEF EndPlan, Leave, Goto, Forget, Finish
  <1>16. ASSUME NEW p \in Procs, Extract(p)
        PROVE  Belongs'
    BY <1>16 DEF Extract, Goto
  <1>17. ASSUME NEW p \in Procs, Prune(p)
        PROVE  Belongs'
    BY <1>17 DEF Prune, Goto
  <1>18. ASSUME NEW p \in Procs, Look(p)
        PROVE  Belongs'
    BY <1>18 DEF Look, Goto, Finish, Forget
  <1>19. ASSUME NEW p \in Procs, Orphans(p)
        PROVE  Belongs'
    BY <1>19 DEF Orphans, Goto
  <1>20. ASSUME NEW p \in Procs, Commit(p)
        PROVE  Belongs'
    BY <1>20 DEF Commit, Goto
  <1>21. ASSUME NEW p \in Procs, WipePoints(p)
        PROVE  Belongs'
    BY <1>21 DEF WipePoints, Goto
  <1>22. ASSUME NEW p \in Procs, EntityArm(p)
        PROVE  Belongs'
    BY <1>22 DEF EntityArm, Goto
  <1>23. ASSUME NEW p \in Procs, RaiseProject(p), faults' = faults + 1, faults < MaxFaults
        PROVE  Belongs'
    BY <1>23 DEF RaiseProject, Goto
  <1>24. ASSUME NEW p \in Procs, RaiseDrop(p), faults' = faults + 1, faults < MaxFaults
        PROVE  Belongs'
    BY <1>24 DEF RaiseDrop
  <1>25. ASSUME NEW p \in Procs, RaisePlan(p), faults' = faults + 1, faults < MaxFaults
        PROVE  Belongs'
    BY <1>25 DEF RaisePlan, Leave, Goto, Forget, Finish
  <1>26. ASSUME NEW p \in Procs, RaisePrune(p), faults' = faults + 1, faults < MaxFaults
        PROVE  Belongs'
    BY <1>26 DEF RaisePrune, Goto
  <1>27. ASSUME NEW p \in Procs, RaiseDelete(p), faults' = faults + 1, faults < MaxFaults
        PROVE  Belongs'
    BY <1>27 DEF RaiseDelete, Goto
  <1>28. ASSUME NEW p \in Procs, RaiseWipe(p), faults' = faults + 1, faults < MaxFaults
        PROVE  Belongs'
    BY <1>28 DEF RaiseWipe, Goto
  <1>29. CASE UNCHANGED vars
    BY <1>29 DEF vars
  <1> QED
    BY <1>1, <1>2, <1>3, <1>4, <1>5, <1>6, <1>7, <1>8, <1>9, <1>10, <1>11, <1>12, <1>13, <1>14, <1>15, <1>16, <1>17, <1>18, <1>19, <1>20, <1>21, <1>22, <1>23, <1>24, <1>25, <1>26, <1>27, <1>28, <1>29
    DEF Next, Project, Retract, Ingest, Purge, Fault

\* Only the holder of a lock works inside it.
LEMMA LockHeldInductive ==
    ASSUME TypeOK, Belongs, LockHeld, [Next]_vars
    PROVE  LockHeld'
  <1> USE DEF tables, counts, ghosts, Plans, Subject, TypeOK, Belongs, LockHeld, Inside, At, OfDocument, OfEntity, Locking, Jobs
  <1>1. ASSUME NEW p \in Procs, NEW o \in Requests, Begin(p, o)
        PROVE  LockHeld'
    BY <1>1 DEF Begin, FirstStep
  <1>2. ASSUME NEW p \in Procs, Lock(p)
        PROVE  LockHeld'
    BY <1>2 DEF Lock, Goto
  <1>3. ASSUME NEW p \in Procs, Unlock(p)
        PROVE  LockHeld'
    BY <1>3 DEF Unlock, Finish, Forget
  <1>4. ASSUME NEW p \in Procs, Cover(p)
        PROVE  LockHeld'
    BY <1>4 DEF Cover, Leave, Goto, Forget, Finish
  <1>5. ASSUME NEW p \in Procs, List(p)
        PROVE  LockHeld'
    BY <1>5 DEF List, Goto
  <1>6. ASSUME NEW p \in Procs, UpsertPoint(p)
        PROVE  LockHeld'
    BY <1>6 DEF UpsertPoint, Goto
  <1>7. ASSUME NEW p \in Procs, EndList(p)
        PROVE  LockHeld'
    BY <1>7 DEF EndList, Leave, Goto, Forget, Finish
  <1>8. ASSUME NEW p \in Procs, InsertRow(p)
        PROVE  LockHeld'
    BY <1>8 DEF InsertRow, Goto, Promoted
  <1>9. ASSUME NEW p \in Procs, InsertRefused(p)
        PROVE  LockHeld'
    BY <1>9 DEF InsertRefused, Goto
  <1>10. ASSUME NEW p \in Procs, UndoPoint(p)
        PROVE  LockHeld'
    BY <1>10 DEF UndoPoint, Goto
  <1>11. ASSUME NEW p \in Procs, Uncover(p)
        PROVE  LockHeld'
    BY <1>11 DEF Uncover, Leave, Goto, Forget, Finish
  <1>12. ASSUME NEW p \in Procs, Plan(p)
        PROVE  LockHeld'
    BY <1>12 DEF Plan, Goto
  <1>13. ASSUME NEW p \in Procs, DropRow(p)
        PROVE  LockHeld'
    BY <1>13 DEF DropRow, Goto, Kept
  <1>14. ASSUME NEW p \in Procs, ErasePoint(p)
        PROVE  LockHeld'
    BY <1>14 DEF ErasePoint, Goto
  <1>15. ASSUME NEW p \in Procs, EndPlan(p)
        PROVE  LockHeld'
    BY <1>15 DEF EndPlan, Leave, Goto, Forget, Finish
  <1>16. ASSUME NEW p \in Procs, Extract(p)
        PROVE  LockHeld'
    BY <1>16 DEF Extract, Goto
  <1>17. ASSUME NEW p \in Procs, Prune(p)
        PROVE  LockHeld'
    BY <1>17 DEF Prune, Goto
  <1>18. ASSUME NEW p \in Procs, Look(p)
        PROVE  LockHeld'
    BY <1>18 DEF Look, Goto, Finish, Forget
  <1>19. ASSUME NEW p \in Procs, Orphans(p)
        PROVE  LockHeld'
    BY <1>19 DEF Orphans, Goto
  <1>20. ASSUME NEW p \in Procs, Commit(p)
        PROVE  LockHeld'
    BY <1>20 DEF Commit, Goto
  <1>21. ASSUME NEW p \in Procs, WipePoints(p)
        PROVE  LockHeld'
    BY <1>21 DEF WipePoints, Goto
  <1>22. ASSUME NEW p \in Procs, EntityArm(p)
        PROVE  LockHeld'
    BY <1>22 DEF EntityArm, Goto
  <1>23. ASSUME NEW p \in Procs, RaiseProject(p), faults' = faults + 1, faults < MaxFaults
        PROVE  LockHeld'
    BY <1>23 DEF RaiseProject, Goto
  <1>24. ASSUME NEW p \in Procs, RaiseDrop(p), faults' = faults + 1, faults < MaxFaults
        PROVE  LockHeld'
    BY <1>24 DEF RaiseDrop
  <1>25. ASSUME NEW p \in Procs, RaisePlan(p), faults' = faults + 1, faults < MaxFaults
        PROVE  LockHeld'
    BY <1>25 DEF RaisePlan, Leave, Goto, Forget, Finish
  <1>26. ASSUME NEW p \in Procs, RaisePrune(p), faults' = faults + 1, faults < MaxFaults
        PROVE  LockHeld'
    BY <1>26 DEF RaisePrune, Goto
  <1>27. ASSUME NEW p \in Procs, RaiseDelete(p), faults' = faults + 1, faults < MaxFaults
        PROVE  LockHeld'
    BY <1>27 DEF RaiseDelete, Goto
  <1>28. ASSUME NEW p \in Procs, RaiseWipe(p), faults' = faults + 1, faults < MaxFaults
        PROVE  LockHeld'
    BY <1>28 DEF RaiseWipe, Goto
  <1>29. CASE UNCHANGED vars
    BY <1>29 DEF vars
  <1> QED
    BY <1>1, <1>2, <1>3, <1>4, <1>5, <1>6, <1>7, <1>8, <1>9, <1>10, <1>11, <1>12, <1>13, <1>14, <1>15, <1>16, <1>17, <1>18, <1>19, <1>20, <1>21, <1>22, <1>23, <1>24, <1>25, <1>26, <1>27, <1>28, <1>29
    DEF Next, Project, Retract, Ingest, Purge, Fault


\* What a place in the code knows of the tables.
Tables ==
  /\ personal \cap gone = {}
  /\ \A d \in Docs : mentions[d] \subseteq personal
  /\ \A e \in Entities : Holds(e) => e \in personal
  /\ shared \subseteq source

\* A document whose shared row was deleted under the lock stays unshared.
Uncovered ==
  \A p \in Procs :
    op[p] \in {"unshare", "purge"} /\ at[p] \in {"plan", "orphans", "commit"} => doc[p] \notin shared

\* A cascade inserts what its document mentions, but for what a purge collects.
Inserting(p) == op[p] \in {"share", "ingest"} /\ at[p] \in {"point", "row", "undo"}
Inserted ==
  \A p \in Procs :
    /\ Inserting(p) => todo[p] \ gone \subseteq mentions[doc[p]]
    /\ Inserting(p) /\ At(p, "row") => ent[p] \in gone \cup mentions[doc[p]]
    /\ op[p] = "ingest" /\ at[p] \in {"look", "lock", "plan"} => gc[p] \cap mentions[doc[p]] = {}

\* The tables refer to one another as the foreign keys say.
LEMMA TablesInductive ==
    ASSUME TypeOK, Belongs, LockHeld, Tables, Uncovered, Inserted, [Next]_vars
    PROVE  Tables'
  <1> USE DEF tables, counts, ghosts, Plans, Subject, TypeOK, Belongs, LockHeld, Inside, Tables, Holds, At, OfDocument, OfEntity, Locking, Jobs
  <1>1. ASSUME NEW p \in Procs, NEW o \in Requests, Begin(p, o)
        PROVE  Tables'
    BY <1>1 DEF Begin, FirstStep
  <1>2. ASSUME NEW p \in Procs, Lock(p)
        PROVE  Tables'
    BY <1>2 DEF Lock, Goto
  <1>3. ASSUME NEW p \in Procs, Unlock(p)
        PROVE  Tables'
    BY <1>3 DEF Unlock, Finish, Forget
  <1>4. ASSUME NEW p \in Procs, Cover(p)
        PROVE  Tables'
    BY <1>4 DEF Cover, Leave, Goto, Forget, Finish
  <1>5. ASSUME NEW p \in Procs, List(p)
        PROVE  Tables'
    BY <1>5 DEF List, Goto
  <1>6. ASSUME NEW p \in Procs, UpsertPoint(p)
        PROVE  Tables'
    BY <1>6 DEF UpsertPoint, Goto
  <1>7. ASSUME NEW p \in Procs, EndList(p)
        PROVE  Tables'
    BY <1>7 DEF EndList, Leave, Goto, Forget, Finish
  <1>8. ASSUME NEW p \in Procs, InsertRow(p)
        PROVE  Tables'
    BY <1>8 DEF InsertRow, Goto, Promoted
  <1>9. ASSUME NEW p \in Procs, InsertRefused(p)
        PROVE  Tables'
    BY <1>9 DEF InsertRefused, Goto
  <1>10. ASSUME NEW p \in Procs, UndoPoint(p)
        PROVE  Tables'
    BY <1>10 DEF UndoPoint, Goto
  <1>11. ASSUME NEW p \in Procs, Uncover(p)
        PROVE  Tables'
    BY <1>11 DEF Uncover, Leave, Goto, Forget, Finish
  <1>12. ASSUME NEW p \in Procs, Plan(p)
        PROVE  Tables'
    BY <1>12 DEF Plan, Goto
  <1>13. ASSUME NEW p \in Procs, DropRow(p)
        PROVE  Tables'
    BY <1>13 DEF DropRow, Goto, Kept
  <1>14. ASSUME NEW p \in Procs, ErasePoint(p)
        PROVE  Tables'
    BY <1>14 DEF ErasePoint, Goto
  <1>15. ASSUME NEW p \in Procs, EndPlan(p)
        PROVE  Tables'
    BY <1>15 DEF EndPlan, Leave, Goto, Forget, Finish, Downgraded, Holds
  <1>16. ASSUME NEW p \in Procs, Extract(p)
        PROVE  Tables'
    BY <1>16 DEF Extract, Goto
  <1>17. ASSUME NEW p \in Procs, Prune(p)
        PROVE  Tables'
    BY <1>17 DEF Prune, Goto
  <1>18. ASSUME NEW p \in Procs, Look(p)
        PROVE  Tables'
    BY <1>18 DEF Look, Goto, Finish, Forget
  <1>19. ASSUME NEW p \in Procs, Orphans(p)
        PROVE  Tables'
    BY <1>19 DEF Orphans, Goto
  <1>20. ASSUME NEW p \in Procs, Commit(p)
        PROVE  Tables'
    BY <1>20 DEF Commit, Goto, Downgraded, Holds, Uncovered
  <1>21. ASSUME NEW p \in Procs, WipePoints(p)
        PROVE  Tables'
    BY <1>21 DEF WipePoints, Goto
  <1>22. ASSUME NEW p \in Procs, EntityArm(p)
        PROVE  Tables'
    BY <1>22 DEF EntityArm, Goto
  <1>23. ASSUME NEW p \in Procs, RaiseProject(p), faults' = faults + 1, faults < MaxFaults
        PROVE  Tables'
    BY <1>23 DEF RaiseProject, Goto
  <1>24. ASSUME NEW p \in Procs, RaiseDrop(p), faults' = faults + 1, faults < MaxFaults
        PROVE  Tables'
    BY <1>24 DEF RaiseDrop
  <1>25. ASSUME NEW p \in Procs, RaisePlan(p), faults' = faults + 1, faults < MaxFaults
        PROVE  Tables'
    BY <1>25 DEF RaisePlan, Leave, Goto, Forget, Finish
  <1>26. ASSUME NEW p \in Procs, RaisePrune(p), faults' = faults + 1, faults < MaxFaults
        PROVE  Tables'
    BY <1>26 DEF RaisePrune, Goto
  <1>27. ASSUME NEW p \in Procs, RaiseDelete(p), faults' = faults + 1, faults < MaxFaults
        PROVE  Tables'
    BY <1>27 DEF RaiseDelete, Goto
  <1>28. ASSUME NEW p \in Procs, RaiseWipe(p), faults' = faults + 1, faults < MaxFaults
        PROVE  Tables'
    BY <1>28 DEF RaiseWipe, Goto
  <1>29. CASE UNCHANGED vars
    BY <1>29 DEF vars
  <1> QED
    BY <1>1, <1>2, <1>3, <1>4, <1>5, <1>6, <1>7, <1>8, <1>9, <1>10, <1>11, <1>12, <1>13, <1>14, <1>15, <1>16, <1>17, <1>18, <1>19, <1>20, <1>21, <1>22, <1>23, <1>24, <1>25, <1>26, <1>27, <1>28, <1>29
    DEF Next, Project, Retract, Ingest, Purge, Fault

\* Only a share job under the lock shares a document again.
LEMMA UncoveredInductive ==
    ASSUME TypeOK, Belongs, LockHeld, Uncovered, [Next]_vars
    PROVE  Uncovered'
  <1> USE DEF tables, counts, ghosts, Plans, Subject, TypeOK, Belongs, LockHeld, Inside, Uncovered, At, OfDocument, OfEntity, Locking, Jobs
  <1>1. ASSUME NEW p \in Procs, NEW o \in Requests, Begin(p, o)
        PROVE  Uncovered'
    BY <1>1 DEF Begin, FirstStep
  <1>2. ASSUME NEW p \in Procs, Lock(p)
        PROVE  Uncovered'
    BY <1>2 DEF Lock, Goto
  <1>3. ASSUME NEW p \in Procs, Unlock(p)
        PROVE  Uncovered'
    BY <1>3 DEF Unlock, Finish, Forget
  <1>4. ASSUME NEW p \in Procs, Cover(p)
        PROVE  Uncovered'
    BY <1>4 DEF Cover, Leave, Goto, Forget, Finish
  <1>5. ASSUME NEW p \in Procs, List(p)
        PROVE  Uncovered'
    BY <1>5 DEF List, Goto
  <1>6. ASSUME NEW p \in Procs, UpsertPoint(p)
        PROVE  Uncovered'
    BY <1>6 DEF UpsertPoint, Goto
  <1>7. ASSUME NEW p \in Procs, EndList(p)
        PROVE  Uncovered'
    BY <1>7 DEF EndList, Leave, Goto, Forget, Finish
  <1>8. ASSUME NEW p \in Procs, InsertRow(p)
        PROVE  Uncovered'
    BY <1>8 DEF InsertRow, Goto, Promoted
  <1>9. ASSUME NEW p \in Procs, InsertRefused(p)
        PROVE  Uncovered'
    BY <1>9 DEF InsertRefused, Goto
  <1>10. ASSUME NEW p \in Procs, UndoPoint(p)
        PROVE  Uncovered'
    BY <1>10 DEF UndoPoint, Goto
  <1>11. ASSUME NEW p \in Procs, Uncover(p)
        PROVE  Uncovered'
    BY <1>11 DEF Uncover, Leave, Goto, Forget, Finish
  <1>12. ASSUME NEW p \in Procs, Plan(p)
        PROVE  Uncovered'
    BY <1>12 DEF Plan, Goto
  <1>13. ASSUME NEW p \in Procs, DropRow(p)
        PROVE  Uncovered'
    BY <1>13 DEF DropRow, Goto, Kept
  <1>14. ASSUME NEW p \in Procs, ErasePoint(p)
        PROVE  Uncovered'
    BY <1>14 DEF ErasePoint, Goto
  <1>15. ASSUME NEW p \in Procs, EndPlan(p)
        PROVE  Uncovered'
    BY <1>15 DEF EndPlan, Leave, Goto, Forget, Finish
  <1>16. ASSUME NEW p \in Procs, Extract(p)
        PROVE  Uncovered'
    BY <1>16 DEF Extract, Goto
  <1>17. ASSUME NEW p \in Procs, Prune(p)
        PROVE  Uncovered'
    BY <1>17 DEF Prune, Goto
  <1>18. ASSUME NEW p \in Procs, Look(p)
        PROVE  Uncovered'
    BY <1>18 DEF Look, Goto, Finish, Forget
  <1>19. ASSUME NEW p \in Procs, Orphans(p)
        PROVE  Uncovered'
    BY <1>19 DEF Orphans, Goto
  <1>20. ASSUME NEW p \in Procs, Commit(p)
        PROVE  Uncovered'
    BY <1>20 DEF Commit, Goto
  <1>21. ASSUME NEW p \in Procs, WipePoints(p)
        PROVE  Uncovered'
    BY <1>21 DEF WipePoints, Goto
  <1>22. ASSUME NEW p \in Procs, EntityArm(p)
        PROVE  Uncovered'
    BY <1>22 DEF EntityArm, Goto
  <1>23. ASSUME NEW p \in Procs, RaiseProject(p), faults' = faults + 1, faults < MaxFaults
        PROVE  Uncovered'
    BY <1>23 DEF RaiseProject, Goto
  <1>24. ASSUME NEW p \in Procs, RaiseDrop(p), faults' = faults + 1, faults < MaxFaults
        PROVE  Uncovered'
    BY <1>24 DEF RaiseDrop
  <1>25. ASSUME NEW p \in Procs, RaisePlan(p), faults' = faults + 1, faults < MaxFaults
        PROVE  Uncovered'
    BY <1>25 DEF RaisePlan, Leave, Goto, Forget, Finish
  <1>26. ASSUME NEW p \in Procs, RaisePrune(p), faults' = faults + 1, faults < MaxFaults
        PROVE  Uncovered'
    BY <1>26 DEF RaisePrune, Goto
  <1>27. ASSUME NEW p \in Procs, RaiseDelete(p), faults' = faults + 1, faults < MaxFaults
        PROVE  Uncovered'
    BY <1>27 DEF RaiseDelete, Goto
  <1>28. ASSUME NEW p \in Procs, RaiseWipe(p), faults' = faults + 1, faults < MaxFaults
        PROVE  Uncovered'
    BY <1>28 DEF RaiseWipe, Goto
  <1>29. CASE UNCHANGED vars
    BY <1>29 DEF vars
  <1> QED
    BY <1>1, <1>2, <1>3, <1>4, <1>5, <1>6, <1>7, <1>8, <1>9, <1>10, <1>11, <1>12, <1>13, <1>14, <1>15, <1>16, <1>17, <1>18, <1>19, <1>20, <1>21, <1>22, <1>23, <1>24, <1>25, <1>26, <1>27, <1>28, <1>29
    DEF Next, Project, Retract, Ingest, Purge, Fault

\* Nobody prunes relations of a document while it is cascaded.
LEMMA InsertedInductive ==
    ASSUME TypeOK, Belongs, LockHeld, Tables, Inserted, [Next]_vars
    PROVE  Inserted'
  <1> USE DEF tables, counts, ghosts, Plans, Subject, TypeOK, Belongs, LockHeld, Inside, Tables, Inserted, Inserting, At, OfDocument, OfEntity, Locking, Jobs
  <1>1. ASSUME NEW p \in Procs, NEW o \in Requests, Begin(p, o)
        PROVE  Inserted'
    BY <1>1 DEF Begin, FirstStep
  <1>2. ASSUME NEW p \in Procs, Lock(p)
        PROVE  Inserted'
    BY <1>2 DEF Lock, Goto
  <1>3. ASSUME NEW p \in Procs, Unlock(p)
        PROVE  Inserted'
    BY <1>3 DEF Unlock, Finish, Forget
  <1>4. ASSUME NEW p \in Procs, Cover(p)
        PROVE  Inserted'
    BY <1>4 DEF Cover, Leave, Goto, Forget, Finish
  <1>5. ASSUME NEW p \in Procs, List(p)
        PROVE  Inserted'
    BY <1>5 DEF List, Goto
  <1>6. ASSUME NEW p \in Procs, UpsertPoint(p)
        PROVE  Inserted'
    BY <1>6 DEF UpsertPoint, Goto
  <1>7. ASSUME NEW p \in Procs, EndList(p)
        PROVE  Inserted'
    BY <1>7 DEF EndList, Leave, Goto, Forget, Finish
  <1>8. ASSUME NEW p \in Procs, InsertRow(p)
        PROVE  Inserted'
    BY <1>8 DEF InsertRow, Goto, Promoted
  <1>9. ASSUME NEW p \in Procs, InsertRefused(p)
        PROVE  Inserted'
    BY <1>9 DEF InsertRefused, Goto
  <1>10. ASSUME NEW p \in Procs, UndoPoint(p)
        PROVE  Inserted'
    BY <1>10 DEF UndoPoint, Goto
  <1>11. ASSUME NEW p \in Procs, Uncover(p)
        PROVE  Inserted'
    BY <1>11 DEF Uncover, Leave, Goto, Forget, Finish
  <1>12. ASSUME NEW p \in Procs, Plan(p)
        PROVE  Inserted'
    BY <1>12 DEF Plan, Goto
  <1>13. ASSUME NEW p \in Procs, DropRow(p)
        PROVE  Inserted'
    BY <1>13 DEF DropRow, Goto, Kept
  <1>14. ASSUME NEW p \in Procs, ErasePoint(p)
        PROVE  Inserted'
    BY <1>14 DEF ErasePoint, Goto
  <1>15. ASSUME NEW p \in Procs, EndPlan(p)
        PROVE  Inserted'
    BY <1>15 DEF EndPlan, Leave, Goto, Forget, Finish
  <1>16. ASSUME NEW p \in Procs, Extract(p)
        PROVE  Inserted'
    BY <1>16 DEF Extract, Goto
  <1>17. ASSUME NEW p \in Procs, Prune(p)
        PROVE  Inserted'
    BY <1>17 DEF Prune, Goto
  <1>18. ASSUME NEW p \in Procs, Look(p)
        PROVE  Inserted'
    BY <1>18 DEF Look, Goto, Finish, Forget
  <1>19. ASSUME NEW p \in Procs, Orphans(p)
        PROVE  Inserted'
    BY <1>19 DEF Orphans, Goto
  <1>20. ASSUME NEW p \in Procs, Commit(p)
        PROVE  Inserted'
    BY <1>20 DEF Commit, Goto
  <1>21. ASSUME NEW p \in Procs, WipePoints(p)
        PROVE  Inserted'
    BY <1>21 DEF WipePoints, Goto
  <1>22. ASSUME NEW p \in Procs, EntityArm(p)
        PROVE  Inserted'
    BY <1>22 DEF EntityArm, Goto
  <1>23. ASSUME NEW p \in Procs, RaiseProject(p), faults' = faults + 1, faults < MaxFaults
        PROVE  Inserted'
    BY <1>23 DEF RaiseProject, Goto
  <1>24. ASSUME NEW p \in Procs, RaiseDrop(p), faults' = faults + 1, faults < MaxFaults
        PROVE  Inserted'
    BY <1>24 DEF RaiseDrop
  <1>25. ASSUME NEW p \in Procs, RaisePlan(p), faults' = faults + 1, faults < MaxFaults
        PROVE  Inserted'
    BY <1>25 DEF RaisePlan, Leave, Goto, Forget, Finish
  <1>26. ASSUME NEW p \in Procs, RaisePrune(p), faults' = faults + 1, faults < MaxFaults
        PROVE  Inserted'
    BY <1>26 DEF RaisePrune, Goto
  <1>27. ASSUME NEW p \in Procs, RaiseDelete(p), faults' = faults + 1, faults < MaxFaults
        PROVE  Inserted'
    BY <1>27 DEF RaiseDelete, Goto
  <1>28. ASSUME NEW p \in Procs, RaiseWipe(p), faults' = faults + 1, faults < MaxFaults
        PROVE  Inserted'
    BY <1>28 DEF RaiseWipe, Goto
  <1>29. CASE UNCHANGED vars
    BY <1>29 DEF vars
  <1> QED
    BY <1>1, <1>2, <1>3, <1>4, <1>5, <1>6, <1>7, <1>8, <1>9, <1>10, <1>11, <1>12, <1>13, <1>14, <1>15, <1>16, <1>17, <1>18, <1>19, <1>20, <1>21, <1>22, <1>23, <1>24, <1>25, <1>26, <1>27, <1>28, <1>29
    DEF Next, Project, Retract, Ingest, Purge, Fault

-----------------------------------------------------------------------------
(***************************************************************************)
(* The inductive form of each property: what is not so yet, some operation *)
(* is about to make so.                                                    *)
(***************************************************************************)
\* A point without its row is one whose row is inserted next, or whose point is
\* deleted next.
Hidden ==
  \A e \in points \ spoilt :
    \/ Holds(e)
    \/ \E p \in Procs :
         \/ at[p] \in {"row", "undo", "erase"} /\ ent[p] = e
         \/ At(p, "wipe") /\ e \in todo[p]
         \/ at[p] \in {"wipe", "arm"} /\ e \in gc[p]

\* A row and its point come and go together.
LEMMA HiddenInductive ==
    ASSUME TypeOK, Belongs, Hidden, [Next]_vars
    PROVE  Hidden'
  <1> USE DEF tables, counts, ghosts, Plans, Subject, TypeOK, Belongs, Hidden, Holds, At, OfDocument, OfEntity, Locking, Jobs
  <1>1. ASSUME NEW p \in Procs, NEW o \in Requests, Begin(p, o)
        PROVE  Hidden'
    BY <1>1 DEF Begin, FirstStep
  <1>2. ASSUME NEW p \in Procs, Lock(p)
        PROVE  Hidden'
    BY <1>2 DEF Lock, Goto
  <1>3. ASSUME NEW p \in Procs, Unlock(p)
        PROVE  Hidden'
    BY <1>3 DEF Unlock, Finish, Forget
  <1>4. ASSUME NEW p \in Procs, Cover(p)
        PROVE  Hidden'
    BY <1>4 DEF Cover, Leave, Goto, Forget, Finish
  <1>5. ASSUME NEW p \in Procs, List(p)
        PROVE  Hidden'
    BY <1>5 DEF List, Goto
  <1>6. ASSUME NEW p \in Procs, UpsertPoint(p)
        PROVE  Hidden'
    BY <1>6 DEF UpsertPoint, Goto
  <1>7. ASSUME NEW p \in Procs, EndList(p)
        PROVE  Hidden'
    BY <1>7 DEF EndList, Leave, Goto, Forget, Finish
  <1>8. ASSUME NEW p \in Procs, InsertRow(p)
        PROVE  Hidden'
    BY <1>8 DEF InsertRow, Goto, Promoted
  <1>9. ASSUME NEW p \in Procs, InsertRefused(p)
        PROVE  Hidden'
    BY <1>9 DEF InsertRefused, Goto
  <1>10. ASSUME NEW p \in Procs, UndoPoint(p)
        PROVE  Hidden'
    BY <1>10 DEF UndoPoint, Goto
  <1>11. ASSUME NEW p \in Procs, Uncover(p)
        PROVE  Hidden'
    BY <1>11 DEF Uncover, Leave, Goto, Forget, Finish
  <1>12. ASSUME NEW p \in Procs, Plan(p)
        PROVE  Hidden'
    BY <1>12 DEF Plan, Goto
  <1>13. ASSUME NEW p \in Procs, DropRow(p)
        PROVE  Hidden'
    BY <1>13 DEF DropRow, Goto, Kept
  <1>14. ASSUME NEW p \in Procs, ErasePoint(p)
        PROVE  Hidden'
    BY <1>14 DEF ErasePoint, Goto
  <1>15. ASSUME NEW p \in Procs, EndPlan(p)
        PROVE  Hidden'
    BY <1>15 DEF EndPlan, Leave, Goto, Forget, Finish, Downgraded
  <1>16. ASSUME NEW p \in Procs, Extract(p)
        PROVE  Hidden'
    BY <1>16 DEF Extract, Goto
  <1>17. ASSUME NEW p \in Procs, Prune(p)
        PROVE  Hidden'
    BY <1>17 DEF Prune, Goto
  <1>18. ASSUME NEW p \in Procs, Look(p)
        PROVE  Hidden'
    BY <1>18 DEF Look, Goto, Finish, Forget
  <1>19. ASSUME NEW p \in Procs, Orphans(p)
        PROVE  Hidden'
    BY <1>19 DEF Orphans, Goto
  <1>20. ASSUME NEW p \in Procs, Commit(p)
        PROVE  Hidden'
    BY <1>20 DEF Commit, Goto, Downgraded
  <1>21. ASSUME NEW p \in Procs, WipePoints(p)
        PROVE  Hidden'
    BY <1>21 DEF WipePoints, Goto
  <1>22. ASSUME NEW p \in Procs, EntityArm(p)
        PROVE  Hidden'
    BY <1>22 DEF EntityArm, Goto
  <1>23. ASSUME NEW p \in Procs, RaiseProject(p), faults' = faults + 1, faults < MaxFaults
        PROVE  Hidden'
    BY <1>23 DEF RaiseProject, Goto
  <1>24. ASSUME NEW p \in Procs, RaiseDrop(p), faults' = faults + 1, faults < MaxFaults
        PROVE  Hidden'
    BY <1>24 DEF RaiseDrop
  <1>25. ASSUME NEW p \in Procs, RaisePlan(p), faults' = faults + 1, faults < MaxFaults
        PROVE  Hidden'
    BY <1>25 DEF RaisePlan, Leave, Goto, Forget, Finish
  <1>26. ASSUME NEW p \in Procs, RaisePrune(p), faults' = faults + 1, faults < MaxFaults
        PROVE  Hidden'
    BY <1>26 DEF RaisePrune, Goto
  <1>27. ASSUME NEW p \in Procs, RaiseDelete(p), faults' = faults + 1, faults < MaxFaults
        PROVE  Hidden'
    BY <1>27 DEF RaiseDelete, Goto
  <1>28. ASSUME NEW p \in Procs, RaiseWipe(p), faults' = faults + 1, faults < MaxFaults
        PROVE  Hidden'
    BY <1>28 DEF RaiseWipe, Goto
  <1>29. CASE UNCHANGED vars
    BY <1>29 DEF vars
  <1> QED
    BY <1>1, <1>2, <1>3, <1>4, <1>5, <1>6, <1>7, <1>8, <1>9, <1>10, <1>11, <1>12, <1>13, <1>14, <1>15, <1>16, <1>17, <1>18, <1>19, <1>20, <1>21, <1>22, <1>23, <1>24, <1>25, <1>26, <1>27, <1>28, <1>29
    DEF Next, Project, Retract, Ingest, Purge, Fault


\* An operation that deletes the rows of its plan, and not at the owner's wish.
Retracts(p) == op[p] # "unpublish" /\ at[p] \in {"drop", "erase", "orphans", "commit"}
Mine == {"user", "multiple"}

\* No plan holds an entity of the owner to be deleted, and those it holds to be
\* downgraded are the owner's, but for entities the owner acted on meanwhile.
Asked ==
  \A e \in Entities \ late :
    /\ e \in asked <=> origin[e] \in Mine
    /\ \A p \in Procs :
         /\ Retracts(p) /\ e \in todo[p] => origin[e] \notin Mine
         /\ At(p, "commit") /\ e \in gc[p] => origin[e] \notin Mine
         /\ e \in fix[p] => origin[e] \in Mine

\* Only the owner's operations change what the owner asked for.
LEMMA AskedInductive ==
    ASSUME TypeOK, Belongs, Asked, [Next]_vars
    PROVE  Asked'
  <1> USE DEF tables, counts, ghosts, Plans, Subject, TypeOK, Belongs, Asked, Retracts, Mine, Origins, At, OfDocument, OfEntity, Locking, Jobs
  <1>1. ASSUME NEW p \in Procs, NEW o \in Requests, Begin(p, o)
        PROVE  Asked'
    BY <1>1 DEF Begin, FirstStep
  <1>2. ASSUME NEW p \in Procs, Lock(p)
        PROVE  Asked'
    BY <1>2 DEF Lock, Goto
  <1>3. ASSUME NEW p \in Procs, Unlock(p)
        PROVE  Asked'
    BY <1>3 DEF Unlock, Finish, Forget
  <1>4. ASSUME NEW p \in Procs, Cover(p)
        PROVE  Asked'
    BY <1>4 DEF Cover, Leave, Goto, Forget, Finish
  <1>5. ASSUME NEW p \in Procs, List(p)
        PROVE  Asked'
    BY <1>5 DEF List, Goto
  <1>6. ASSUME NEW p \in Procs, UpsertPoint(p)
        PROVE  Asked'
    BY <1>6 DEF UpsertPoint, Goto
  <1>7. ASSUME NEW p \in Procs, EndList(p)
        PROVE  Asked'
    BY <1>7 DEF EndList, Leave, Goto, Forget, Finish
  <1>8. ASSUME NEW p \in Procs, InsertRow(p)
        PROVE  Asked'
    BY <1>8 DEF InsertRow, Goto, Promoted, Planned
  <1>9. ASSUME NEW p \in Procs, InsertRefused(p)
        PROVE  Asked'
    BY <1>9 DEF InsertRefused, Goto
  <1>10. ASSUME NEW p \in Procs, UndoPoint(p)
        PROVE  Asked'
    BY <1>10 DEF UndoPoint, Goto
  <1>11. ASSUME NEW p \in Procs, Uncover(p)
        PROVE  Asked'
    BY <1>11 DEF Uncover, Leave, Goto, Forget, Finish
  <1>12. ASSUME NEW p \in Procs, Plan(p)
        PROVE  Asked'
    BY <1>12 DEF Plan, Goto, Unjustified
  <1>13. ASSUME NEW p \in Procs, DropRow(p)
        PROVE  Asked'
    BY <1>13 DEF DropRow, Goto, Kept
  <1>14. ASSUME NEW p \in Procs, ErasePoint(p)
        PROVE  Asked'
    BY <1>14 DEF ErasePoint, Goto
  <1>15. ASSUME NEW p \in Procs, EndPlan(p)
        PROVE  Asked'
    BY <1>15 DEF EndPlan, Leave, Goto, Forget, Finish, Downgraded, Holds
  <1>16. ASSUME NEW p \in Procs, Extract(p)
        PROVE  Asked'
    BY <1>16 DEF Extract, Goto
  <1>17. ASSUME NEW p \in Procs, Prune(p)
        PROVE  Asked'
    BY <1>17 DEF Prune, Goto
  <1>18. ASSUME NEW p \in Procs, Look(p)
        PROVE  Asked'
    BY <1>18 DEF Look, Goto, Finish, Forget
  <1>19. ASSUME NEW p \in Procs, Orphans(p)
        PROVE  Asked'
    BY <1>19 DEF Orphans, Goto
  <1>20. ASSUME NEW p \in Procs, Commit(p)
        PROVE  Asked'
    BY <1>20 DEF Commit, Goto, Downgraded, Holds
  <1>21. ASSUME NEW p \in Procs, WipePoints(p)
        PROVE  Asked'
    BY <1>21 DEF WipePoints, Goto
  <1>22. ASSUME NEW p \in Procs, EntityArm(p)
        PROVE  Asked'
    BY <1>22 DEF EntityArm, Goto
  <1>23. ASSUME NEW p \in Procs, RaiseProject(p), faults' = faults + 1, faults < MaxFaults
        PROVE  Asked'
    BY <1>23 DEF RaiseProject, Goto
  <1>24. ASSUME NEW p \in Procs, RaiseDrop(p), faults' = faults + 1, faults < MaxFaults
        PROVE  Asked'
    BY <1>24 DEF RaiseDrop
  <1>25. ASSUME NEW p \in Procs, RaisePlan(p), faults' = faults + 1, faults < MaxFaults
        PROVE  Asked'
    BY <1>25 DEF RaisePlan, Leave, Goto, Forget, Finish
  <1>26. ASSUME NEW p \in Procs, RaisePrune(p), faults' = faults + 1, faults < MaxFaults
        PROVE  Asked'
    BY <1>26 DEF RaisePrune, Goto
  <1>27. ASSUME NEW p \in Procs, RaiseDelete(p), faults' = faults + 1, faults < MaxFaults
        PROVE  Asked'
    BY <1>27 DEF RaiseDelete, Goto
  <1>28. ASSUME NEW p \in Procs, RaiseWipe(p), faults' = faults + 1, faults < MaxFaults
        PROVE  Asked'
    BY <1>28 DEF RaiseWipe, Goto
  <1>29. CASE UNCHANGED vars
    BY <1>29 DEF vars
  <1> QED
    BY <1>1, <1>2, <1>3, <1>4, <1>5, <1>6, <1>7, <1>8, <1>9, <1>10, <1>11, <1>12, <1>13, <1>14, <1>15, <1>16, <1>17, <1>18, <1>19, <1>20, <1>21, <1>22, <1>23, <1>24, <1>25, <1>26, <1>27, <1>28, <1>29
    DEF Next, Project, Retract, Ingest, Purge, Fault


\* A purge of the document is past its plan, and deletes its relations.
Overtaken(q) ==
  \E r \in Procs : op[r] = "purge" /\ doc[r] = doc[q] /\ at[r] \in {"orphans", "commit"}

\* p has planned to delete the shared row of e, or will when it plans.
Handled(p, e) ==
  \/ op[p] = "ingest" /\ at[p] \in {"look", "lock", "plan"} /\ e \in gc[p]
  \/ op[p] # "ingest" /\ At(p, "plan") /\ e \in mentions[doc[p]] /\ ~Overtaken(p)
  \/ Retracts(p) /\ e \in todo[p]
Strays == \A e \in Entities \ crossed : Stray(e) => \E p \in Procs : Handled(p, e)

\* A row becomes stray by a step of an operation that goes on to retract it.
LEMMA StraysInductive ==
    ASSUME TypeOK, Belongs, LockHeld, Tables, Uncovered, Inserted, Strays, [Next]_vars
    PROVE  Strays'
  <1> USE DEF tables, counts, ghosts, Plans, Subject, TypeOK, Belongs, Strays, Stray, Handled, Overtaken, Mentions, Retracts, Origins, At, OfDocument, OfEntity, Locking, Jobs
  <1>1. ASSUME NEW p \in Procs, NEW o \in Requests, Begin(p, o)
        PROVE  Strays'
    BY <1>1 DEF Begin, FirstStep
  <1>2. ASSUME NEW p \in Procs, Lock(p)
        PROVE  Strays'
    BY <1>2 DEF Lock, Goto
  <1>3. ASSUME NEW p \in Procs, Unlock(p)
        PROVE  Strays'
    <2>1. /\ UNCHANGED <<tables, shared, origin, ghosts>>
          /\ \A e \in Entities : Stray(e)' <=> Stray(e)
      BY <1>3 DEF Unlock
    <2>2. \A q \in Procs, e \in Entities : Handled(q, e) => Handled(q, e)'
      BY <1>3, SMTT(40) DEF Unlock, Finish, Forget
    <2> QED
      BY <2>1, <2>2
  <1>4. ASSUME NEW p \in Procs, Cover(p)
        PROVE  Strays'
    BY <1>4 DEF Cover, Leave, Goto, Forget, Finish
  <1>5. ASSUME NEW p \in Procs, List(p)
        PROVE  Strays'
    BY <1>5 DEF List, Goto
  <1>6. ASSUME NEW p \in Procs, UpsertPoint(p)
        PROVE  Strays'
    BY <1>6 DEF UpsertPoint, Goto
  <1>7. ASSUME NEW p \in Procs, EndList(p)
        PROVE  Strays'
    BY <1>7 DEF EndList, Leave, Goto, Forget, Finish
  <1>8. ASSUME NEW p \in Procs, InsertRow(p)
        PROVE  Strays'
    BY <1>8 DEF InsertRow, Goto, Promoted, Inserted, Inserting, Tables
  <1>9. ASSUME NEW p \in Procs, InsertRefused(p)
        PROVE  Strays'
    BY <1>9 DEF InsertRefused, Goto
  <1>10. ASSUME NEW p \in Procs, UndoPoint(p)
        PROVE  Strays'
    BY <1>10 DEF UndoPoint, Goto
  <1>11. ASSUME NEW p \in Procs, Uncover(p)
        PROVE  Strays'
    BY <1>11 DEF Uncover, Leave, Goto, Forget, Finish, Uncovered, LockHeld, Inside
  <1>12. ASSUME NEW p \in Procs, Plan(p)
        PROVE  Strays'
    BY <1>12 DEF Plan, Goto, Unjustified, Tables, Holds
  <1>13. ASSUME NEW p \in Procs, DropRow(p)
        PROVE  Strays'
    BY <1>13 DEF DropRow, Goto, Kept
  <1>14. ASSUME NEW p \in Procs, ErasePoint(p)
        PROVE  Strays'
    BY <1>14 DEF ErasePoint, Goto
  <1>15. ASSUME NEW p \in Procs, EndPlan(p)
        PROVE  Strays'
    BY <1>15 DEF EndPlan, Leave, Goto, Forget, Finish, Downgraded, Holds
  <1>16. ASSUME NEW p \in Procs, Extract(p)
        PROVE  Strays'
    BY SMTT(40), <1>16 DEF Extract, Goto
  <1>17. ASSUME NEW p \in Procs, Prune(p)
        PROVE  Strays'
    BY <1>17 DEF Prune, Goto
  <1>18. ASSUME NEW p \in Procs, Look(p)
        PROVE  Strays'
    BY SMTT(40), <1>18 DEF Look, Goto, Finish, Forget
  <1>19. ASSUME NEW p \in Procs, Orphans(p)
        PROVE  Strays'
    BY <1>19 DEF Orphans, Goto
  <1>20. ASSUME NEW p \in Procs, Commit(p)
        PROVE  Strays'
    <2> SUFFICES ASSUME NEW e \in Entities \ crossed', Stray(e)'
                 PROVE  (\E q \in Procs : Handled(q, e))'
      OBVIOUS
    <2> DEFINE d == doc[p]
    <2>1. op[p] = "purge" /\ At(p, "commit") /\ d \in Docs /\ d \notin shared
      BY <1>20 DEF Commit, Uncovered
    <2>2. origin[e] = "document" /\ e \notin todo[p] \cup gc[p] /\ e \notin crossed
      BY <1>20 DEF Commit, Downgraded
    <2>3. \A x \in Docs : x # d => mentions'[x] = mentions[x] \ gc[p]
      BY <1>20 DEF Commit
    <2>4. shared' = shared /\ shared \subseteq Docs
      BY <1>20 DEF Commit
    <2>5. Stray(e)
      BY <2>1, <2>2, <2>3, <2>4
    <2>6. PICK q \in Procs : Handled(q, e)
      BY <2>2, <2>5
    <2>7. q # p
      BY <2>1, <2>2, <2>6
    <2>8. /\ op'[q] = op[q] /\ doc'[q] = doc[q] /\ at'[q] = at[q]
          /\ todo'[q] = todo[q] /\ gc'[q] = gc[q]
      BY <1>20, <2>7 DEF Commit, Goto
    <2>9. Overtaken(q)' => Overtaken(q)
      BY <1>20 DEF Commit, Goto
    <2>10. CASE At(q, "plan") /\ op[q] # "ingest" /\ e \in mentions[doc[q]] /\ ~Overtaken(q)
      <3>1. doc[q] \in Docs /\ doc[q] # d
        BY <2>1, <2>10
      <3> QED
        BY <2>2, <2>3, <2>8, <2>9, <2>10, <3>1
    <2> QED
      BY <2>6, <2>8, <2>10
  <1>21. ASSUME NEW p \in Procs, WipePoints(p)
        PROVE  Strays'
    BY SMTT(40), <1>21 DEF WipePoints, Goto
  <1>22. ASSUME NEW p \in Procs, EntityArm(p)
        PROVE  Strays'
    BY <1>22 DEF EntityArm, Goto
  <1>23. ASSUME NEW p \in Procs, RaiseProject(p), faults' = faults + 1, faults < MaxFaults
        PROVE  Strays'
    BY <1>23 DEF RaiseProject, Goto
  <1>24. ASSUME NEW p \in Procs, RaiseDrop(p), faults' = faults + 1, faults < MaxFaults
        PROVE  Strays'
    BY <1>24 DEF RaiseDrop
  <1>25. ASSUME NEW p \in Procs, RaisePlan(p), faults' = faults + 1, faults < MaxFaults
        PROVE  Strays'
    BY <1>25 DEF RaisePlan, Leave, Goto, Forget, Finish
  <1>26. ASSUME NEW p \in Procs, RaisePrune(p), faults' = faults + 1, faults < MaxFaults
        PROVE  Strays'
    BY <1>26 DEF RaisePrune, Goto
  <1>27. ASSUME NEW p \in Procs, RaiseDelete(p), faults' = faults + 1, faults < MaxFaults
        PROVE  Strays'
    BY <1>27 DEF RaiseDelete, Goto
  <1>28. ASSUME NEW p \in Procs, RaiseWipe(p), faults' = faults + 1, faults < MaxFaults
        PROVE  Strays'
    BY <1>28 DEF RaiseWipe, Goto
  <1>29. CASE UNCHANGED vars
    BY <1>29 DEF vars
  <1> QED
    BY <1>1, <1>2, <1>3, <1>4, <1>5, <1>6, <1>7, <1>8, <1>9, <1>10, <1>11, <1>12, <1>13, <1>14, <1>15, <1>16, <1>17, <1>18, <1>19, <1>20, <1>21, <1>22, <1>23, <1>24, <1>25, <1>26, <1>27, <1>28, <1>29
    DEF Next, Project, Retract, Ingest, Purge, Fault


\* The worker is in a cascade that will insert the row of e for document d.
Coming(d, e) ==
  /\ doc[Worker] = d
  /\ \/ op[Worker] = "ingest" /\ at[Worker] \in {"look", "lock", "plan", "drop", "erase", "list"}
     \/ op[Worker] = "ingest" /\ at[Worker] = "prune" /\ e \in todo[Worker]
     \/ op[Worker] = "share" /\ at[Worker] = "list"
     \/ Inserting(Worker) /\ e \in todo[Worker]
     \/ Inserting(Worker) /\ At(Worker, "row") /\ e = ent[Worker]

\* A plan holds e to be deleted.
Threatened(e) ==
  \E q \in Procs : (Retracts(q) /\ e \in todo[q]) \/ (At(q, "commit") /\ e \in gc[q])
Complete ==
  \A d \in shared : \A e \in mentions[d] \ crossed : (Holds(e) /\ ~Threatened(e)) \/ Coming(d, e)

\* What a shared document mentions has a row that no plan deletes, or gets one.
LEMMA CompleteInductive ==
    ASSUME TypeOK, Belongs, LockHeld, Tables, Uncovered, Inserted, Complete, [Next]_vars
    PROVE  Complete'
  <1> USE DEF tables, counts, ghosts, Plans, Subject, TypeOK, Belongs, Complete, Threatened, Coming, Inserting, Retracts, Holds, At, OfDocument, OfEntity, Locking, Jobs
  <1>1. ASSUME NEW p \in Procs, NEW o \in Requests, Begin(p, o)
        PROVE  Complete'
    <2> SUFFICES ASSUME NEW d \in shared', NEW e \in mentions'[d] \ crossed'
                 PROVE  ((Holds(e) /\ ~Threatened(e)) \/ Coming(d, e))'
      BY DEF Complete
    <2>1. e \in Entities /\ d \in shared /\ e \in mentions[d] \ crossed
      BY <1>1 DEF Begin, FirstStep
    <2>2. Holds(e)' <=> Holds(e)
      BY <1>1, <2>1 DEF Begin, FirstStep
    <2>3. Threatened(e)' => Threatened(e)
      BY <1>1, <2>1 DEF Begin, FirstStep
    <2>4. Coming(d, e) => Coming(d, e)'
      BY <1>1, <2>1 DEF Begin, FirstStep, Procs
    <2> QED
      BY <2>1, <2>2, <2>3, <2>4 DEF Complete
  <1>2. ASSUME NEW p \in Procs, Lock(p)
        PROVE  Complete'
    BY <1>2 DEF Lock, Goto
  <1>3. ASSUME NEW p \in Procs, Unlock(p)
        PROVE  Complete'
    BY <1>3 DEF Unlock, Finish, Forget
  <1>4. ASSUME NEW p \in Procs, Cover(p)
        PROVE  Complete'
    BY <1>4 DEF Cover, Leave, Goto, Forget, Finish
  <1>5. ASSUME NEW p \in Procs, List(p)
        PROVE  Complete'
    BY <1>5 DEF List, Goto, Tables
  <1>6. ASSUME NEW p \in Procs, UpsertPoint(p)
        PROVE  Complete'
    BY <1>6 DEF UpsertPoint, Goto
  <1>7. ASSUME NEW p \in Procs, EndList(p)
        PROVE  Complete'
    <2> SUFFICES ASSUME NEW d \in shared', NEW e \in mentions'[d] \ crossed'
                 PROVE  ((Holds(e) /\ ~Threatened(e)) \/ Coming(d, e))'
      BY DEF Complete
    <2>1. e \in Entities /\ d \in shared /\ e \in mentions[d] \ crossed
      BY <1>7 DEF EndList, Leave, Goto, Forget, Finish
    <2>2. Holds(e)' <=> Holds(e)
      BY <1>7, <2>1 DEF EndList, Leave, Goto, Forget, Finish
    <2>3. Threatened(e)' => Threatened(e)
      BY <1>7, <2>1 DEF EndList, Leave, Goto, Forget, Finish
    <2>4. Coming(d, e) => Coming(d, e)'
      BY <1>7, <2>1 DEF EndList, Leave, Goto, Forget, Finish, Procs
    <2> QED
      BY <2>1, <2>2, <2>3, <2>4 DEF Complete
  <1>8. ASSUME NEW p \in Procs, InsertRow(p)
        PROVE  Complete'
    BY <1>8 DEF InsertRow, Goto, Promoted, Planned, Origins, Tables
  <1>9. ASSUME NEW p \in Procs, InsertRefused(p)
        PROVE  Complete'
    BY <1>9 DEF InsertRefused, Goto, Tables
  <1>10. ASSUME NEW p \in Procs, UndoPoint(p)
        PROVE  Complete'
    BY <1>10 DEF UndoPoint, Goto
  <1>11. ASSUME NEW p \in Procs, Uncover(p)
        PROVE  Complete'
    <2> SUFFICES ASSUME NEW d \in shared', NEW e \in mentions'[d] \ crossed'
                 PROVE  ((Holds(e) /\ ~Threatened(e)) \/ Coming(d, e))'
      BY DEF Complete
    <2>1. e \in Entities /\ d \in shared /\ e \in mentions[d] \ crossed
      BY <1>11 DEF Uncover, Leave, Goto, Forget, Finish
    <2>2. Holds(e)' <=> Holds(e)
      BY <1>11, <2>1 DEF Uncover, Leave, Goto, Forget, Finish
    <2>3. Threatened(e)' => Threatened(e)
      BY <1>11, <2>1 DEF Uncover, Leave, Goto, Forget, Finish
    <2>4. Coming(d, e) => Coming(d, e)'
      BY <1>11, <2>1 DEF Uncover, Leave, Goto, Forget, Finish, Procs
    <2> QED
      BY <2>1, <2>2, <2>3, <2>4 DEF Complete
  <1>12. ASSUME NEW p \in Procs, Plan(p)
        PROVE  Complete'
    BY <1>12 DEF Plan, Goto, Unjustified, Tables, Mentions, Uncovered, Inserted
  <1>13. ASSUME NEW p \in Procs, DropRow(p)
        PROVE  Complete'
    BY <1>13 DEF DropRow, Kept, Goto, Mentions
  <1>14. ASSUME NEW p \in Procs, ErasePoint(p)
        PROVE  Complete'
    BY <1>14 DEF ErasePoint, Goto
  <1>15. ASSUME NEW p \in Procs, EndPlan(p)
        PROVE  Complete'
    <2> SUFFICES ASSUME NEW d \in shared', NEW e \in mentions'[d] \ crossed'
                 PROVE  ((Holds(e) /\ ~Threatened(e)) \/ Coming(d, e))'
      BY DEF Complete
    <2>1. e \in Entities /\ d \in shared /\ e \in mentions[d] \ crossed
      BY <1>15 DEF EndPlan, Leave, Goto, Forget, Finish, Downgraded
    <2>2. Holds(e)' <=> Holds(e)
      BY <1>15, <2>1 DEF EndPlan, Leave, Goto, Forget, Finish, Downgraded
    <2>3. Threatened(e)' => Threatened(e)
      BY <1>15, <2>1 DEF EndPlan, Leave, Goto, Forget, Finish, Downgraded
    <2>4. Coming(d, e) => Coming(d, e)'
      BY <1>15, <2>1 DEF EndPlan, Leave, Goto, Forget, Finish, Downgraded, Procs
    <2> QED
      BY <2>1, <2>2, <2>3, <2>4 DEF Complete
  <1>16. ASSUME NEW p \in Procs, Extract(p)
        PROVE  Complete'
    BY <1>16 DEF Extract, Goto
  <1>17. ASSUME NEW p \in Procs, Prune(p)
        PROVE  Complete'
    BY <1>17 DEF Prune, Goto
  <1>18. ASSUME NEW p \in Procs, Look(p)
        PROVE  Complete'
    BY <1>18 DEF Look, Goto, Finish, Forget, Tables
  <1>19. ASSUME NEW p \in Procs, Orphans(p)
        PROVE  Complete'
    BY <1>19 DEF Orphans, Goto, Mentions, Uncovered
  <1>20. ASSUME NEW p \in Procs, Commit(p)
        PROVE  Complete'
    BY <1>20 DEF Commit, Goto, Downgraded, Uncovered, LockHeld, Inside, Tables
  <1>21. ASSUME NEW p \in Procs, WipePoints(p)
        PROVE  Complete'
    BY <1>21 DEF WipePoints, Goto
  <1>22. ASSUME NEW p \in Procs, EntityArm(p)
        PROVE  Complete'
    BY <1>22 DEF EntityArm, Goto
  <1>23. ASSUME NEW p \in Procs, RaiseProject(p), faults' = faults + 1, faults < MaxFaults
        PROVE  Complete'
    <2> SUFFICES ASSUME NEW d \in shared', NEW e \in mentions'[d] \ crossed'
                 PROVE  ((Holds(e) /\ ~Threatened(e)) \/ Coming(d, e))'
      BY DEF Complete
    <2>1. e \in Entities /\ d \in shared /\ e \in mentions[d] \ crossed
      BY <1>23 DEF RaiseProject, Goto
    <2>2. Holds(e)' <=> Holds(e)
      BY <1>23, <2>1 DEF RaiseProject, Goto
    <2>3. Threatened(e)' => Threatened(e)
      BY <1>23, <2>1 DEF RaiseProject, Goto
    <2>4. Coming(d, e) => Coming(d, e)'
      BY <1>23, <2>1 DEF RaiseProject, Goto, Procs
    <2> QED
      BY <2>1, <2>2, <2>3, <2>4 DEF Complete
  <1>24. ASSUME NEW p \in Procs, RaiseDrop(p), faults' = faults + 1, faults < MaxFaults
        PROVE  Complete'
    BY <1>24 DEF RaiseDrop
  <1>25. ASSUME NEW p \in Procs, RaisePlan(p), faults' = faults + 1, faults < MaxFaults
        PROVE  Complete'
    <2> SUFFICES ASSUME NEW d \in shared', NEW e \in mentions'[d] \ crossed'
                 PROVE  ((Holds(e) /\ ~Threatened(e)) \/ Coming(d, e))'
      BY DEF Complete
    <2>1. e \in Entities /\ d \in shared /\ e \in mentions[d] \ crossed
      BY <1>25 DEF RaisePlan, Leave, Goto, Forget, Finish
    <2>2. Holds(e)' <=> Holds(e)
      BY <1>25, <2>1 DEF RaisePlan, Leave, Goto, Forget, Finish
    <2>3. Threatened(e)' => Threatened(e)
      BY <1>25, <2>1 DEF RaisePlan, Leave, Goto, Forget, Finish
    <2>4. Coming(d, e) => Coming(d, e)'
      BY <1>25, <2>1 DEF RaisePlan, Leave, Goto, Forget, Finish, Procs
    <2> QED
      BY <2>1, <2>2, <2>3, <2>4 DEF Complete
  <1>26. ASSUME NEW p \in Procs, RaisePrune(p), faults' = faults + 1, faults < MaxFaults
        PROVE  Complete'
    BY <1>26 DEF RaisePrune, Goto
  <1>27. ASSUME NEW p \in Procs, RaiseDelete(p), faults' = faults + 1, faults < MaxFaults
        PROVE  Complete'
    BY <1>27 DEF RaiseDelete, Goto
  <1>28. ASSUME NEW p \in Procs, RaiseWipe(p), faults' = faults + 1, faults < MaxFaults
        PROVE  Complete'
    <2> SUFFICES ASSUME NEW d \in shared', NEW e \in mentions'[d] \ crossed'
                 PROVE  ((Holds(e) /\ ~Threatened(e)) \/ Coming(d, e))'
      BY DEF Complete
    <2>1. e \in Entities /\ d \in shared /\ e \in mentions[d] \ crossed
      BY <1>28 DEF RaiseWipe, Goto
    <2>2. Holds(e)' <=> Holds(e)
      BY <1>28, <2>1 DEF RaiseWipe, Goto
    <2>3. Threatened(e)' => Threatened(e)
      BY <1>28, <2>1 DEF RaiseWipe, Goto
    <2>4. Coming(d, e) => Coming(d, e)'
      BY <1>28, <2>1 DEF RaiseWipe, Goto, Procs
    <2> QED
      BY <2>1, <2>2, <2>3, <2>4 DEF Complete
  <1>29. CASE UNCHANGED vars
    BY <1>29 DEF vars
  <1> QED
    BY <1>1, <1>2, <1>3, <1>4, <1>5, <1>6, <1>7, <1>8, <1>9, <1>10, <1>11, <1>12, <1>13, <1>14, <1>15, <1>16, <1>17, <1>18, <1>19, <1>20, <1>21, <1>22, <1>23, <1>24, <1>25, <1>26, <1>27, <1>28, <1>29
    DEF Next, Project, Retract, Ingest, Purge, Fault

-----------------------------------------------------------------------------
IInv == TypeOK /\ Belongs /\ LockHeld /\ Tables /\ Uncovered /\ Inserted
        /\ Hidden /\ Asked /\ Strays /\ Complete

\* The inductive invariant holds at first.
LEMMA IInvInit == Init => IInv
  <1> SUFFICES ASSUME Init PROVE IInv
    OBVIOUS
  <1> USE DEF Init, At
  <1>1. PICK S \in SUBSET Docs :
          LET seen == UNION {Mentioned[d] : d \in S} IN
            /\ shared = S
            /\ origin = [e \in Entities |-> IF e \in seen THEN "document" ELSE "none"]
            /\ points = seen
    OBVIOUS
  <1> DEFINE seen == UNION {Mentioned[d] : d \in S}
  <1>2. /\ seen \subseteq personal /\ seen \subseteq Entities
        /\ personal \subseteq Entities
        /\ \A d \in Docs : Mentioned[d] \subseteq personal
        /\ \A d \in S : Mentioned[d] \subseteq seen
    <2>1. \A d \in Docs : Mentioned[d] \subseteq Entities
      OBVIOUS
    <2> QED
      BY <2>1
  <1>3. \A e \in Entities : e \in seen <=> origin[e] = "document"
    BY <1>1
  <1>4. \A e \in Entities : origin[e] \in {"document", "none"}
    BY <1>1
  <1>5. TypeOK
    BY <1>1, <1>2 DEF TypeOK, Origins, Steps, Operations, OfDocument, Locking, Jobs
  <1>6. Belongs /\ LockHeld /\ Uncovered /\ Inserted
    BY DEF Belongs, LockHeld, Inside, Uncovered, Inserted, Inserting
  <1>7. Tables
    BY <1>1, <1>2, <1>3, <1>4 DEF Tables, Holds
  <1>8. Hidden
    BY <1>1, <1>2, <1>3 DEF Hidden, Holds
  <1>9. Asked
    BY <1>4 DEF Asked, Retracts, Mine
  <1>10. Strays
    <2> SUFFICES ASSUME NEW e \in Entities, Stray(e) PROVE FALSE
      BY DEF Strays
    <2>1. e \in seen
      BY <1>3 DEF Stray
    <2>2. PICK d \in S : e \in Mentioned[d]
      BY <2>1
    <2> QED
      BY <1>1, <2>2 DEF Stray, Mentions
  <1>11. Complete
    <2> SUFFICES ASSUME NEW d \in shared, NEW e \in mentions[d] PROVE Holds(e) /\ ~Threatened(e)
      BY DEF Complete
    <2>1. e \in seen /\ e \in Entities
      BY <1>1, <1>2
    <2> QED
      BY <1>3, <2>1 DEF Holds, Threatened, Retracts
  <1> QED
    BY <1>5, <1>6, <1>7, <1>8, <1>9, <1>10, <1>11 DEF IInv

\* Every step keeps it.
LEMMA IInvInductive == IInv /\ [Next]_vars => IInv'
  BY TypeInductive, BelongsInductive, LockHeldInductive, TablesInductive, UncoveredInductive,
     InsertedInductive, HiddenInductive, AskedInductive, StraysInductive, CompleteInductive
  DEF IInv

\* It holds always.
LEMMA Invariance == Spec => []IInv
  BY IInvInit, IInvInductive, PTL DEF Spec

\* All variables keep their types.
THEOREM TypeCorrect == Spec => []TypeOK
  <1>1. IInv => TypeOK
    BY DEF IInv
  <1> QED
    BY <1>1, Invariance, PTL

\* plan_document_entity_retraction: when nothing runs, no shared row that only
\* documents justified is without a shared document that mentions it.
THEOREM NoStrays == Spec => []OrphanFree
  <1>1. IInv => OrphanFree
    <2> SUFFICES ASSUME IInv, AtRest, NEW e \in Entities \ crossed, Stray(e) PROVE FALSE
      BY DEF OrphanFree
    <2>1. PICK p \in Procs : Handled(p, e)
      BY DEF IInv, Strays
    <2> QED
      BY <2>1 DEF AtRest, At, Handled, Retracts
  <1> QED
    BY <1>1, Invariance, PTL

\* cascade_share_document_entities: when nothing runs, what a shared document
\* mentions is shared.
THEOREM NoneMissing == Spec => []MentionedIsShared
  <1>1. IInv => MentionedIsShared
    <2> SUFFICES ASSUME IInv, AtRest, NEW d \in shared,
                        NEW e \in (mentions[d] \cap personal) \ crossed
                 PROVE  Holds(e)
      BY DEF MentionedIsShared
    <2>1. ~Coming(d, e)
      BY DEF AtRest, At, Coming, Inserting, Procs
    <2> QED
      BY <2>1 DEF IInv, Complete
  <1> QED
    BY <1>1, Invariance, PTL

\* share_origin: what the owner asked for stays shared, and only that is theirs,
\* unless the owner acted between a plan and its delete or its downgrade (late).
THEOREM AskedStays == Spec => []AskedIsShared
  <1>1. IInv => AskedIsShared
    BY DEF IInv, Asked, Mine, AskedIsShared
  <1> QED
    BY <1>1, Invariance, PTL

\* _insert_projection_or_rollback_qdrant: when nothing runs, a shared point has
\* its row.
THEOREM NoneHidden == Spec => []NoHiddenPoint
  <1>1. IInv => NoHiddenPoint
    BY DEF IInv, Hidden, NoHiddenPoint, AtRest, At
  <1> QED
    BY <1>1, Invariance, PTL
=============================================================================
