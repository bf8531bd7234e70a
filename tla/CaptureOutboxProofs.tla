------------------------ MODULE CaptureOutboxProofs ------------------------
(***************************************************************************)
(* Proofs about CaptureOutbox: nothing saved is lost or doubled and no     *)
(* recording is left where nobody sees it, for any number of tabs, items,  *)
(* operations, lost messages, refused writes and reloads; and the outbox   *)
(* implements DeliveryLedger.                                              *)
(***************************************************************************)
EXTENDS CaptureOutbox, TLAPS

USE OutboxAssumption

-----------------------------------------------------------------------------
(***************************************************************************)
(* The parts of the inductive invariant                                    *)
(***************************************************************************)
\* Where each tab is, and that it has an item in hand there.
Belongs ==
  \A t \in Tabs :
    /\ pc[t] = "idle" <=> op[t] = None
    /\ op[t] = "add" <=> pc[t] \in Adding
    /\ op[t] = "discard" => pc[t] \in Removing
    /\ item[t] = None <=> pc[t] \in {"idle", "list", "next"}

\* Who has what: a new item is known to the tab that saves it alone.
Owned ==
  /\ saved \subseteq drawn /\ blobs \subseteq drawn \cap Audio /\ metas \subseteq saved
  /\ \A t \in Tabs :
       /\ op[t] = "add" => item[t] \in drawn \ saved
       /\ pc[t] = "blob" => item[t] \in Audio
       /\ item[t] # None /\ op[t] # "add" => item[t] \in saved
       /\ work[t] \subseteq saved
       /\ op[t] = "add" => \A u \in Tabs : item[u] = item[t] => u = t

\* A tab that changes the index alone has read the index there is.
Alone ==
  clashed \/ \A t \in Tabs : pc[t] \in {"appending", "removing"} =>
               ids[t] = index /\ \A u \in Tabs : pc[u] \in {"appending", "removing"} => u = t

\* Captures have ids of their own, one for an item, and what a tab has been told
\* is the capture of its item.
Numbered ==
  /\ \A c \in captures : c.id \in 1 .. made
  /\ \A c, d \in captures : c.item = d.item \/ c.id = d.id => c = d
  /\ \A t \in Tabs : pc[t] \in {"load", "upload"} =>
       capture[t] \in 1 .. made /\ \A c \in captures : c.id = capture[t] => c.item = item[t]

\* What has been written while a recording or a note is saved.
Written ==
  \A t \in Tabs :
    /\ op[t] = "add" /\ pc[t] # "blob" /\ item[t] \in Audio => item[t] \in blobs
    /\ pc[t] = "blob" => item[t] \notin blobs
    /\ pc[t] = "meta" => clashed \/ item[t] \in index

\* Only what its owner discarded or the server has is removed from the device.
Removable ==
  \A t \in Tabs : pc[t] \in Removing => item[t] \in discarded \/ AtServer(item[t])

\* A removal past the blob has left none, and a blob is listed or being saved.
Erased ==
  \A t \in Tabs : pc[t] \in {"delmeta", "remove", "removing"} =>
    clashed \/ item[t] \notin blobs \ broken
Listed ==
  \A i \in blobs \ broken :
    clashed \/ i \in index \cap metas \/ \E t \in Tabs : op[t] = "add" /\ item[t] = i

\* What was saved is on the device or at the server.
Kept == \A i \in saved \ discarded : clashed \/ OnDevice(i) \/ AtServer(i)

-----------------------------------------------------------------------------
\* The fields of a row and of a request.
LEMMA FieldTypes ==
    ASSUME TypeOK
    PROVE  /\ \A c \in captures : c.item \in Items /\ c.id \in Nat
           /\ \A q \in late : q.item \in Items /\ q.id \in Nat
  BY DEF TypeOK

\* The types are kept by every step.
LEMMA TypeInductive ==
    ASSUME TypeOK, Belongs, [Next]_vars
    PROVE  TypeOK'
  <1> USE DEF device, server, locals, ghosts, TypeOK, Belongs, Adding, Removing, Steps, Sending
  <1>1. ASSUME NEW t \in Tabs, NEW i \in Items, Add(t, i)
        PROVE  TypeOK'
    BY <1>1 DEF Add, Ask, Goto
  <1>2. ASSUME NEW t \in Tabs, NEW i \in Items, Discard(t, i)
        PROVE  TypeOK'
    BY <1>2 DEF Discard, Ask, Goto
  <1>3. ASSUME NEW t \in Tabs, NEW i \in Items, TakeItem(t, i)
        PROVE  TypeOK'
    BY <1>3 DEF TakeItem, Step, Goto
  <1>4. ASSUME NEW t \in Tabs, PutBlob(t)
        PROVE  TypeOK'
    BY <1>4 DEF PutBlob, Step, Goto
  <1>5. ASSUME NEW t \in Tabs, SaveMeta(t)
        PROVE  TypeOK'
    BY <1>5 DEF SaveMeta, Done
  <1>6. ASSUME NEW t \in Tabs, TakeBack(t)
        PROVE  TypeOK'
    BY <1>6 DEF TakeBack, Done
  <1>7. ASSUME NEW t \in Tabs, AddRefused(t)
        PROVE  TypeOK'
    BY <1>7 DEF AddRefused, Fault, Done, Goto
  <1>8. ASSUME NEW t \in Tabs, ReadIndex(t)
        PROVE  TypeOK'
    BY <1>8 DEF ReadIndex, Step, Goto
  <1>9. ASSUME NEW t \in Tabs, WriteAppended(t)
        PROVE  TypeOK'
    BY <1>9 DEF WriteAppended, Step, Goto
  <1>10. ASSUME NEW t \in Tabs, WriteRemoved(t)
        PROVE  TypeOK'
    BY <1>10 DEF WriteRemoved, Done, Goto
  <1>11. ASSUME NEW t \in Tabs, RemoveRefused(t)
        PROVE  TypeOK'
    BY <1>11 DEF RemoveRefused, Fault, Done, Goto
  <1>12. ASSUME NEW t \in Tabs, ReadKind(t)
        PROVE  TypeOK'
    BY <1>12 DEF ReadKind, Goto
  <1>13. ASSUME NEW t \in Tabs, DelBlob(t)
        PROVE  TypeOK'
    BY <1>13 DEF DelBlob, Step, Goto, Fault
  <1>14. ASSUME NEW t \in Tabs, DelMeta(t)
        PROVE  TypeOK'
    BY <1>14 DEF DelMeta, Step, Goto, Fault
  <1>15. ASSUME NEW t \in Tabs, Sync(t)
        PROVE  TypeOK'
    BY <1>15 DEF Sync, Ask, Goto
  <1>16. ASSUME NEW t \in Tabs, ListMetas(t)
        PROVE  TypeOK'
    BY <1>16 DEF ListMetas, Step, Goto
  <1>17. ASSUME NEW t \in Tabs, SyncEnds(t)
        PROVE  TypeOK'
    BY <1>17 DEF SyncEnds, Done
  <1>18. ASSUME NEW t \in Tabs, ItemFails(t)
        PROVE  TypeOK'
    BY <1>18 DEF ItemFails, Step, Goto
  <1>19. ASSUME NEW t \in Tabs, SyncRefused(t)
        PROVE  TypeOK'
    BY <1>19 DEF SyncRefused, Fault, Done
  <1>20. ASSUME NEW t \in Tabs, LoadBlob(t)
        PROVE  TypeOK'
    BY <1>20 DEF LoadBlob, Goto
  <1>21. ASSUME NEW t \in Tabs, CreateSelect(t)
        PROVE  TypeOK'
    BY <1>21 DEF CreateSelect, Goto, AfterCreate, Rows
  <1>22. ASSUME NEW t \in Tabs, CreateInsert(t)
        PROVE  TypeOK'
    BY <1>22 DEF CreateInsert, Goto, AfterCreate, Insert, Rows
  <1>23. ASSUME NEW t \in Tabs, Upload(t)
        PROVE  TypeOK'
    <2>1. capture[t] \in Nat /\ \A x \in attached' : x \in attached \cup {capture[t]}
      BY <1>23 DEF Upload, Attach
    <2>2. pc' \in [Tabs -> Steps]
      BY <1>23 DEF Upload, Goto
    <2> QED
      BY <1>23, <2>1, <2>2 DEF Upload
  <1>24. ASSUME NEW t \in Tabs, AnswerLost(t)
        PROVE  TypeOK'
    BY <1>24 DEF AnswerLost, Goto, Pending, Fault
  <1>25. ASSUME NEW t \in Tabs, Reload(t)
        PROVE  TypeOK'
    BY <1>25 DEF Reload, Done, Pending, Fault
  <1>26. ASSUME NEW request \in late, Late(request)
        PROVE  TypeOK'
    <2>1. request.item \in Items /\ request.id \in Nat
      BY FieldTypes
    <2>2. \A x \in attached' : x \in attached \cup {request.id}
      BY <1>26 DEF Late, Attach
    <2>3. captures' \subseteq [item : Items, id : Nat] /\ made' \in Nat
      BY <1>26, <2>1 DEF Late, Insert
    <2>4. attached' \subseteq Nat
      BY <2>1, <2>2
    <2> QED
      BY <1>26, <2>3, <2>4 DEF Late
  <1>27. ASSUME NEW c \in captures, Edit(c)
        PROVE  TypeOK'
    <2>1. c.id \in Nat
      BY FieldTypes
    <2>2. \A x \in edited' : x \in Nat
      BY <1>27, <2>1 DEF Edit
    <2>3. asked' \in 0 .. MaxOps
      BY <1>27 DEF Edit
    <2> QED
      BY <1>27, <2>2, <2>3 DEF Edit
  <1>28. ASSUME NEW c \in captures, Promote(c)
        PROVE  TypeOK'
    <2>1. c.id \in Nat
      BY FieldTypes
    <2>2. \A x \in indexed' : x \in Nat
      BY <1>28, <2>1 DEF Promote
    <2>3. asked' \in 0 .. MaxOps
      BY <1>28 DEF Promote
    <2> QED
      BY <1>28, <2>2, <2>3 DEF Promote
  <1>29. ASSUME NEW c \in captures, Remove(c)
        PROVE  TypeOK'
    BY <1>29 DEF Remove
  <1>30. CASE UNCHANGED vars
    BY <1>30 DEF vars
  <1> QED
    BY <1>1, <1>2, <1>3, <1>4, <1>5, <1>6, <1>7, <1>8, <1>9, <1>10, <1>11, <1>12, <1>13, <1>14, <1>15, <1>16, <1>17, <1>18, <1>19, <1>20, <1>21, <1>22, <1>23, <1>24, <1>25, <1>26, <1>27, <1>28, <1>29, <1>30
    DEF Next

\* Every step finds the tab where it belongs.
LEMMA BelongsInductive ==
    ASSUME TypeOK, Belongs, [Next]_vars
    PROVE  Belongs'
  <1> USE DEF device, server, locals, ghosts, TypeOK, Belongs, Adding, Removing, Steps, Sending
  <1>1. ASSUME NEW t \in Tabs, NEW i \in Items, Add(t, i)
        PROVE  Belongs'
    BY <1>1 DEF Add, Ask, Goto
  <1>2. ASSUME NEW t \in Tabs, NEW i \in Items, Discard(t, i)
        PROVE  Belongs'
    BY <1>2 DEF Discard, Ask, Goto
  <1>3. ASSUME NEW t \in Tabs, NEW i \in Items, TakeItem(t, i)
        PROVE  Belongs'
    BY <1>3 DEF TakeItem, Step, Goto
  <1>4. ASSUME NEW t \in Tabs, PutBlob(t)
        PROVE  Belongs'
    BY <1>4 DEF PutBlob, Step, Goto
  <1>5. ASSUME NEW t \in Tabs, SaveMeta(t)
        PROVE  Belongs'
    BY <1>5 DEF SaveMeta, Done
  <1>6. ASSUME NEW t \in Tabs, TakeBack(t)
        PROVE  Belongs'
    BY <1>6 DEF TakeBack, Done
  <1>7. ASSUME NEW t \in Tabs, AddRefused(t)
        PROVE  Belongs'
    BY <1>7 DEF AddRefused, Fault, Done, Goto
  <1>8. ASSUME NEW t \in Tabs, ReadIndex(t)
        PROVE  Belongs'
    BY <1>8 DEF ReadIndex, Step, Goto
  <1>9. ASSUME NEW t \in Tabs, WriteAppended(t)
        PROVE  Belongs'
    BY <1>9 DEF WriteAppended, Step, Goto
  <1>10. ASSUME NEW t \in Tabs, WriteRemoved(t)
        PROVE  Belongs'
    BY <1>10 DEF WriteRemoved, Done, Goto
  <1>11. ASSUME NEW t \in Tabs, RemoveRefused(t)
        PROVE  Belongs'
    BY <1>11 DEF RemoveRefused, Fault, Done, Goto
  <1>12. ASSUME NEW t \in Tabs, ReadKind(t)
        PROVE  Belongs'
    BY <1>12 DEF ReadKind, Goto
  <1>13. ASSUME NEW t \in Tabs, DelBlob(t)
        PROVE  Belongs'
    BY <1>13 DEF DelBlob, Step, Goto, Fault
  <1>14. ASSUME NEW t \in Tabs, DelMeta(t)
        PROVE  Belongs'
    BY <1>14 DEF DelMeta, Step, Goto, Fault
  <1>15. ASSUME NEW t \in Tabs, Sync(t)
        PROVE  Belongs'
    BY <1>15 DEF Sync, Ask, Goto
  <1>16. ASSUME NEW t \in Tabs, ListMetas(t)
        PROVE  Belongs'
    BY <1>16 DEF ListMetas, Step, Goto
  <1>17. ASSUME NEW t \in Tabs, SyncEnds(t)
        PROVE  Belongs'
    BY <1>17 DEF SyncEnds, Done
  <1>18. ASSUME NEW t \in Tabs, ItemFails(t)
        PROVE  Belongs'
    BY <1>18 DEF ItemFails, Step, Goto
  <1>19. ASSUME NEW t \in Tabs, SyncRefused(t)
        PROVE  Belongs'
    BY <1>19 DEF SyncRefused, Fault, Done
  <1>20. ASSUME NEW t \in Tabs, LoadBlob(t)
        PROVE  Belongs'
    BY <1>20 DEF LoadBlob, Goto
  <1>21. ASSUME NEW t \in Tabs, CreateSelect(t)
        PROVE  Belongs'
    BY <1>21 DEF CreateSelect, Goto, AfterCreate, Rows
  <1>22. ASSUME NEW t \in Tabs, CreateInsert(t)
        PROVE  Belongs'
    BY <1>22 DEF CreateInsert, Goto, AfterCreate, Insert, Rows
  <1>23. ASSUME NEW t \in Tabs, Upload(t)
        PROVE  Belongs'
    BY <1>23 DEF Upload, Goto, Attach, Accepted
  <1>24. ASSUME NEW t \in Tabs, AnswerLost(t)
        PROVE  Belongs'
    BY <1>24 DEF AnswerLost, Goto, Pending, Fault
  <1>25. ASSUME NEW t \in Tabs, Reload(t)
        PROVE  Belongs'
    BY <1>25 DEF Reload, Done, Pending, Fault
  <1>26. ASSUME NEW request \in late, Late(request)
        PROVE  Belongs'
    BY <1>26 DEF Late, Attach, Accepted, Insert, Rows
  <1>27. ASSUME NEW c \in captures, Edit(c)
        PROVE  Belongs'
    BY <1>27 DEF Edit
  <1>28. ASSUME NEW c \in captures, Promote(c)
        PROVE  Belongs'
    BY <1>28 DEF Promote
  <1>29. ASSUME NEW c \in captures, Remove(c)
        PROVE  Belongs'
    BY <1>29 DEF Remove
  <1>30. CASE UNCHANGED vars
    BY <1>30 DEF vars
  <1> QED
    BY <1>1, <1>2, <1>3, <1>4, <1>5, <1>6, <1>7, <1>8, <1>9, <1>10, <1>11, <1>12, <1>13, <1>14, <1>15, <1>16, <1>17, <1>18, <1>19, <1>20, <1>21, <1>22, <1>23, <1>24, <1>25, <1>26, <1>27, <1>28, <1>29, <1>30
    DEF Next

\* Ids are drawn once, and nobody but the tab that saves an item knows it before it is saved.
LEMMA OwnedInductive ==
    ASSUME TypeOK, Belongs, Owned, [Next]_vars
    PROVE  Owned'
  <1> USE DEF device, server, locals, ghosts, TypeOK, Belongs, Owned, Adding, Removing, Steps, Sending
  <1>1. ASSUME NEW t \in Tabs, NEW i \in Items, Add(t, i)
        PROVE  Owned'
    BY <1>1 DEF Add, Ask, Goto
  <1>2. ASSUME NEW t \in Tabs, NEW i \in Items, Discard(t, i)
        PROVE  Owned'
    BY <1>2 DEF Discard, Ask, Goto
  <1>3. ASSUME NEW t \in Tabs, NEW i \in Items, TakeItem(t, i)
        PROVE  Owned'
    BY <1>3 DEF TakeItem, Step, Goto
  <1>4. ASSUME NEW t \in Tabs, PutBlob(t)
        PROVE  Owned'
    <2>1. op[t] = "add" /\ item[t] \in drawn \cap Audio
      BY <1>4 DEF PutBlob, Step
    <2> QED
      BY <1>4, <2>1 DEF PutBlob, Step, Goto
  <1>5. ASSUME NEW t \in Tabs, SaveMeta(t)
        PROVE  Owned'
    BY <1>5 DEF SaveMeta, Done
  <1>6. ASSUME NEW t \in Tabs, TakeBack(t)
        PROVE  Owned'
    BY <1>6 DEF TakeBack, Done
  <1>7. ASSUME NEW t \in Tabs, AddRefused(t)
        PROVE  Owned'
    BY <1>7 DEF AddRefused, Fault, Done, Goto
  <1>8. ASSUME NEW t \in Tabs, ReadIndex(t)
        PROVE  Owned'
    BY <1>8 DEF ReadIndex, Step, Goto
  <1>9. ASSUME NEW t \in Tabs, WriteAppended(t)
        PROVE  Owned'
    BY <1>9 DEF WriteAppended, Step, Goto
  <1>10. ASSUME NEW t \in Tabs, WriteRemoved(t)
        PROVE  Owned'
    BY <1>10 DEF WriteRemoved, Done, Goto
  <1>11. ASSUME NEW t \in Tabs, RemoveRefused(t)
        PROVE  Owned'
    BY <1>11 DEF RemoveRefused, Fault, Done, Goto
  <1>12. ASSUME NEW t \in Tabs, ReadKind(t)
        PROVE  Owned'
    BY <1>12 DEF ReadKind, Goto
  <1>13. ASSUME NEW t \in Tabs, DelBlob(t)
        PROVE  Owned'
    BY <1>13 DEF DelBlob, Step, Goto, Fault
  <1>14. ASSUME NEW t \in Tabs, DelMeta(t)
        PROVE  Owned'
    BY <1>14 DEF DelMeta, Step, Goto, Fault
  <1>15. ASSUME NEW t \in Tabs, Sync(t)
        PROVE  Owned'
    BY <1>15 DEF Sync, Ask, Goto
  <1>16. ASSUME NEW t \in Tabs, ListMetas(t)
        PROVE  Owned'
    BY <1>16 DEF ListMetas, Step, Goto
  <1>17. ASSUME NEW t \in Tabs, SyncEnds(t)
        PROVE  Owned'
    BY <1>17 DEF SyncEnds, Done
  <1>18. ASSUME NEW t \in Tabs, ItemFails(t)
        PROVE  Owned'
    BY <1>18 DEF ItemFails, Step, Goto
  <1>19. ASSUME NEW t \in Tabs, SyncRefused(t)
        PROVE  Owned'
    BY <1>19 DEF SyncRefused, Fault, Done
  <1>20. ASSUME NEW t \in Tabs, LoadBlob(t)
        PROVE  Owned'
    BY <1>20 DEF LoadBlob, Goto
  <1>21. ASSUME NEW t \in Tabs, CreateSelect(t)
        PROVE  Owned'
    BY <1>21 DEF CreateSelect, Goto, AfterCreate, Rows
  <1>22. ASSUME NEW t \in Tabs, CreateInsert(t)
        PROVE  Owned'
    BY <1>22 DEF CreateInsert, Goto, AfterCreate, Insert, Rows
  <1>23. ASSUME NEW t \in Tabs, Upload(t)
        PROVE  Owned'
    BY <1>23 DEF Upload, Goto, Attach, Accepted
  <1>24. ASSUME NEW t \in Tabs, AnswerLost(t)
        PROVE  Owned'
    BY <1>24 DEF AnswerLost, Goto, Pending, Fault
  <1>25. ASSUME NEW t \in Tabs, Reload(t)
        PROVE  Owned'
    BY <1>25 DEF Reload, Done, Pending, Fault
  <1>26. ASSUME NEW request \in late, Late(request)
        PROVE  Owned'
    BY <1>26 DEF Late, Attach, Accepted, Insert, Rows
  <1>27. ASSUME NEW c \in captures, Edit(c)
        PROVE  Owned'
    BY <1>27 DEF Edit
  <1>28. ASSUME NEW c \in captures, Promote(c)
        PROVE  Owned'
    BY <1>28 DEF Promote
  <1>29. ASSUME NEW c \in captures, Remove(c)
        PROVE  Owned'
    BY <1>29 DEF Remove
  <1>30. CASE UNCHANGED vars
    BY <1>30 DEF vars
  <1> QED
    BY <1>1, <1>2, <1>3, <1>4, <1>5, <1>6, <1>7, <1>8, <1>9, <1>10, <1>11, <1>12, <1>13, <1>14, <1>15, <1>16, <1>17, <1>18, <1>19, <1>20, <1>21, <1>22, <1>23, <1>24, <1>25, <1>26, <1>27, <1>28, <1>29, <1>30
    DEF Next

\* Unless two tabs change the index at once, it is what the one that does has read.
LEMMA AloneInductive ==
    ASSUME TypeOK, Belongs, Alone, [Next]_vars
    PROVE  Alone'
  <1> USE DEF device, server, locals, ghosts, TypeOK, Alone, Changing
  <1>1. ASSUME NEW t \in Tabs, NEW i \in Items, Add(t, i)
        PROVE  Alone'
    BY <1>1 DEF Add, Ask, Goto
  <1>2. ASSUME NEW t \in Tabs, NEW i \in Items, Discard(t, i)
        PROVE  Alone'
    BY <1>2 DEF Discard, Ask, Goto
  <1>3. ASSUME NEW t \in Tabs, NEW i \in Items, TakeItem(t, i)
        PROVE  Alone'
    BY <1>3 DEF TakeItem, Step, Goto
  <1>4. ASSUME NEW t \in Tabs, PutBlob(t)
        PROVE  Alone'
    BY <1>4 DEF PutBlob, Step, Goto
  <1>5. ASSUME NEW t \in Tabs, SaveMeta(t)
        PROVE  Alone'
    BY <1>5 DEF SaveMeta, Done
  <1>6. ASSUME NEW t \in Tabs, TakeBack(t)
        PROVE  Alone'
    BY <1>6 DEF TakeBack, Done
  <1>7. ASSUME NEW t \in Tabs, AddRefused(t)
        PROVE  Alone'
    BY <1>7 DEF AddRefused, Fault, Done, Goto
  <1>8. ASSUME NEW t \in Tabs, ReadIndex(t)
        PROVE  Alone'
    BY ZenonT(60), <1>8 DEF ReadIndex, Step, Goto
  <1>9. ASSUME NEW t \in Tabs, WriteAppended(t)
        PROVE  Alone'
    BY <1>9 DEF WriteAppended, Step, Goto
  <1>10. ASSUME NEW t \in Tabs, WriteRemoved(t)
        PROVE  Alone'
    BY <1>10 DEF WriteRemoved, Done, Goto
  <1>11. ASSUME NEW t \in Tabs, RemoveRefused(t)
        PROVE  Alone'
    BY <1>11 DEF RemoveRefused, Fault, Done, Goto
  <1>12. ASSUME NEW t \in Tabs, ReadKind(t)
        PROVE  Alone'
    BY <1>12 DEF ReadKind, Goto
  <1>13. ASSUME NEW t \in Tabs, DelBlob(t)
        PROVE  Alone'
    BY <1>13 DEF DelBlob, Step, Goto, Fault
  <1>14. ASSUME NEW t \in Tabs, DelMeta(t)
        PROVE  Alone'
    BY <1>14 DEF DelMeta, Step, Goto, Fault
  <1>15. ASSUME NEW t \in Tabs, Sync(t)
        PROVE  Alone'
    BY <1>15 DEF Sync, Ask, Goto
  <1>16. ASSUME NEW t \in Tabs, ListMetas(t)
        PROVE  Alone'
    BY <1>16 DEF ListMetas, Step, Goto
  <1>17. ASSUME NEW t \in Tabs, SyncEnds(t)
        PROVE  Alone'
    BY <1>17 DEF SyncEnds, Done
  <1>18. ASSUME NEW t \in Tabs, ItemFails(t)
        PROVE  Alone'
    BY <1>18 DEF ItemFails, Step, Goto
  <1>19. ASSUME NEW t \in Tabs, SyncRefused(t)
        PROVE  Alone'
    BY <1>19 DEF SyncRefused, Fault, Done
  <1>20. ASSUME NEW t \in Tabs, LoadBlob(t)
        PROVE  Alone'
    BY <1>20 DEF LoadBlob, Goto
  <1>21. ASSUME NEW t \in Tabs, CreateSelect(t)
        PROVE  Alone'
    BY <1>21 DEF CreateSelect, Goto, AfterCreate, Rows
  <1>22. ASSUME NEW t \in Tabs, CreateInsert(t)
        PROVE  Alone'
    BY <1>22 DEF CreateInsert, Goto, AfterCreate, Insert, Rows
  <1>23. ASSUME NEW t \in Tabs, Upload(t)
        PROVE  Alone'
    BY <1>23 DEF Upload, Goto, Attach, Accepted
  <1>24. ASSUME NEW t \in Tabs, AnswerLost(t)
        PROVE  Alone'
    BY <1>24 DEF AnswerLost, Goto, Pending, Fault
  <1>25. ASSUME NEW t \in Tabs, Reload(t)
        PROVE  Alone'
    BY <1>25 DEF Reload, Done, Pending, Fault
  <1>26. ASSUME NEW request \in late, Late(request)
        PROVE  Alone'
    BY <1>26 DEF Late, Attach, Accepted, Insert, Rows
  <1>27. ASSUME NEW c \in captures, Edit(c)
        PROVE  Alone'
    BY <1>27 DEF Edit
  <1>28. ASSUME NEW c \in captures, Promote(c)
        PROVE  Alone'
    BY <1>28 DEF Promote
  <1>29. ASSUME NEW c \in captures, Remove(c)
        PROVE  Alone'
    BY <1>29 DEF Remove
  <1>30. CASE UNCHANGED vars
    BY <1>30 DEF vars
  <1> QED
    BY <1>1, <1>2, <1>3, <1>4, <1>5, <1>6, <1>7, <1>8, <1>9, <1>10, <1>11, <1>12, <1>13, <1>14, <1>15, <1>16, <1>17, <1>18, <1>19, <1>20, <1>21, <1>22, <1>23, <1>24, <1>25, <1>26, <1>27, <1>28, <1>29, <1>30
    DEF Next

\* The unique index on the client id keeps one row for an item.
LEMMA NumberedInductive ==
    ASSUME TypeOK, Belongs, Numbered, [Next]_vars
    PROVE  Numbered'
  <1> USE DEF device, server, locals, ghosts, TypeOK, Belongs, Numbered
  <1>1. ASSUME NEW t \in Tabs, NEW i \in Items, Add(t, i)
        PROVE  Numbered'
    BY <1>1 DEF Add, Ask, Goto
  <1>2. ASSUME NEW t \in Tabs, NEW i \in Items, Discard(t, i)
        PROVE  Numbered'
    BY <1>2 DEF Discard, Ask, Goto
  <1>3. ASSUME NEW t \in Tabs, NEW i \in Items, TakeItem(t, i)
        PROVE  Numbered'
    BY <1>3 DEF TakeItem, Step, Goto
  <1>4. ASSUME NEW t \in Tabs, PutBlob(t)
        PROVE  Numbered'
    BY <1>4 DEF PutBlob, Step, Goto
  <1>5. ASSUME NEW t \in Tabs, SaveMeta(t)
        PROVE  Numbered'
    BY <1>5 DEF SaveMeta, Done
  <1>6. ASSUME NEW t \in Tabs, TakeBack(t)
        PROVE  Numbered'
    BY <1>6 DEF TakeBack, Done
  <1>7. ASSUME NEW t \in Tabs, AddRefused(t)
        PROVE  Numbered'
    BY <1>7 DEF AddRefused, Fault, Done, Goto
  <1>8. ASSUME NEW t \in Tabs, ReadIndex(t)
        PROVE  Numbered'
    BY <1>8 DEF ReadIndex, Step, Goto
  <1>9. ASSUME NEW t \in Tabs, WriteAppended(t)
        PROVE  Numbered'
    BY <1>9 DEF WriteAppended, Step, Goto
  <1>10. ASSUME NEW t \in Tabs, WriteRemoved(t)
        PROVE  Numbered'
    BY <1>10 DEF WriteRemoved, Done, Goto
  <1>11. ASSUME NEW t \in Tabs, RemoveRefused(t)
        PROVE  Numbered'
    BY <1>11 DEF RemoveRefused, Fault, Done, Goto
  <1>12. ASSUME NEW t \in Tabs, ReadKind(t)
        PROVE  Numbered'
    BY <1>12 DEF ReadKind, Goto
  <1>13. ASSUME NEW t \in Tabs, DelBlob(t)
        PROVE  Numbered'
    BY <1>13 DEF DelBlob, Step, Goto, Fault
  <1>14. ASSUME NEW t \in Tabs, DelMeta(t)
        PROVE  Numbered'
    BY <1>14 DEF DelMeta, Step, Goto, Fault
  <1>15. ASSUME NEW t \in Tabs, Sync(t)
        PROVE  Numbered'
    BY <1>15 DEF Sync, Ask, Goto
  <1>16. ASSUME NEW t \in Tabs, ListMetas(t)
        PROVE  Numbered'
    BY <1>16 DEF ListMetas, Step, Goto
  <1>17. ASSUME NEW t \in Tabs, SyncEnds(t)
        PROVE  Numbered'
    BY <1>17 DEF SyncEnds, Done
  <1>18. ASSUME NEW t \in Tabs, ItemFails(t)
        PROVE  Numbered'
    BY <1>18 DEF ItemFails, Step, Goto
  <1>19. ASSUME NEW t \in Tabs, SyncRefused(t)
        PROVE  Numbered'
    BY <1>19 DEF SyncRefused, Fault, Done
  <1>20. ASSUME NEW t \in Tabs, LoadBlob(t)
        PROVE  Numbered'
    BY <1>20 DEF LoadBlob, Goto
  <1>21. ASSUME NEW t \in Tabs, CreateSelect(t)
        PROVE  Numbered'
    BY <1>21 DEF CreateSelect, Goto, AfterCreate, Rows
  <1>22. ASSUME NEW t \in Tabs, CreateInsert(t)
        PROVE  Numbered'
    BY <1>22 DEF CreateInsert, Goto, AfterCreate, Insert, Rows
  <1>23. ASSUME NEW t \in Tabs, Upload(t)
        PROVE  Numbered'
    BY <1>23 DEF Upload, Goto, Attach, Accepted
  <1>24. ASSUME NEW t \in Tabs, AnswerLost(t)
        PROVE  Numbered'
    BY <1>24 DEF AnswerLost, Goto, Pending, Fault
  <1>25. ASSUME NEW t \in Tabs, Reload(t)
        PROVE  Numbered'
    BY <1>25 DEF Reload, Done, Pending, Fault
  <1>26. ASSUME NEW request \in late, Late(request)
        PROVE  Numbered'
    BY <1>26 DEF Late, Attach, Accepted, Insert, Rows
  <1>27. ASSUME NEW c \in captures, Edit(c)
        PROVE  Numbered'
    BY <1>27 DEF Edit
  <1>28. ASSUME NEW c \in captures, Promote(c)
        PROVE  Numbered'
    BY <1>28 DEF Promote
  <1>29. ASSUME NEW c \in captures, Remove(c)
        PROVE  Numbered'
    BY <1>29 DEF Remove
  <1>30. CASE UNCHANGED vars
    BY <1>30 DEF vars
  <1> QED
    BY <1>1, <1>2, <1>3, <1>4, <1>5, <1>6, <1>7, <1>8, <1>9, <1>10, <1>11, <1>12, <1>13, <1>14, <1>15, <1>16, <1>17, <1>18, <1>19, <1>20, <1>21, <1>22, <1>23, <1>24, <1>25, <1>26, <1>27, <1>28, <1>29, <1>30
    DEF Next

\* Nobody removes what is being saved.
LEMMA WrittenInductive ==
    ASSUME TypeOK, Belongs, Owned, Alone, Written, [Next]_vars
    PROVE  Written'
  <1> USE DEF device, server, locals, ghosts, TypeOK, Belongs, Owned, Alone, Written, Adding, Removing, Steps, Sending
  <1>1. ASSUME NEW t \in Tabs, NEW i \in Items, Add(t, i)
        PROVE  Written'
    BY <1>1 DEF Add, Ask, Goto
  <1>2. ASSUME NEW t \in Tabs, NEW i \in Items, Discard(t, i)
        PROVE  Written'
    BY <1>2 DEF Discard, Ask, Goto
  <1>3. ASSUME NEW t \in Tabs, NEW i \in Items, TakeItem(t, i)
        PROVE  Written'
    BY <1>3 DEF TakeItem, Step, Goto
  <1>4. ASSUME NEW t \in Tabs, PutBlob(t)
        PROVE  Written'
    BY <1>4 DEF PutBlob, Step, Goto
  <1>5. ASSUME NEW t \in Tabs, SaveMeta(t)
        PROVE  Written'
    BY <1>5 DEF SaveMeta, Done
  <1>6. ASSUME NEW t \in Tabs, TakeBack(t)
        PROVE  Written'
    BY <1>6 DEF TakeBack, Done
  <1>7. ASSUME NEW t \in Tabs, AddRefused(t)
        PROVE  Written'
    BY <1>7 DEF AddRefused, Fault, Done, Goto
  <1>8. ASSUME NEW t \in Tabs, ReadIndex(t)
        PROVE  Written'
    BY <1>8 DEF ReadIndex, Step, Goto
  <1>9. ASSUME NEW t \in Tabs, WriteAppended(t)
        PROVE  Written'
    BY <1>9 DEF WriteAppended, Step, Goto
  <1>10. ASSUME NEW t \in Tabs, WriteRemoved(t)
        PROVE  Written'
    BY <1>10 DEF WriteRemoved, Done, Goto
  <1>11. ASSUME NEW t \in Tabs, RemoveRefused(t)
        PROVE  Written'
    BY <1>11 DEF RemoveRefused, Fault, Done, Goto
  <1>12. ASSUME NEW t \in Tabs, ReadKind(t)
        PROVE  Written'
    BY <1>12 DEF ReadKind, Goto
  <1>13. ASSUME NEW t \in Tabs, DelBlob(t)
        PROVE  Written'
    BY <1>13 DEF DelBlob, Step, Goto, Fault
  <1>14. ASSUME NEW t \in Tabs, DelMeta(t)
        PROVE  Written'
    BY <1>14 DEF DelMeta, Step, Goto, Fault
  <1>15. ASSUME NEW t \in Tabs, Sync(t)
        PROVE  Written'
    BY <1>15 DEF Sync, Ask, Goto
  <1>16. ASSUME NEW t \in Tabs, ListMetas(t)
        PROVE  Written'
    BY <1>16 DEF ListMetas, Step, Goto
  <1>17. ASSUME NEW t \in Tabs, SyncEnds(t)
        PROVE  Written'
    BY <1>17 DEF SyncEnds, Done
  <1>18. ASSUME NEW t \in Tabs, ItemFails(t)
        PROVE  Written'
    BY <1>18 DEF ItemFails, Step, Goto
  <1>19. ASSUME NEW t \in Tabs, SyncRefused(t)
        PROVE  Written'
    BY <1>19 DEF SyncRefused, Fault, Done
  <1>20. ASSUME NEW t \in Tabs, LoadBlob(t)
        PROVE  Written'
    BY <1>20 DEF LoadBlob, Goto
  <1>21. ASSUME NEW t \in Tabs, CreateSelect(t)
        PROVE  Written'
    BY <1>21 DEF CreateSelect, Goto, AfterCreate, Rows
  <1>22. ASSUME NEW t \in Tabs, CreateInsert(t)
        PROVE  Written'
    BY <1>22 DEF CreateInsert, Goto, AfterCreate, Insert, Rows
  <1>23. ASSUME NEW t \in Tabs, Upload(t)
        PROVE  Written'
    BY <1>23 DEF Upload, Goto, Attach, Accepted
  <1>24. ASSUME NEW t \in Tabs, AnswerLost(t)
        PROVE  Written'
    BY <1>24 DEF AnswerLost, Goto, Pending, Fault
  <1>25. ASSUME NEW t \in Tabs, Reload(t)
        PROVE  Written'
    BY <1>25 DEF Reload, Done, Pending, Fault
  <1>26. ASSUME NEW request \in late, Late(request)
        PROVE  Written'
    BY <1>26 DEF Late, Attach, Accepted, Insert, Rows
  <1>27. ASSUME NEW c \in captures, Edit(c)
        PROVE  Written'
    BY <1>27 DEF Edit
  <1>28. ASSUME NEW c \in captures, Promote(c)
        PROVE  Written'
    BY <1>28 DEF Promote
  <1>29. ASSUME NEW c \in captures, Remove(c)
        PROVE  Written'
    BY <1>29 DEF Remove
  <1>30. CASE UNCHANGED vars
    BY <1>30 DEF vars
  <1> QED
    BY <1>1, <1>2, <1>3, <1>4, <1>5, <1>6, <1>7, <1>8, <1>9, <1>10, <1>11, <1>12, <1>13, <1>14, <1>15, <1>16, <1>17, <1>18, <1>19, <1>20, <1>21, <1>22, <1>23, <1>24, <1>25, <1>26, <1>27, <1>28, <1>29, <1>30
    DEF Next

\* What is at the server stays there until its owner removes it.
LEMMA AtServerStays ==
    ASSUME captures \subseteq captures', attached \subseteq attached', NEW i \in Items, AtServer(i)
    PROVE  AtServer(i)'
  BY DEF AtServer, Rows

\* A sync removes an item when the server has it whole.
LEMMA RemovableInductive ==
    ASSUME TypeOK, Belongs, Owned, Numbered, Removable, [Next]_vars
    PROVE  Removable'
  <1> USE DEF device, server, locals, ghosts, TypeOK, Belongs, Removable, AtServer, Rows, Adding, Removing, Steps, Sending
  <1>1. ASSUME NEW t \in Tabs, NEW i \in Items, Add(t, i)
        PROVE  Removable'
    BY <1>1 DEF Add, Ask, Goto
  <1>2. ASSUME NEW t \in Tabs, NEW i \in Items, Discard(t, i)
        PROVE  Removable'
    BY <1>2 DEF Discard, Ask, Goto
  <1>3. ASSUME NEW t \in Tabs, NEW i \in Items, TakeItem(t, i)
        PROVE  Removable'
    BY <1>3 DEF TakeItem, Step, Goto
  <1>4. ASSUME NEW t \in Tabs, PutBlob(t)
        PROVE  Removable'
    BY <1>4 DEF PutBlob, Step, Goto
  <1>5. ASSUME NEW t \in Tabs, SaveMeta(t)
        PROVE  Removable'
    BY <1>5 DEF SaveMeta, Done
  <1>6. ASSUME NEW t \in Tabs, TakeBack(t)
        PROVE  Removable'
    BY <1>6 DEF TakeBack, Done
  <1>7. ASSUME NEW t \in Tabs, AddRefused(t)
        PROVE  Removable'
    BY <1>7 DEF AddRefused, Fault, Done, Goto
  <1>8. ASSUME NEW t \in Tabs, ReadIndex(t)
        PROVE  Removable'
    BY <1>8 DEF ReadIndex, Step, Goto
  <1>9. ASSUME NEW t \in Tabs, WriteAppended(t)
        PROVE  Removable'
    BY <1>9 DEF WriteAppended, Step, Goto
  <1>10. ASSUME NEW t \in Tabs, WriteRemoved(t)
        PROVE  Removable'
    BY <1>10 DEF WriteRemoved, Done, Goto
  <1>11. ASSUME NEW t \in Tabs, RemoveRefused(t)
        PROVE  Removable'
    BY <1>11 DEF RemoveRefused, Fault, Done, Goto
  <1>12. ASSUME NEW t \in Tabs, ReadKind(t)
        PROVE  Removable'
    BY <1>12 DEF ReadKind, Goto
  <1>13. ASSUME NEW t \in Tabs, DelBlob(t)
        PROVE  Removable'
    BY <1>13 DEF DelBlob, Step, Goto, Fault
  <1>14. ASSUME NEW t \in Tabs, DelMeta(t)
        PROVE  Removable'
    BY <1>14 DEF DelMeta, Step, Goto, Fault
  <1>15. ASSUME NEW t \in Tabs, Sync(t)
        PROVE  Removable'
    BY <1>15 DEF Sync, Ask, Goto
  <1>16. ASSUME NEW t \in Tabs, ListMetas(t)
        PROVE  Removable'
    BY <1>16 DEF ListMetas, Step, Goto
  <1>17. ASSUME NEW t \in Tabs, SyncEnds(t)
        PROVE  Removable'
    BY <1>17 DEF SyncEnds, Done
  <1>18. ASSUME NEW t \in Tabs, ItemFails(t)
        PROVE  Removable'
    BY <1>18 DEF ItemFails, Step, Goto
  <1>19. ASSUME NEW t \in Tabs, SyncRefused(t)
        PROVE  Removable'
    BY <1>19 DEF SyncRefused, Fault, Done
  <1>20. ASSUME NEW t \in Tabs, LoadBlob(t)
        PROVE  Removable'
    BY <1>20 DEF LoadBlob, Goto
  <1>21. ASSUME NEW t \in Tabs, CreateSelect(t)
        PROVE  Removable'
    BY <1>21 DEF CreateSelect, Goto, AfterCreate
  <1>22. ASSUME NEW t \in Tabs, CreateInsert(t)
        PROVE  Removable'
    <2>1. captures \subseteq captures' /\ UNCHANGED <<attached, discarded, item, op>>
      BY <1>22 DEF CreateInsert, Insert
    <2>2. \A u \in Tabs : u # t => pc'[u] = pc[u]
      BY <1>22 DEF CreateInsert, Goto
    <2>3. ASSUME pc'[t] \in Removing
          PROVE  AtServer(item[t])'
      <3>1. item[t] \in Items \ Audio /\ Rows(item[t]) = {} /\ pc[t] = "insert"
        BY <1>22, <2>3 DEF CreateInsert, Goto, AfterCreate
      <3>2. [item |-> item[t], id |-> made + 1] \in captures'
        BY <1>22, <3>1 DEF CreateInsert, Insert
      <3> QED
        BY <2>1, <3>1, <3>2
    <2>4. \A i \in Items : AtServer(i) => AtServer(i)'
      BY <2>1, AtServerStays
    <2>5. ASSUME NEW u \in Tabs, u # t, pc'[u] \in Removing
          PROVE  item[u] \in discarded \/ AtServer(item[u])'
      <3>1. item[u] \in Items /\ pc[u] \in Removing
        BY <2>2, <2>5
      <3>2. item[u] \in discarded \/ AtServer(item[u])
        BY <3>1
      <3> QED
        BY <2>1, <2>4, <3>1, <3>2
    <2>6. \A u \in Tabs : pc'[u] \in Removing => item[u] \in discarded \/ AtServer(item[u])'
      BY <2>3, <2>5
    <2> QED
      BY <2>1, <2>6
  <1>23. ASSUME NEW t \in Tabs, Upload(t)
        PROVE  Removable'
    BY <1>23 DEF Upload, Goto, Attach, Accepted, Numbered
  <1>24. ASSUME NEW t \in Tabs, AnswerLost(t)
        PROVE  Removable'
    BY <1>24 DEF AnswerLost, Goto, Pending, Fault
  <1>25. ASSUME NEW t \in Tabs, Reload(t)
        PROVE  Removable'
    BY <1>25 DEF Reload, Done, Pending, Fault
  <1>26. ASSUME NEW request \in late, Late(request)
        PROVE  Removable'
    BY <1>26 DEF Late, Attach, Accepted, Insert, Numbered
  <1>27. ASSUME NEW c \in captures, Edit(c)
        PROVE  Removable'
    BY <1>27 DEF Edit
  <1>28. ASSUME NEW c \in captures, Promote(c)
        PROVE  Removable'
    BY <1>28 DEF Promote
  <1>29. ASSUME NEW c \in captures, Remove(c)
        PROVE  Removable'
    BY <1>29 DEF Remove
  <1>30. CASE UNCHANGED vars
    BY <1>30 DEF vars
  <1> QED
    BY <1>1, <1>2, <1>3, <1>4, <1>5, <1>6, <1>7, <1>8, <1>9, <1>10, <1>11, <1>12, <1>13, <1>14, <1>15, <1>16, <1>17, <1>18, <1>19, <1>20, <1>21, <1>22, <1>23, <1>24, <1>25, <1>26, <1>27, <1>28, <1>29, <1>30
    DEF Next

\* A removal deletes the blob when there is a meta record, and there is one.
LEMMA ErasedInductive ==
    ASSUME TypeOK, Belongs, Owned, Erased, Listed, [Next]_vars
    PROVE  Erased'
  <1> USE DEF device, server, locals, ghosts, TypeOK, Belongs, Owned, Erased, Adding, Removing, Steps, Sending
  <1>1. ASSUME NEW t \in Tabs, NEW i \in Items, Add(t, i)
        PROVE  Erased'
    BY <1>1 DEF Add, Ask, Goto
  <1>2. ASSUME NEW t \in Tabs, NEW i \in Items, Discard(t, i)
        PROVE  Erased'
    BY <1>2 DEF Discard, Ask, Goto
  <1>3. ASSUME NEW t \in Tabs, NEW i \in Items, TakeItem(t, i)
        PROVE  Erased'
    BY <1>3 DEF TakeItem, Step, Goto
  <1>4. ASSUME NEW t \in Tabs, PutBlob(t)
        PROVE  Erased'
    BY <1>4 DEF PutBlob, Step, Goto
  <1>5. ASSUME NEW t \in Tabs, SaveMeta(t)
        PROVE  Erased'
    BY <1>5 DEF SaveMeta, Done
  <1>6. ASSUME NEW t \in Tabs, TakeBack(t)
        PROVE  Erased'
    BY <1>6 DEF TakeBack, Done
  <1>7. ASSUME NEW t \in Tabs, AddRefused(t)
        PROVE  Erased'
    BY <1>7 DEF AddRefused, Fault, Done, Goto
  <1>8. ASSUME NEW t \in Tabs, ReadIndex(t)
        PROVE  Erased'
    BY <1>8 DEF ReadIndex, Step, Goto
  <1>9. ASSUME NEW t \in Tabs, WriteAppended(t)
        PROVE  Erased'
    BY <1>9 DEF WriteAppended, Step, Goto
  <1>10. ASSUME NEW t \in Tabs, WriteRemoved(t)
        PROVE  Erased'
    BY <1>10 DEF WriteRemoved, Done, Goto
  <1>11. ASSUME NEW t \in Tabs, RemoveRefused(t)
        PROVE  Erased'
    BY <1>11 DEF RemoveRefused, Fault, Done, Goto
  <1>12. ASSUME NEW t \in Tabs, ReadKind(t)
        PROVE  Erased'
    BY <1>12 DEF ReadKind, Goto, Listed
  <1>13. ASSUME NEW t \in Tabs, DelBlob(t)
        PROVE  Erased'
    BY <1>13 DEF DelBlob, Step, Goto, Fault
  <1>14. ASSUME NEW t \in Tabs, DelMeta(t)
        PROVE  Erased'
    BY <1>14 DEF DelMeta, Step, Goto, Fault
  <1>15. ASSUME NEW t \in Tabs, Sync(t)
        PROVE  Erased'
    BY <1>15 DEF Sync, Ask, Goto
  <1>16. ASSUME NEW t \in Tabs, ListMetas(t)
        PROVE  Erased'
    BY <1>16 DEF ListMetas, Step, Goto
  <1>17. ASSUME NEW t \in Tabs, SyncEnds(t)
        PROVE  Erased'
    BY <1>17 DEF SyncEnds, Done
  <1>18. ASSUME NEW t \in Tabs, ItemFails(t)
        PROVE  Erased'
    BY <1>18 DEF ItemFails, Step, Goto
  <1>19. ASSUME NEW t \in Tabs, SyncRefused(t)
        PROVE  Erased'
    BY <1>19 DEF SyncRefused, Fault, Done
  <1>20. ASSUME NEW t \in Tabs, LoadBlob(t)
        PROVE  Erased'
    BY <1>20 DEF LoadBlob, Goto
  <1>21. ASSUME NEW t \in Tabs, CreateSelect(t)
        PROVE  Erased'
    BY <1>21 DEF CreateSelect, Goto, AfterCreate, Rows
  <1>22. ASSUME NEW t \in Tabs, CreateInsert(t)
        PROVE  Erased'
    BY <1>22 DEF CreateInsert, Goto, AfterCreate, Insert, Rows
  <1>23. ASSUME NEW t \in Tabs, Upload(t)
        PROVE  Erased'
    BY <1>23 DEF Upload, Goto, Attach, Accepted
  <1>24. ASSUME NEW t \in Tabs, AnswerLost(t)
        PROVE  Erased'
    BY <1>24 DEF AnswerLost, Goto, Pending, Fault
  <1>25. ASSUME NEW t \in Tabs, Reload(t)
        PROVE  Erased'
    BY <1>25 DEF Reload, Done, Pending, Fault
  <1>26. ASSUME NEW request \in late, Late(request)
        PROVE  Erased'
    BY <1>26 DEF Late, Attach, Accepted, Insert, Rows
  <1>27. ASSUME NEW c \in captures, Edit(c)
        PROVE  Erased'
    BY <1>27 DEF Edit
  <1>28. ASSUME NEW c \in captures, Promote(c)
        PROVE  Erased'
    BY <1>28 DEF Promote
  <1>29. ASSUME NEW c \in captures, Remove(c)
        PROVE  Erased'
    BY <1>29 DEF Remove
  <1>30. CASE UNCHANGED vars
    BY <1>30 DEF vars
  <1> QED
    BY <1>1, <1>2, <1>3, <1>4, <1>5, <1>6, <1>7, <1>8, <1>9, <1>10, <1>11, <1>12, <1>13, <1>14, <1>15, <1>16, <1>17, <1>18, <1>19, <1>20, <1>21, <1>22, <1>23, <1>24, <1>25, <1>26, <1>27, <1>28, <1>29, <1>30
    DEF Next

\* Nothing takes a blob off the list before it is deleted.
LEMMA ListedInductive ==
    ASSUME TypeOK, Belongs, Owned, Alone, Written, Erased, Listed, [Next]_vars
    PROVE  Listed'
  <1> USE DEF device, server, locals, ghosts, TypeOK, Belongs, Owned, Alone, Written, Erased, Listed, Adding, Removing, Steps, Sending
  <1>1. ASSUME NEW t \in Tabs, NEW i \in Items, Add(t, i)
        PROVE  Listed'
    BY <1>1 DEF Add, Ask, Goto
  <1>2. ASSUME NEW t \in Tabs, NEW i \in Items, Discard(t, i)
        PROVE  Listed'
    BY <1>2 DEF Discard, Ask, Goto
  <1>3. ASSUME NEW t \in Tabs, NEW i \in Items, TakeItem(t, i)
        PROVE  Listed'
    BY <1>3 DEF TakeItem, Step, Goto
  <1>4. ASSUME NEW t \in Tabs, PutBlob(t)
        PROVE  Listed'
    BY <1>4 DEF PutBlob, Step, Goto
  <1>5. ASSUME NEW t \in Tabs, SaveMeta(t)
        PROVE  Listed'
    BY <1>5 DEF SaveMeta, Done
  <1>6. ASSUME NEW t \in Tabs, TakeBack(t)
        PROVE  Listed'
    BY <1>6 DEF TakeBack, Done
  <1>7. ASSUME NEW t \in Tabs, AddRefused(t)
        PROVE  Listed'
    BY <1>7 DEF AddRefused, Fault, Done, Goto
  <1>8. ASSUME NEW t \in Tabs, ReadIndex(t)
        PROVE  Listed'
    BY <1>8 DEF ReadIndex, Step, Goto
  <1>9. ASSUME NEW t \in Tabs, WriteAppended(t)
        PROVE  Listed'
    BY <1>9 DEF WriteAppended, Step, Goto
  <1>10. ASSUME NEW t \in Tabs, WriteRemoved(t)
        PROVE  Listed'
    BY <1>10 DEF WriteRemoved, Done, Goto
  <1>11. ASSUME NEW t \in Tabs, RemoveRefused(t)
        PROVE  Listed'
    BY <1>11 DEF RemoveRefused, Fault, Done, Goto
  <1>12. ASSUME NEW t \in Tabs, ReadKind(t)
        PROVE  Listed'
    BY <1>12 DEF ReadKind, Goto
  <1>13. ASSUME NEW t \in Tabs, DelBlob(t)
        PROVE  Listed'
    BY <1>13 DEF DelBlob, Step, Goto, Fault
  <1>14. ASSUME NEW t \in Tabs, DelMeta(t)
        PROVE  Listed'
    BY <1>14 DEF DelMeta, Step, Goto, Fault
  <1>15. ASSUME NEW t \in Tabs, Sync(t)
        PROVE  Listed'
    BY <1>15 DEF Sync, Ask, Goto
  <1>16. ASSUME NEW t \in Tabs, ListMetas(t)
        PROVE  Listed'
    BY <1>16 DEF ListMetas, Step, Goto
  <1>17. ASSUME NEW t \in Tabs, SyncEnds(t)
        PROVE  Listed'
    BY <1>17 DEF SyncEnds, Done
  <1>18. ASSUME NEW t \in Tabs, ItemFails(t)
        PROVE  Listed'
    BY <1>18 DEF ItemFails, Step, Goto
  <1>19. ASSUME NEW t \in Tabs, SyncRefused(t)
        PROVE  Listed'
    BY <1>19 DEF SyncRefused, Fault, Done
  <1>20. ASSUME NEW t \in Tabs, LoadBlob(t)
        PROVE  Listed'
    BY <1>20 DEF LoadBlob, Goto
  <1>21. ASSUME NEW t \in Tabs, CreateSelect(t)
        PROVE  Listed'
    BY <1>21 DEF CreateSelect, Goto, AfterCreate, Rows
  <1>22. ASSUME NEW t \in Tabs, CreateInsert(t)
        PROVE  Listed'
    BY <1>22 DEF CreateInsert, Goto, AfterCreate, Insert, Rows
  <1>23. ASSUME NEW t \in Tabs, Upload(t)
        PROVE  Listed'
    BY <1>23 DEF Upload, Goto, Attach, Accepted
  <1>24. ASSUME NEW t \in Tabs, AnswerLost(t)
        PROVE  Listed'
    BY <1>24 DEF AnswerLost, Goto, Pending, Fault
  <1>25. ASSUME NEW t \in Tabs, Reload(t)
        PROVE  Listed'
    BY <1>25 DEF Reload, Done, Pending, Fault
  <1>26. ASSUME NEW request \in late, Late(request)
        PROVE  Listed'
    BY <1>26 DEF Late, Attach, Accepted, Insert, Rows
  <1>27. ASSUME NEW c \in captures, Edit(c)
        PROVE  Listed'
    BY <1>27 DEF Edit
  <1>28. ASSUME NEW c \in captures, Promote(c)
        PROVE  Listed'
    BY <1>28 DEF Promote
  <1>29. ASSUME NEW c \in captures, Remove(c)
        PROVE  Listed'
    BY <1>29 DEF Remove
  <1>30. CASE UNCHANGED vars
    BY <1>30 DEF vars
  <1> QED
    BY <1>1, <1>2, <1>3, <1>4, <1>5, <1>6, <1>7, <1>8, <1>9, <1>10, <1>11, <1>12, <1>13, <1>14, <1>15, <1>16, <1>17, <1>18, <1>19, <1>20, <1>21, <1>22, <1>23, <1>24, <1>25, <1>26, <1>27, <1>28, <1>29, <1>30
    DEF Next

\* Nothing saved is dropped before the server has it.
LEMMA KeptInductive ==
    ASSUME TypeOK, Belongs, Owned, Alone, Written, Removable, Kept, [Next]_vars
    PROVE  Kept'
  <1> USE DEF device, server, locals, ghosts, TypeOK, Belongs, Owned, Alone, Written, Removable, Kept, OnDevice, AtServer, Rows, Adding, Removing, Steps, Sending
  <1>1. ASSUME NEW t \in Tabs, NEW i \in Items, Add(t, i)
        PROVE  Kept'
    BY <1>1 DEF Add, Ask, Goto
  <1>2. ASSUME NEW t \in Tabs, NEW i \in Items, Discard(t, i)
        PROVE  Kept'
    BY <1>2 DEF Discard, Ask, Goto
  <1>3. ASSUME NEW t \in Tabs, NEW i \in Items, TakeItem(t, i)
        PROVE  Kept'
    BY <1>3 DEF TakeItem, Step, Goto
  <1>4. ASSUME NEW t \in Tabs, PutBlob(t)
        PROVE  Kept'
    BY <1>4 DEF PutBlob, Step, Goto
  <1>5. ASSUME NEW t \in Tabs, SaveMeta(t)
        PROVE  Kept'
    BY <1>5 DEF SaveMeta, Done
  <1>6. ASSUME NEW t \in Tabs, TakeBack(t)
        PROVE  Kept'
    BY <1>6 DEF TakeBack, Done
  <1>7. ASSUME NEW t \in Tabs, AddRefused(t)
        PROVE  Kept'
    BY <1>7 DEF AddRefused, Fault, Done, Goto
  <1>8. ASSUME NEW t \in Tabs, ReadIndex(t)
        PROVE  Kept'
    BY <1>8 DEF ReadIndex, Step, Goto
  <1>9. ASSUME NEW t \in Tabs, WriteAppended(t)
        PROVE  Kept'
    BY <1>9 DEF WriteAppended, Step, Goto
  <1>10. ASSUME NEW t \in Tabs, WriteRemoved(t)
        PROVE  Kept'
    BY <1>10 DEF WriteRemoved, Done, Goto
  <1>11. ASSUME NEW t \in Tabs, RemoveRefused(t)
        PROVE  Kept'
    BY <1>11 DEF RemoveRefused, Fault, Done, Goto
  <1>12. ASSUME NEW t \in Tabs, ReadKind(t)
        PROVE  Kept'
    BY <1>12 DEF ReadKind, Goto
  <1>13. ASSUME NEW t \in Tabs, DelBlob(t)
        PROVE  Kept'
    BY <1>13 DEF DelBlob, Step, Goto, Fault
  <1>14. ASSUME NEW t \in Tabs, DelMeta(t)
        PROVE  Kept'
    BY <1>14 DEF DelMeta, Step, Goto, Fault
  <1>15. ASSUME NEW t \in Tabs, Sync(t)
        PROVE  Kept'
    BY <1>15 DEF Sync, Ask, Goto
  <1>16. ASSUME NEW t \in Tabs, ListMetas(t)
        PROVE  Kept'
    BY <1>16 DEF ListMetas, Step, Goto
  <1>17. ASSUME NEW t \in Tabs, SyncEnds(t)
        PROVE  Kept'
    BY <1>17 DEF SyncEnds, Done
  <1>18. ASSUME NEW t \in Tabs, ItemFails(t)
        PROVE  Kept'
    BY <1>18 DEF ItemFails, Step, Goto
  <1>19. ASSUME NEW t \in Tabs, SyncRefused(t)
        PROVE  Kept'
    BY <1>19 DEF SyncRefused, Fault, Done
  <1>20. ASSUME NEW t \in Tabs, LoadBlob(t)
        PROVE  Kept'
    BY <1>20 DEF LoadBlob, Goto
  <1>21. ASSUME NEW t \in Tabs, CreateSelect(t)
        PROVE  Kept'
    BY <1>21 DEF CreateSelect, Goto, AfterCreate
  <1>22. ASSUME NEW t \in Tabs, CreateInsert(t)
        PROVE  Kept'
    BY <1>22 DEF CreateInsert, Goto, AfterCreate, Insert
  <1>23. ASSUME NEW t \in Tabs, Upload(t)
        PROVE  Kept'
    BY <1>23 DEF Upload, Goto, Attach, Accepted
  <1>24. ASSUME NEW t \in Tabs, AnswerLost(t)
        PROVE  Kept'
    BY <1>24 DEF AnswerLost, Goto, Pending, Fault
  <1>25. ASSUME NEW t \in Tabs, Reload(t)
        PROVE  Kept'
    BY <1>25 DEF Reload, Done, Pending, Fault
  <1>26. ASSUME NEW request \in late, Late(request)
        PROVE  Kept'
    BY <1>26 DEF Late, Attach, Accepted, Insert
  <1>27. ASSUME NEW c \in captures, Edit(c)
        PROVE  Kept'
    BY <1>27 DEF Edit
  <1>28. ASSUME NEW c \in captures, Promote(c)
        PROVE  Kept'
    BY <1>28 DEF Promote
  <1>29. ASSUME NEW c \in captures, Remove(c)
        PROVE  Kept'
    BY <1>29 DEF Remove
  <1>30. CASE UNCHANGED vars
    BY <1>30 DEF vars
  <1> QED
    BY <1>1, <1>2, <1>3, <1>4, <1>5, <1>6, <1>7, <1>8, <1>9, <1>10, <1>11, <1>12, <1>13, <1>14, <1>15, <1>16, <1>17, <1>18, <1>19, <1>20, <1>21, <1>22, <1>23, <1>24, <1>25, <1>26, <1>27, <1>28, <1>29, <1>30
    DEF Next

-----------------------------------------------------------------------------
IInv == TypeOK /\ Belongs /\ Owned /\ Alone /\ Numbered /\ Written /\ Removable /\ Erased /\ Listed /\ Kept

\* The inductive invariant holds at first.
LEMMA IInvInit == Init => IInv
  <1> SUFFICES ASSUME Init PROVE IInv
    OBVIOUS
  <1> USE DEF Init
  <1>1. captures \subseteq [item : Items, id : Nat] /\ made \in Nat
    OBVIOUS
  <1>2. late \subseteq [step : {"create", "insert", "upload"}, item : Items, id : Nat]
    OBVIOUS
  <1>3. pc \in [Tabs -> Steps]
    BY DEF Steps
  <1>4. /\ op \in [Tabs -> {None, "add", "discard", "sync"}] /\ item \in [Tabs -> Items \cup {None}]
        /\ capture \in [Tabs -> Nat] /\ work \in [Tabs -> SUBSET Items] /\ ids \in [Tabs -> SUBSET Items]
    OBVIOUS
  <1>5. clashed \in BOOLEAN /\ asked \in 0 .. MaxOps /\ faults \in 0 .. MaxFaults
    <2>1. clashed \in BOOLEAN
      BY Zenon
    <2>2. asked \in 0 .. MaxOps
      OBVIOUS
    <2>3. faults \in 0 .. MaxFaults
      OBVIOUS
    <2> QED
      BY <2>1, <2>2, <2>3
  <1>6. TypeOK
    BY <1>1, <1>2, <1>3, <1>4, <1>5, Zenon DEF TypeOK
  <1>7. Belongs
    BY DEF Belongs, Adding, Removing
  <1>8. Owned /\ Alone /\ Numbered /\ Written
    BY DEF Owned, Alone, Numbered, Written
  <1>9. Removable /\ Erased /\ Listed /\ Kept
    BY DEF Removable, Removing, Erased, Listed, Kept
  <1> QED
    BY <1>6, <1>7, <1>8, <1>9 DEF IInv

\* Every step keeps it.
LEMMA IInvInductive == IInv /\ [Next]_vars => IInv'
  BY TypeInductive, BelongsInductive, OwnedInductive, AloneInductive, NumberedInductive, WrittenInductive,
     RemovableInductive, ErasedInductive, ListedInductive, KeptInductive
  DEF IInv

\* It holds always.
LEMMA Invariance == Spec => []IInv
  BY IInvInit, IInvInductive, PTL DEF Spec

\* All variables keep their types.
THEOREM TypeCorrect == Spec => []TypeOK
  <1>1. IInv => TypeOK
    BY DEF IInv
  <1> QED
    BY <1>1, Invariance, PTL

\* syncOutbox, discardOutboxItem, create_capture: what was saved is whole on the
\* device until it is whole on the server, where one capture stands for it.
THEOREM NothingLost == Spec => []KeptOnce
  <1>1. IInv => KeptOnce
    BY DEF IInv, Kept, Numbered, KeptOnce
  <1> QED
    BY <1>1, Invariance, PTL

\* addAudioOutboxItem, discardOutboxItem: every blob is listed or in hand.
THEOREM NothingStranded == Spec => []NoStrandedBlob
  <1>1. IInv => NoStrandedBlob
    BY DEF IInv, Listed, NoStrandedBlob
  <1> QED
    BY <1>1, Invariance, PTL

-----------------------------------------------------------------------------
(***************************************************************************)
(* The outbox keeps the promise of the delivery ledger                     *)
(***************************************************************************)
\* Only what was saved is at the server, or on its way to it.
Arrived ==
  /\ \A c \in captures : c.item \in saved
  /\ \A q \in late : q.item \in saved

Strong == IInv /\ Arrived

\* What the ledger sees of an item stays the same.
DeviceSame(i) == OnDevice(i)' <=> OnDevice(i)
OwnerSame(i)  == (i \in saved' <=> i \in saved) /\ (i \in discarded' <=> i \in discarded)
Ids(i)        == {c.id : c \in Rows(i)}
ServerSame(i) == Ids(i)' = Ids(i) /\ (AtServer(i)' <=> AtServer(i))
MayGo(i)      == i \in discarded \/ AtServer(i) \/ clashed

\* The moves of the ledger, on the variables of the outbox.
Saves(i) ==
  /\ i \notin saved /\ i \in saved' /\ (i \in discarded' <=> i \in discarded)
  /\ OnDevice(i)' \/ clashed
  /\ ServerSame(i)
Releases(i) ==
  /\ i \in saved /\ (i \in saved' <=> i \in saved) /\ i \in discarded'
  /\ DeviceSame(i) /\ ServerSame(i)
Withdraws(i) ==
  /\ i \in saved /\ (i \in saved' <=> i \in saved) /\ i \in discarded'
  /\ Ids(i)' = {} /\ ~AtServer(i)'
  /\ DeviceSame(i)
Arrives(i) ==
  /\ i \in saved /\ Ids(i) = {}
  /\ \E id \in Ids(i)' : Ids(i)' = {id} /\ \A j \in Items : id \notin Ids(j)
  /\ OwnerSame(i) /\ DeviceSame(i)
Completes(i) ==
  /\ Ids(i) # {} /\ ~AtServer(i) /\ AtServer(i)' /\ Ids(i)' = Ids(i)
  /\ OwnerSame(i) /\ DeviceSame(i)
Drops(i)   == OnDevice(i) /\ ~OnDevice(i)' /\ MayGo(i) /\ OwnerSame(i) /\ ServerSame(i)
Returns(i) ==
  /\ i \in saved /\ ~OnDevice(i) /\ OnDevice(i)'
  /\ MayGo(i) /\ OwnerSame(i) /\ ServerSame(i)
Stays(i)   == OwnerSame(i) /\ DeviceSame(i) /\ ServerSame(i)

Moved(i) == \/ Saves(i) \/ Releases(i) \/ Withdraws(i) \/ Arrives(i) \/ Completes(i)
            \/ Drops(i) \/ Returns(i) \/ Stays(i)

ItemsMove == (clashed => clashed') /\ \A i \in Items : Moved(i)

\* When every item moves so, the ledger makes a step.
LEMMA LedgerStep == ItemsMove => Delivery!Next
  <1> SUFFICES ASSUME ItemsMove PROVE Delivery!Next
    OBVIOUS
  <1>1. ASSUME NEW i \in Items
        PROVE  /\ i \in Held <=> OnDevice(i)
               /\ i \in Held' <=> OnDevice(i)'
               /\ i \in Whole <=> AtServer(i)
               /\ i \in Whole' <=> AtServer(i)'
               /\ Copies[i] = Ids(i)
               /\ Copies'[i] = Ids(i)'
    BY DEF Held, Whole, Copies, Ids
  <1>2. ASSUME NEW i \in Items
        PROVE  \/ Delivery!Save(i) \/ Delivery!Release(i) \/ Delivery!Withdraw(i)
               \/ Delivery!Arrive(i) \/ Delivery!Complete(i) \/ Delivery!Drop(i)
               \/ Delivery!Return(i) \/ Delivery!Stay(i)
    <2>1. Moved(i)
      BY DEF ItemsMove
    <2>2. CASE Saves(i)
      BY <1>1, <2>2 DEF Saves, ServerSame, Delivery!Save, Delivery!Same, Delivery!ServerStays
    <2>3. CASE Releases(i)
      BY <1>1, <2>3 DEF Releases, DeviceSame, ServerSame, Delivery!Release, Delivery!Same,
                        Delivery!DeviceStays, Delivery!ServerStays
    <2>4. CASE Withdraws(i)
      BY <1>1, <2>4 DEF Withdraws, DeviceSame, Delivery!Withdraw, Delivery!Same, Delivery!DeviceStays
    <2>5. CASE Arrives(i)
      BY <1>1, <2>5 DEF Arrives, DeviceSame, OwnerSame, Delivery!Arrive, Delivery!Same,
                        Delivery!DeviceStays, Delivery!OwnerStays
    <2>6. CASE Completes(i)
      BY <1>1, <2>6 DEF Completes, DeviceSame, OwnerSame, Delivery!Complete, Delivery!Same,
                        Delivery!DeviceStays, Delivery!OwnerStays
    <2>7. CASE Drops(i)
      BY <1>1, <2>7 DEF Drops, MayGo, OwnerSame, ServerSame, Delivery!Drop, Delivery!Expendable,
                        Delivery!Same, Delivery!OwnerStays, Delivery!ServerStays
    <2>8. CASE Returns(i)
      BY <1>1, <2>8 DEF Returns, MayGo, OwnerSame, ServerSame, Delivery!Return, Delivery!Expendable,
                        Delivery!Same, Delivery!OwnerStays, Delivery!ServerStays
    <2>9. CASE Stays(i)
      BY <1>1, <2>9 DEF Stays, DeviceSame, OwnerSame, ServerSame, Delivery!Stay, Delivery!Same,
                        Delivery!DeviceStays, Delivery!OwnerStays, Delivery!ServerStays
    <2> QED
      BY <2>1, <2>2, <2>3, <2>4, <2>5, <2>6, <2>7, <2>8, <2>9 DEF Moved
  <1> QED
    BY <1>2 DEF ItemsMove, Delivery!Next

\* What changes nothing the ledger sees of the server, or of the device.
LEMMA ServerKept ==
    ASSUME UNCHANGED <<captures, attached>>, NEW i \in Items
    PROVE  ServerSame(i)
  BY DEF ServerSame, Ids, AtServer, Rows
LEMMA DeviceKept ==
    ASSUME UNCHANGED device, NEW i \in Items
    PROVE  DeviceSame(i)
  BY DEF DeviceSame, OnDevice, device

\* A step on the device alone: what it takes away or brings back may be missing.
LEMMA DeviceMoves ==
    ASSUME UNCHANGED <<captures, attached, saved, discarded>>, clashed => clashed',
           \A i \in Items : OnDevice(i) /\ ~OnDevice(i)' => MayGo(i),
           \A i \in Items : ~OnDevice(i) /\ OnDevice(i)' => i \in saved /\ MayGo(i)
    PROVE  ItemsMove
  <1>1. ASSUME NEW i \in Items
        PROVE  Moved(i)
    <2>1. OwnerSame(i) /\ ServerSame(i)
      BY ServerKept DEF OwnerSame
    <2> QED
      BY <2>1 DEF Moved, Stays, Drops, Returns, DeviceSame
  <1> QED
    BY <1>1 DEF ItemsMove

\* A step that touches neither the device nor the captures.
LEMMA NothingMoves ==
    ASSUME UNCHANGED <<device, captures, attached, saved, discarded>>, clashed => clashed'
    PROVE  ItemsMove
  <1>1. \A i \in Items : DeviceSame(i)
    BY DeviceKept
  <1> QED
    BY <1>1, DeviceMoves DEF DeviceSame

\* A recording that is attached completes its item.
LEMMA AttachMoves ==
    ASSUME UNCHANGED <<device, captures, saved, discarded, clashed>>, attached \subseteq attached'
    PROVE  ItemsMove
  <1>1. ASSUME NEW i \in Items
        PROVE  Moved(i)
    <2>1. DeviceSame(i) /\ OwnerSame(i) /\ Ids(i)' = Ids(i)
      BY DeviceKept DEF OwnerSame, Ids, Rows
    <2>2. AtServer(i) => AtServer(i)'
      BY AtServerStays
    <2>3. AtServer(i)' => Ids(i) # {}
      BY DEF AtServer, Ids, Rows
    <2> QED
      BY <2>1, <2>2, <2>3 DEF Moved, Stays, Completes, ServerSame
  <1> QED
    BY <1>1 DEF ItemsMove

\* A row that is inserted brings its item, if there was none.
LEMMA InsertMoves ==
    ASSUME Strong, NEW i \in Items, i \in saved, Insert(i),
           UNCHANGED <<device, attached, saved, discarded, clashed>>
    PROVE  ItemsMove
  <1>1. CASE Rows(i) # {}
    BY <1>1, NothingMoves DEF Insert
  <1>2. CASE Rows(i) = {}
    <2>1. captures' = captures \cup {[item |-> i, id |-> made + 1]} /\ made \in Nat
      BY <1>2 DEF Insert, Strong, IInv, TypeOK
    <2>2. Ids(i) = {} /\ Ids(i)' = {made + 1}
      <3>1. Rows(i)' = {[item |-> i, id |-> made + 1]}
        BY <1>2, <2>1 DEF Rows
      <3> QED
        BY <1>2, <3>1 DEF Ids
    <2>3. \A j \in Items : made + 1 \notin Ids(j)
      <3>1. \A c \in captures : c.id \in 1 .. made
        BY DEF Strong, IInv, Numbered
      <3> QED
        BY <2>1, <3>1 DEF Ids, Rows
    <2>4. \A j \in Items : OwnerSame(j) /\ DeviceSame(j)
      BY DeviceKept DEF OwnerSame
    <2>5. Arrives(i)
      BY <2>2, <2>3, <2>4 DEF Arrives
    <2>6. ASSUME NEW j \in Items, j # i
          PROVE  ServerSame(j)
      <3>1. Rows(j)' = Rows(j)
        BY <2>1, <2>6 DEF Rows
      <3> QED
        BY <3>1 DEF ServerSame, Ids, AtServer
    <2> QED
      BY <2>4, <2>5, <2>6 DEF ItemsMove, Moved, Stays
  <1> QED
    BY <1>1, <1>2

\* Requests are made of saved items only.
LEMMA ArrivedInductive ==
    ASSUME Strong, [Next]_vars
    PROVE  Arrived'
  <1> USE DEF device, server, locals, ghosts, Strong, IInv, TypeOK, Belongs, Owned, Arrived, Adding
  <1>1. ASSUME NEW t \in Tabs, NEW i \in Items, Add(t, i)
        PROVE  Arrived'
    BY <1>1 DEF Add
  <1>2. ASSUME NEW t \in Tabs, NEW i \in Items, Discard(t, i)
        PROVE  Arrived'
    BY <1>2 DEF Discard
  <1>3. ASSUME NEW t \in Tabs, NEW i \in Items, TakeItem(t, i)
        PROVE  Arrived'
    BY <1>3 DEF TakeItem
  <1>4. ASSUME NEW t \in Tabs, PutBlob(t)
        PROVE  Arrived'
    BY <1>4 DEF PutBlob
  <1>5. ASSUME NEW t \in Tabs, SaveMeta(t)
        PROVE  Arrived'
    BY <1>5 DEF SaveMeta
  <1>6. ASSUME NEW t \in Tabs, TakeBack(t)
        PROVE  Arrived'
    BY <1>6 DEF TakeBack
  <1>7. ASSUME NEW t \in Tabs, AddRefused(t)
        PROVE  Arrived'
    BY <1>7 DEF AddRefused
  <1>8. ASSUME NEW t \in Tabs, ReadIndex(t)
        PROVE  Arrived'
    BY <1>8 DEF ReadIndex
  <1>9. ASSUME NEW t \in Tabs, WriteAppended(t)
        PROVE  Arrived'
    BY <1>9 DEF WriteAppended
  <1>10. ASSUME NEW t \in Tabs, WriteRemoved(t)
        PROVE  Arrived'
    BY <1>10 DEF WriteRemoved
  <1>11. ASSUME NEW t \in Tabs, RemoveRefused(t)
        PROVE  Arrived'
    BY <1>11 DEF RemoveRefused
  <1>12. ASSUME NEW t \in Tabs, ReadKind(t)
        PROVE  Arrived'
    BY <1>12 DEF ReadKind
  <1>13. ASSUME NEW t \in Tabs, DelBlob(t)
        PROVE  Arrived'
    BY <1>13 DEF DelBlob
  <1>14. ASSUME NEW t \in Tabs, DelMeta(t)
        PROVE  Arrived'
    BY <1>14 DEF DelMeta
  <1>15. ASSUME NEW t \in Tabs, Sync(t)
        PROVE  Arrived'
    BY <1>15 DEF Sync
  <1>16. ASSUME NEW t \in Tabs, ListMetas(t)
        PROVE  Arrived'
    BY <1>16 DEF ListMetas
  <1>17. ASSUME NEW t \in Tabs, SyncEnds(t)
        PROVE  Arrived'
    BY <1>17 DEF SyncEnds
  <1>18. ASSUME NEW t \in Tabs, ItemFails(t)
        PROVE  Arrived'
    BY <1>18 DEF ItemFails
  <1>19. ASSUME NEW t \in Tabs, SyncRefused(t)
        PROVE  Arrived'
    BY <1>19 DEF SyncRefused
  <1>20. ASSUME NEW t \in Tabs, LoadBlob(t)
        PROVE  Arrived'
    BY <1>20 DEF LoadBlob
  <1>21. ASSUME NEW t \in Tabs, CreateSelect(t)
        PROVE  Arrived'
    BY <1>21 DEF CreateSelect
  <1>22. ASSUME NEW t \in Tabs, CreateInsert(t)
        PROVE  Arrived'
    BY <1>22 DEF CreateInsert, Insert, Goto
  <1>23. ASSUME NEW t \in Tabs, Upload(t)
        PROVE  Arrived'
    BY <1>23 DEF Upload
  <1>24. ASSUME NEW t \in Tabs, AnswerLost(t)
        PROVE  Arrived'
    <2>1. \A q \in Pending(t) : q.item \in saved
      BY DEF Pending
    <2> QED
      BY <1>24, <2>1 DEF AnswerLost
  <1>25. ASSUME NEW t \in Tabs, Reload(t)
        PROVE  Arrived'
    <2>1. \A q \in Pending(t) : q.item \in saved
      BY DEF Pending
    <2> QED
      BY <1>25, <2>1 DEF Reload
  <1>26. ASSUME NEW request \in late, Late(request)
        PROVE  Arrived'
    BY <1>26 DEF Late, Insert
  <1>27. ASSUME NEW c \in captures, Edit(c)
        PROVE  Arrived'
    BY <1>27 DEF Edit
  <1>28. ASSUME NEW c \in captures, Promote(c)
        PROVE  Arrived'
    BY <1>28 DEF Promote
  <1>29. ASSUME NEW c \in captures, Remove(c)
        PROVE  Arrived'
    BY <1>29 DEF Remove
  <1>30. CASE UNCHANGED vars
    BY <1>30 DEF vars
  <1> QED
    BY <1>1, <1>2, <1>3, <1>4, <1>5, <1>6, <1>7, <1>8, <1>9, <1>10, <1>11, <1>12, <1>13, <1>14,
       <1>15, <1>16, <1>17, <1>18, <1>19, <1>20, <1>21, <1>22, <1>23, <1>24, <1>25, <1>26,
       <1>27, <1>28, <1>29, <1>30
    DEF Next

\* Strong holds always.
LEMMA StrongHolds == Spec => []Strong
  <1>1. Init => Arrived
    BY DEF Init, Arrived
  <1>2. Strong /\ [Next]_vars => Strong'
    BY ArrivedInductive, IInvInductive DEF Strong
  <1>3. Init => Strong
    BY <1>1, IInvInit DEF Strong
  <1> QED
    BY <1>2, <1>3, PTL DEF Spec

\* Every step moves every item as the ledger allows.
LEMMA NextMoves ==
    ASSUME Strong, [Next]_vars
    PROVE  ItemsMove
  <1> USE DEF Strong, IInv, device, server, locals, ghosts
  <1>1. ASSUME NEW t \in Tabs, NEW i \in Items, Add(t, i)
        PROVE  ItemsMove
    BY <1>1, NothingMoves DEF Add
  <1>2. ASSUME NEW t \in Tabs, NEW i \in Items, Discard(t, i)
        PROVE  ItemsMove
    <2>1. ASSUME NEW j \in Items
          PROVE  Moved(j)
      <3>1. DeviceSame(j) /\ ServerSame(j) /\ (j \in saved' <=> j \in saved)
        BY <1>2, DeviceKept, ServerKept DEF Discard
      <3> QED
        BY <1>2, <3>1 DEF Discard, Moved, Releases, Stays, OwnerSame
    <2> QED
      BY <1>2, <2>1 DEF Discard, ItemsMove
  <1>3. ASSUME NEW t \in Tabs, NEW i \in Items, TakeItem(t, i)
        PROVE  ItemsMove
    <2>1. i \in saved /\ metas' = metas \cup {i}
      BY <1>3 DEF TakeItem, Step, Belongs, Owned, Adding
    <2>2. ASSUME NEW j \in Items, ~OnDevice(j), OnDevice(j)'
          PROVE  j \in saved /\ MayGo(j)
      <3>1. j = i
        BY <1>3, <2>1, <2>2 DEF TakeItem, OnDevice
      <3> QED
        BY <2>1, <2>2, <3>1 DEF Kept, MayGo
    <2>3. \A j \in Items : OnDevice(j) => OnDevice(j)'
      BY <1>3, <2>1 DEF TakeItem, OnDevice
    <2> QED
      BY <1>3, <2>2, <2>3, DeviceMoves DEF TakeItem
  <1>4. ASSUME NEW t \in Tabs, PutBlob(t)
        PROVE  ItemsMove
    <2>1. item[t] \notin metas
      BY <1>4 DEF PutBlob, Step, Belongs, Owned, Adding
    <2>2. \A j \in Items : OnDevice(j)' <=> OnDevice(j)
      BY <1>4, <2>1 DEF PutBlob, OnDevice
    <2> QED
      BY <1>4, <2>2, DeviceMoves DEF PutBlob
  <1>5. ASSUME NEW t \in Tabs, SaveMeta(t)
        PROVE  ItemsMove
    <2>1. PICK i \in Items : i = item[t]
      BY <1>5 DEF SaveMeta, Belongs, TypeOK
    <2>2. i \notin saved /\ (clashed \/ i \in index) /\ (i \in Audio => i \in blobs)
      BY <1>5, <2>1 DEF SaveMeta, Belongs, Owned, Written, Adding
    <2>3. Saves(i)
      BY <1>5, <2>1, <2>2, ServerKept DEF SaveMeta, Saves, OnDevice
    <2>4. ASSUME NEW j \in Items, j # i
          PROVE  Stays(j)
      BY <1>5, <2>1, <2>4, ServerKept DEF SaveMeta, Stays, OwnerSame, DeviceSame, OnDevice
    <2> QED
      BY <1>5, <2>3, <2>4 DEF SaveMeta, ItemsMove, Moved
  <1>6. ASSUME NEW t \in Tabs, TakeBack(t)
        PROVE  ItemsMove
    <2>1. item[t] \notin metas
      BY <1>6 DEF TakeBack, Step, Belongs, Owned, Adding
    <2>2. \A j \in Items : OnDevice(j)' <=> OnDevice(j)
      BY <1>6, <2>1 DEF TakeBack, OnDevice
    <2> QED
      BY <1>6, <2>2, DeviceMoves DEF TakeBack
  <1>7. ASSUME NEW t \in Tabs, AddRefused(t)
        PROVE  ItemsMove
    BY <1>7, NothingMoves DEF AddRefused
  <1>8. ASSUME NEW t \in Tabs, ReadIndex(t)
        PROVE  ItemsMove
    BY <1>8, NothingMoves DEF ReadIndex
  <1>9. ASSUME NEW t \in Tabs, WriteAppended(t)
        PROVE  ItemsMove
    <2>1. item[t] \notin metas /\ metas \subseteq saved
      BY <1>9 DEF WriteAppended, Step, Belongs, Owned, Adding
    <2>2. CASE clashed
      <3>1. \A j \in Items : MayGo(j) /\ (OnDevice(j)' => j \in saved)
        BY <1>9, <2>1, <2>2 DEF WriteAppended, OnDevice, MayGo
      <3> QED
        BY <1>9, <3>1, DeviceMoves DEF WriteAppended
    <2>3. CASE ~clashed
      <3>1. index' = index \cup {item[t]}
        BY <1>9, <2>3 DEF WriteAppended, Step, Alone
      <3>2. \A j \in Items : OnDevice(j)' <=> OnDevice(j)
        BY <1>9, <2>1, <3>1 DEF WriteAppended, OnDevice
      <3> QED
        BY <1>9, <3>2, DeviceMoves DEF WriteAppended
    <2> QED
      BY <2>2, <2>3
  <1>10. ASSUME NEW t \in Tabs, WriteRemoved(t)
        PROVE  ItemsMove
    <2>1. item[t] \in discarded \/ AtServer(item[t])
      BY <1>10 DEF WriteRemoved, Removable, Removing
    <2>2. CASE clashed
      <3>1. \A j \in Items : MayGo(j) /\ (OnDevice(j)' => j \in saved)
        BY <1>10, <2>2 DEF WriteRemoved, OnDevice, MayGo, Owned
      <3> QED
        BY <1>10, <3>1, DeviceMoves DEF WriteRemoved
    <2>3. CASE ~clashed
      <3>1. index' = index \ {item[t]}
        BY <1>10, <2>3 DEF WriteRemoved, Alone
      <3>2. ASSUME NEW j \in Items
            PROVE  /\ OnDevice(j) /\ ~OnDevice(j)' => MayGo(j)
                   /\ OnDevice(j)' => OnDevice(j)
        BY <1>10, <2>1, <3>1 DEF WriteRemoved, OnDevice, MayGo
      <3> QED
        BY <1>10, <3>2, DeviceMoves DEF WriteRemoved
    <2> QED
      BY <2>2, <2>3
  <1>11. ASSUME NEW t \in Tabs, RemoveRefused(t)
        PROVE  ItemsMove
    BY <1>11, NothingMoves DEF RemoveRefused
  <1>12. ASSUME NEW t \in Tabs, ReadKind(t)
        PROVE  ItemsMove
    BY <1>12, NothingMoves DEF ReadKind
  <1>13. ASSUME NEW t \in Tabs, DelBlob(t)
        PROVE  ItemsMove
    <2>1. item[t] \in discarded \/ AtServer(item[t])
      BY <1>13 DEF DelBlob, Step, Removable, Removing
    <2>2. ASSUME NEW j \in Items
          PROVE  /\ OnDevice(j) /\ ~OnDevice(j)' => MayGo(j)
                 /\ OnDevice(j)' => OnDevice(j)
      BY <1>13, <2>1 DEF DelBlob, OnDevice, MayGo
    <2> QED
      BY <1>13, <2>2, DeviceMoves DEF DelBlob
  <1>14. ASSUME NEW t \in Tabs, DelMeta(t)
        PROVE  ItemsMove
    <2>1. item[t] \in discarded \/ AtServer(item[t])
      BY <1>14 DEF DelMeta, Step, Removable, Removing
    <2>2. ASSUME NEW j \in Items
          PROVE  /\ OnDevice(j) /\ ~OnDevice(j)' => MayGo(j)
                 /\ OnDevice(j)' => OnDevice(j)
      BY <1>14, <2>1 DEF DelMeta, OnDevice, MayGo
    <2> QED
      BY <1>14, <2>2, DeviceMoves DEF DelMeta
  <1>15. ASSUME NEW t \in Tabs, Sync(t)
        PROVE  ItemsMove
    BY <1>15, NothingMoves DEF Sync
  <1>16. ASSUME NEW t \in Tabs, ListMetas(t)
        PROVE  ItemsMove
    BY <1>16, NothingMoves DEF ListMetas
  <1>17. ASSUME NEW t \in Tabs, SyncEnds(t)
        PROVE  ItemsMove
    BY <1>17, NothingMoves DEF SyncEnds
  <1>18. ASSUME NEW t \in Tabs, ItemFails(t)
        PROVE  ItemsMove
    <2>1. item[t] \in saved /\ metas' = metas \cup {item[t]}
      BY <1>18 DEF ItemFails, Step, Belongs, Owned, Adding
    <2>2. ASSUME NEW j \in Items, ~OnDevice(j), OnDevice(j)'
          PROVE  j \in saved /\ MayGo(j)
      <3>1. j = item[t]
        BY <1>18, <2>1, <2>2 DEF ItemFails, OnDevice
      <3> QED
        BY <2>1, <2>2, <3>1 DEF Kept, MayGo
    <2>3. \A j \in Items : OnDevice(j) => OnDevice(j)'
      BY <1>18, <2>1 DEF ItemFails, OnDevice
    <2> QED
      BY <1>18, <2>2, <2>3, DeviceMoves DEF ItemFails
  <1>19. ASSUME NEW t \in Tabs, SyncRefused(t)
        PROVE  ItemsMove
    BY <1>19, NothingMoves DEF SyncRefused
  <1>20. ASSUME NEW t \in Tabs, LoadBlob(t)
        PROVE  ItemsMove
    BY <1>20, NothingMoves DEF LoadBlob
  <1>21. ASSUME NEW t \in Tabs, CreateSelect(t)
        PROVE  ItemsMove
    BY <1>21, NothingMoves DEF CreateSelect
  <1>22. ASSUME NEW t \in Tabs, CreateInsert(t)
        PROVE  ItemsMove
    <2>1. item[t] \in Items /\ item[t] \in saved
      BY <1>22 DEF CreateInsert, TypeOK, Belongs, Owned, Adding
    <2> QED
      BY <1>22, <2>1, InsertMoves DEF CreateInsert
  <1>23. ASSUME NEW t \in Tabs, Upload(t)
        PROVE  ItemsMove
    BY <1>23, AttachMoves DEF Upload, Attach
  <1>24. ASSUME NEW t \in Tabs, AnswerLost(t)
        PROVE  ItemsMove
    BY <1>24, NothingMoves DEF AnswerLost
  <1>25. ASSUME NEW t \in Tabs, Reload(t)
        PROVE  ItemsMove
    BY <1>25, NothingMoves DEF Reload
  <1>26. ASSUME NEW request \in late, Late(request)
        PROVE  ItemsMove
    <2>1. CASE request.step = "upload"
      BY <1>26, <2>1, AttachMoves DEF Late, Attach
    <2>2. CASE request.step # "upload"
      <3>1. request.item \in Items /\ request.item \in saved
        BY FieldTypes DEF Arrived
      <3> QED
        BY <1>26, <2>2, <3>1, InsertMoves DEF Late
    <2> QED
      BY <2>1, <2>2
  <1>27. ASSUME NEW c \in captures, Edit(c)
        PROVE  ItemsMove
    BY <1>27, NothingMoves DEF Edit
  <1>28. ASSUME NEW c \in captures, Promote(c)
        PROVE  ItemsMove
    BY <1>28, NothingMoves DEF Promote
  <1>29. ASSUME NEW c \in captures, Remove(c)
        PROVE  ItemsMove
    <2>1. c.item \in Items /\ c.item \in saved
      BY FieldTypes DEF Arrived
    <2>2. Rows(c.item)' = {}
      BY <1>29 DEF Remove, Rows, Numbered
    <2>3. \A j \in Items : DeviceSame(j) /\ (j \in saved' <=> j \in saved)
      BY <1>29, DeviceKept DEF Remove
    <2>4. Withdraws(c.item)
      BY <1>29, <2>1, <2>2, <2>3 DEF Remove, Withdraws, Ids, AtServer
    <2>5. ASSUME NEW j \in Items, j # c.item
          PROVE  Stays(j)
      <3>1. Rows(j)' = Rows(j)
        BY <1>29, <2>5 DEF Remove, Rows
      <3> QED
        BY <1>29, <2>3, <2>5, <3>1 DEF Remove, Stays, OwnerSame, ServerSame, Ids, AtServer
    <2> QED
      BY <1>29, <2>4, <2>5 DEF Remove, ItemsMove, Moved
  <1>30. CASE UNCHANGED vars
    BY <1>30, NothingMoves DEF vars
  <1> QED
    BY <1>1, <1>2, <1>3, <1>4, <1>5, <1>6, <1>7, <1>8, <1>9, <1>10, <1>11, <1>12, <1>13, <1>14,
       <1>15, <1>16, <1>17, <1>18, <1>19, <1>20, <1>21, <1>22, <1>23, <1>24, <1>25, <1>26,
       <1>27, <1>28, <1>29, <1>30
    DEF Next

\* syncOutbox, discardOutboxItem, create_capture: an item reaches the server only
\* after its save was acknowledged, as one capture that nothing but the owner
\* replaces, and no step takes it from the device before the server has it whole
\* or its owner let it go.
THEOREM OutboxImplementsDelivery == Spec => ImplementsDeliveryLedger
  <1>1. Init => Delivery!Init
    <2> SUFFICES ASSUME Init PROVE Delivery!Init
      OBVIOUS
    <2>1. Held = {} /\ Whole = {} /\ Copies = [i \in Items |-> {}]
      BY DEF Init, Held, Whole, Copies, OnDevice, AtServer, Rows
    <2> QED
      BY <2>1 DEF Init, Delivery!Init
  <1>2. Strong /\ [Next]_vars => [Delivery!Next]_(Delivery!vars)
    BY NextMoves, LedgerStep
  <1> QED
    BY <1>1, <1>2, StrongHolds, PTL DEF Spec, ImplementsDeliveryLedger, Delivery!Spec
=============================================================================
