--------------------------- MODULE CapturesProofs ---------------------------
(***************************************************************************)
(* Proofs about Captures: its four invariants and the action property on   *)
(* transcripts hold for any number of requests, attachments, notes,        *)
(* transcripts and faults.                                                 *)
(***************************************************************************)
EXTENDS Captures, TLAPS

USE CapturesAssumption

-----------------------------------------------------------------------------
(***************************************************************************)
(* The parts of the inductive invariant                                    *)
(***************************************************************************)
\* Which request each step belongs to, and what it holds there.
Belongs ==
  \A r \in Requests :
    /\ pc[r] = "idle" <=> kind[r] = None
    /\ pc[r] \in {"check", "write"} => kind[r] = "patch"
    /\ pc[r] = "keys" => kind[r] = "delete"
    /\ pc[r] = "key" => kind[r] = "unattach"
    /\ pc[r] \in {"unlink", "row"} => kind[r] \in {"delete", "unattach"}
    /\ pc[r] \in {"store", "insert"} => kind[r] = "upload"
    /\ pc[r] \in {"prepare", "hear", "finish"} => kind[r] = "transcribe"
    /\ pc[r] \in {"view", "collect", "embed", "mark", "cleanup", "fail"} => kind[r] = "index"
    /\ note[r] # None <=> pc[r] \in {"embed", "mark", "cleanup", "fail"}
    /\ target[r] # None <=> pc[r] \in {"store", "insert", "hear", "finish"}
    /\ keys[r] # {} => pc[r] \in {"unlink", "row", "collect", "embed", "mark", "cleanup", "fail"}
    /\ into[r] # 0 => pc[r] \in {"hear", "finish"}

\* Requests that are active at one time know of one another.
Overlap == \A r, q \in Requests : pc[r] # "idle" /\ pc[q] # "idle" /\ r # q => kind[q] \in over[r]

\* A note belongs to the request that inserted it until the request ends.
Memory ==
  /\ \A r, q \in Requests : note[r] = note[q] /\ note[r] # None => r = q
  /\ \A r \in Requests :
       /\ note[r] # None => row.note # note[r] /\ said[note[r]] # NoText
       /\ pc[r] \in {"embed", "mark", "cleanup"} => note[r] \in notes
       /\ pc[r] = "mark" => note[r] \in points
  /\ \A n \in Notes : said[n] = NoText => n \notin notes \cup points /\ row.note # n

\* What a request that indexes alone leaves behind is what the capture names.
Settled ==
  row.note \notin contested \cup {None} =>
    /\ row.status = "indexed"
    /\ \A q \in Requests : kind[q] \in {"index", "delete"} => pc[q] = "read"
Stays == \A r \in Requests : kind[r] = "index" /\ pc[r] # "read" /\ "delete" \notin over[r] => There
Cleaned ==
  \A r \in Requests :
    /\ pc[r] = "embed" => note[r] \notin points
    /\ pc[r] \in {"cleanup", "fail"} => note[r] \notin points \ contested
    /\ pc[r] = "fail" => note[r] \notin notes \ contested

\* An attachment id is known to its upload alone until its row is inserted.
Fresh ==
  /\ atts \subseteq drawn
  /\ \A r \in Requests :
       /\ keys[r] \subseteq drawn
       /\ pc[r] \in {"store", "insert"} =>
            /\ target[r] \in drawn \ atts
            /\ \A q \in Requests : /\ target[r] \notin keys[q]
                                   /\ target[q] = target[r] /\ kind[q] = "upload" => q = r

\* The bytes are there before the row and go before it.
Bytes ==
  \A r \in Requests :
    /\ pc[r] = "insert" => target[r] \in files
    /\ pc[r] = "row" => keys[r] \cap files \subseteq torn
    /\ kind[r] = "delete" /\ pc[r] \in {"unlink", "row"} => atts \subseteq keys[r] \cup torn

\* An index that no edit overlaps sees the capture as it is.
Heedful(r) == kind[r] = "index" /\ over[r] \cap Edits = {} /\ There
Spoken == \A a \in atts : TranscriptsOf(a) \cap Heard # {}
Seen ==
  \A r \in Requests : Heedful(r) =>
    /\ pc[r] # "read" => words[r] = row.words
    /\ pc[r] \in {"collect", "embed", "mark"} => keys[r] = atts
    /\ pc[r] \in {"embed", "mark"} => said[note[r]] = Content /\ Spoken

\* The capture is what its note says, and nobody is left to change it.
Sealed ==
  row.status = "indexed" /\ row.note \notin doubtful =>
    /\ said[row.note] = Content /\ Spoken
    /\ \A q \in Requests : kind[q] \in Edits => pc[q] = "read"

\* A transcript is filled by one request that knew it was not complete.
Fills == \A r \in Requests : into[r] # 0 /\ "transcribe" \notin over[r] => ~trs[into[r]].ok

-----------------------------------------------------------------------------
\* A request that ends keeps the types of what requests hold.
LEMMA DoneTypes ==
    ASSUME TypeOK, NEW r \in Requests, Done(r)
    PROVE  /\ pc' \in [Requests -> {"idle", "read", "check", "write", "keys", "unlink", "row", "key", "store",
                                    "insert", "prepare", "hear", "finish", "view", "collect", "embed", "mark",
                                    "cleanup", "fail"}]
           /\ kind' \in [Requests -> Kinds \cup {None}] /\ target' \in [Requests -> Atts \cup {None}]
           /\ keys' \in [Requests -> SUBSET Atts] /\ words' \in [Requests -> Words]
           /\ into' \in [Requests -> 0 .. MaxTranscripts] /\ note' \in [Requests -> Notes \cup {None}]
           /\ over' \in [Requests -> SUBSET Kinds]
  BY DEF TypeOK, Done

\* The types are kept by every step.
LEMMA TypeInductive ==
    ASSUME TypeOK, Belongs, [Next]_vars
    PROVE  TypeOK'
  <1> USE DEF stores, locals, ghosts, TypeOK, Belongs, There, NoRow, NoTr
  <1>1. ASSUME NEW r \in Requests, NEW k \in Kinds, Begin(r, k)
        PROVE  TypeOK'
    BY <1>1 DEF Begin, Goto, Active
  <1>2. ASSUME NEW r \in Requests, Refused(r)
        PROVE  TypeOK'
    BY <1>2 DEF Refused, Done
  <1>3. ASSUME NEW r \in Requests, ReadForPatch(r)
        PROVE  TypeOK'
    BY <1>3 DEF ReadForPatch, Goto
  <1>4. ASSUME NEW r \in Requests, CheckAttachments(r)
        PROVE  TypeOK'
    <2>1. CASE Done(r)
      BY <1>4, <2>1, DoneTypes DEF CheckAttachments
    <2>2. CASE ~Done(r)
      BY <1>4, <2>2 DEF CheckAttachments, Goto
    <2> QED
      BY <2>1, <2>2
  <1>5. ASSUME NEW r \in Requests, WritePatch(r)
        PROVE  TypeOK'
    BY <1>5 DEF WritePatch, Done
  <1>6. ASSUME NEW r \in Requests, ReadForDelete(r)
        PROVE  TypeOK'
    BY <1>6 DEF ReadForDelete, Goto
  <1>7. ASSUME NEW r \in Requests, ReadKeys(r)
        PROVE  TypeOK'
    BY <1>7 DEF ReadKeys, Goto
  <1>8. ASSUME NEW r \in Requests, Unlink(r)
        PROVE  TypeOK'
    BY <1>8 DEF Unlink, Goto, Fault
  <1>9. ASSUME NEW r \in Requests, DeleteRow(r)
        PROVE  TypeOK'
    BY <1>9 DEF DeleteRow, Done, Without
  <1>10. ASSUME NEW r \in Requests, ReadForUnattach(r)
        PROVE  TypeOK'
    BY <1>10 DEF ReadForUnattach, Goto
  <1>11. ASSUME NEW r \in Requests, ReadKey(r)
        PROVE  TypeOK'
    <2>1. CASE Done(r)
      BY <1>11, <2>1, DoneTypes DEF ReadKey
    <2>2. CASE ~Done(r)
      <3>1. PICK a \in atts : keys' = [keys EXCEPT ![r] = {a}] /\ Goto(r, "unlink")
                              /\ UNCHANGED <<kind, target, words, into, note, over>>
        BY <1>11, <2>2 DEF ReadKey
      <3>2. UNCHANGED <<stores, ghosts, asked, faults>>
        BY <1>11 DEF ReadKey
      <3> QED
        BY <3>1, <3>2 DEF Goto
    <2> QED
      BY <2>1, <2>2
  <1>12. ASSUME NEW r \in Requests, DeleteAttachment(r)
        PROVE  TypeOK'
    BY <1>12 DEF DeleteAttachment, Done, Without
  <1>13. ASSUME NEW r \in Requests, ReadForUpload(r)
        PROVE  TypeOK'
    BY <1>13 DEF ReadForUpload, Goto
  <1>14. ASSUME NEW r \in Requests, StoreFile(r)
        PROVE  TypeOK'
    <2>1. CASE Done(r)
      BY <1>14, <2>1, DoneTypes DEF StoreFile, Fault
    <2>2. CASE ~Done(r)
      BY <1>14, <2>2 DEF StoreFile, Goto, Fault
    <2> QED
      BY <2>1, <2>2
  <1>15. ASSUME NEW r \in Requests, InsertAttachment(r)
        PROVE  TypeOK'
    BY <1>15 DEF InsertAttachment, Done
  <1>16. ASSUME NEW r \in Requests, TakeBack(r)
        PROVE  TypeOK'
    BY <1>16 DEF TakeBack, Done, Fault
  <1>17. ASSUME NEW r \in Requests, ReadForTranscribe(r)
        PROVE  TypeOK'
    BY <1>17 DEF ReadForTranscribe, Goto
  <1>18. ASSUME NEW r \in Requests, Prepare(r)
        PROVE  TypeOK'
    <2>1. CASE Done(r)
      BY <1>18, <2>1, DoneTypes DEF Prepare, Latest, TranscriptsOf
    <2>2. CASE ~Done(r)
      <3>1. PICK a \in atts : \E t \in Latest(a) :
              /\ target' = [target EXCEPT ![r] = a] /\ into' = [into EXCEPT ![r] = t]
              /\ Goto(r, "hear") /\ UNCHANGED <<kind, keys, words, note, over>>
        BY <1>18, <2>2 DEF Prepare
      <3>2. PICK t \in Latest(a) : into' = [into EXCEPT ![r] = t]
        BY <3>1
      <3>3. t \in 0 .. MaxTranscripts
        BY DEF Latest, TranscriptsOf, Trs
      <3>4. UNCHANGED <<stores, ghosts, asked, faults>>
        BY <1>18 DEF Prepare
      <3> QED
        BY <3>1, <3>2, <3>3, <3>4 DEF Goto
    <2> QED
      BY <2>1, <2>2
  <1>19. ASSUME NEW r \in Requests, ReadAudio(r)
        PROVE  TypeOK'
    <2>1. CASE Done(r)
      BY <1>19, <2>1, DoneTypes DEF ReadAudio
    <2>2. CASE ~Done(r)
      BY <1>19, <2>2 DEF ReadAudio, Goto
    <2> QED
      BY <2>1, <2>2
  <1>20. ASSUME NEW r \in Requests, NEW ok \in BOOLEAN, UpdateTranscript(r, ok)
        PROVE  TypeOK'
    <2>1. into[r] \in Trs
      BY <1>20 DEF UpdateTranscript, Trs
    <2>2. trs' \in [Trs -> [att : Atts, ok : BOOLEAN] \cup {NoTr}]
      BY <1>20, <2>1 DEF UpdateTranscript
    <2>3. \A t \in Trs : t # into[r] => trs'[t] = trs[t]
      BY <1>20 DEF UpdateTranscript
    <2>4. trs'[into[r]] # NoTr => trs[into[r]] # NoTr /\ trs'[into[r]].att = trs[into[r]].att
      <3>1. CASE trs[into[r]] = NoTr
        BY <1>20, <3>1 DEF UpdateTranscript
      <3>2. CASE trs[into[r]] # NoTr
        <4>1. trs[into[r]] \in [att : Atts, ok : BOOLEAN]
          BY <2>1, <3>2
        <4>2. trs'[into[r]] = [trs[into[r]] EXCEPT !.ok = ok]
          BY <1>20, <2>1, <3>2 DEF UpdateTranscript
        <4> QED
          BY <3>2, <4>1, <4>2
      <3> QED
        BY <3>1, <3>2
    <2>5. \A t \in Trs : trs'[t] # NoTr => trs[t] # NoTr /\ trs'[t].att = trs[t].att
      BY <2>3, <2>4
    <2>6. UNCHANGED <<row, atts, inserted, files, notes, points, said, drawn, ghosts, asked, faults>>
      BY <1>20 DEF UpdateTranscript
    <2>7. \A t \in Trs : trs'[t] # NoTr => t <= inserted /\ trs'[t].att \in atts
      BY <2>5
    <2>8. Done(r)
      BY <1>20 DEF UpdateTranscript
    <2> QED
      BY <2>2, <2>6, <2>7, <2>8, DoneTypes
  <1>21. ASSUME NEW r \in Requests, NEW ok \in BOOLEAN, InsertTranscript(r, ok)
        PROVE  TypeOK'
    <2>1. CASE target[r] \in atts
      <3>1. inserted + 1 \in Trs
        BY <1>21, <2>1 DEF InsertTranscript, Trs
      <3>2. trs' \in [Trs -> [att : Atts, ok : BOOLEAN] \cup {NoTr}]
        BY <1>21, <2>1, <3>1 DEF InsertTranscript
      <3>3. trs'[inserted + 1] = [att |-> target[r], ok |-> ok]
        BY <1>21, <2>1, <3>1 DEF InsertTranscript
      <3>4. \A t \in Trs : t # inserted + 1 => trs'[t] = trs[t]
        BY <1>21, <2>1 DEF InsertTranscript
      <3>5. \A t \in Trs : trs[t] # NoTr => t <= inserted + 1 /\ trs[t].att \in atts
        BY DEF Trs
      <3>6. ASSUME NEW t \in Trs, trs'[t] # NoTr
            PROVE  t <= inserted + 1 /\ trs'[t].att \in atts
        <4>1. CASE t = inserted + 1
          BY <2>1, <3>3, <4>1
        <4>2. CASE t # inserted + 1
          <5>1. trs'[t] = trs[t]
            BY <3>4, <4>2
          <5>2. trs[t] # NoTr
            BY <5>1, <3>6
          <5> QED
            BY <3>5, <5>1, <5>2
        <4> QED
          BY <4>1, <4>2
      <3> QED
        BY <1>21, <2>1, <3>2, <3>6, DoneTypes DEF InsertTranscript
    <2>2. CASE target[r] \notin atts
      BY <1>21, <2>2, DoneTypes DEF InsertTranscript
    <2> QED
      BY <2>1, <2>2
  <1>22. ASSUME NEW r \in Requests, ReadForIndex(r)
        PROVE  TypeOK'
    BY <1>22 DEF ReadForIndex, Goto
  <1>23. ASSUME NEW r \in Requests, ReadAttachments(r)
        PROVE  TypeOK'
    BY <1>23 DEF ReadAttachments, Goto
  <1>24. ASSUME NEW r \in Requests, NotReady(r)
        PROVE  TypeOK'
    BY <1>24 DEF NotReady, Done
  <1>25. ASSUME NEW r \in Requests, InsertNote(r)
        PROVE  TypeOK'
    BY <1>25 DEF InsertNote, Goto, Heard, NoText
  <1>26. ASSUME NEW r \in Requests, UpsertPoint(r)
        PROVE  TypeOK'
    BY <1>26 DEF UpsertPoint, Goto
  <1>27. ASSUME NEW r \in Requests, UpsertFails(r)
        PROVE  TypeOK'
    BY <1>27 DEF UpsertFails, Goto, Fault
  <1>28. ASSUME NEW r \in Requests, DeleteNote(r)
        PROVE  TypeOK'
    BY <1>28 DEF DeleteNote, Goto, Fault
  <1>29. ASSUME NEW r \in Requests, MarkFailed(r)
        PROVE  TypeOK'
    BY <1>29 DEF MarkFailed, Done
  <1>30. ASSUME NEW r \in Requests, MarkIndexed(r)
        PROVE  TypeOK'
    <2>1. row' \in [status : {"gone", "pending", "failed", "indexed"}, note : Notes \cup {None}, words : Words]
      BY <1>30 DEF MarkIndexed
    <2>2. ~There' => row' = NoRow
      BY <1>30 DEF MarkIndexed
    <2>3. contested' \subseteq Notes /\ doubtful' \subseteq Notes
      BY <1>30 DEF MarkIndexed
    <2>4. Done(r) /\ UNCHANGED <<atts, trs, inserted, files, notes, points, said, drawn, torn, asked, faults>>
      BY <1>30 DEF MarkIndexed
    <2> HIDE DEF There, NoRow
    <2> QED
      BY <2>1, <2>2, <2>3, <2>4, DoneTypes
  <1>31. ASSUME NEW r \in Requests, Abandon(r)
        PROVE  TypeOK'
    BY <1>31 DEF Abandon, Done, Fault, Touched, Held
  <1>32. CASE Crash
    BY <1>32 DEF Crash, Fault, Touched, Held
  <1>33. CASE UNCHANGED vars
    BY SMTT(40), <1>33 DEF vars
  <1> HIDE DEF stores, locals, ghosts, TypeOK, Belongs, There, NoRow, NoTr
  <1> QED
    BY <1>1, <1>2, <1>3, <1>4, <1>5, <1>6, <1>7, <1>8, <1>9, <1>10, <1>11, <1>12, <1>13, <1>14, <1>15, <1>16, <1>17, <1>18, <1>19, <1>20, <1>21, <1>22, <1>23, <1>24, <1>25, <1>26, <1>27, <1>28, <1>29, <1>30, <1>31, <1>32, <1>33
    DEF Next, Patch, Delete, Unattach, Upload, Transcribe, Index

\* Every step finds its request where it belongs.
LEMMA BelongsInductive ==
    ASSUME TypeOK, Belongs, [Next]_vars
    PROVE  Belongs'
  <1> USE DEF stores, locals, ghosts, TypeOK, Belongs, Kinds
  <1>1. ASSUME NEW r \in Requests, NEW k \in Kinds, Begin(r, k)
        PROVE  Belongs'
    BY <1>1 DEF Begin, Goto
  <1>2. ASSUME NEW r \in Requests, Refused(r)
        PROVE  Belongs'
    BY <1>2 DEF Refused, Done
  <1>3. ASSUME NEW r \in Requests, ReadForPatch(r)
        PROVE  Belongs'
    BY <1>3 DEF ReadForPatch, Goto
  <1>4. ASSUME NEW r \in Requests, CheckAttachments(r)
        PROVE  Belongs'
    BY <1>4 DEF CheckAttachments, Goto, Done
  <1>5. ASSUME NEW r \in Requests, WritePatch(r)
        PROVE  Belongs'
    BY <1>5 DEF WritePatch, Done
  <1>6. ASSUME NEW r \in Requests, ReadForDelete(r)
        PROVE  Belongs'
    BY <1>6 DEF ReadForDelete, Goto
  <1>7. ASSUME NEW r \in Requests, ReadKeys(r)
        PROVE  Belongs'
    BY <1>7 DEF ReadKeys, Goto
  <1>8. ASSUME NEW r \in Requests, Unlink(r)
        PROVE  Belongs'
    BY <1>8 DEF Unlink, Goto, Fault
  <1>9. ASSUME NEW r \in Requests, DeleteRow(r)
        PROVE  Belongs'
    BY <1>9 DEF DeleteRow, Done, Without
  <1>10. ASSUME NEW r \in Requests, ReadForUnattach(r)
        PROVE  Belongs'
    BY <1>10 DEF ReadForUnattach, Goto
  <1>11. ASSUME NEW r \in Requests, ReadKey(r)
        PROVE  Belongs'
    BY <1>11 DEF ReadKey, Goto, Done
  <1>12. ASSUME NEW r \in Requests, DeleteAttachment(r)
        PROVE  Belongs'
    BY <1>12 DEF DeleteAttachment, Done, Without
  <1>13. ASSUME NEW r \in Requests, ReadForUpload(r)
        PROVE  Belongs'
    BY <1>13 DEF ReadForUpload, Goto
  <1>14. ASSUME NEW r \in Requests, StoreFile(r)
        PROVE  Belongs'
    BY <1>14 DEF StoreFile, Goto, Done, Fault
  <1>15. ASSUME NEW r \in Requests, InsertAttachment(r)
        PROVE  Belongs'
    BY <1>15 DEF InsertAttachment, Done
  <1>16. ASSUME NEW r \in Requests, TakeBack(r)
        PROVE  Belongs'
    BY <1>16 DEF TakeBack, Done, Fault
  <1>17. ASSUME NEW r \in Requests, ReadForTranscribe(r)
        PROVE  Belongs'
    BY <1>17 DEF ReadForTranscribe, Goto
  <1>18. ASSUME NEW r \in Requests, Prepare(r)
        PROVE  Belongs'
    BY <1>18 DEF Prepare, Goto, Done, Latest, TranscriptsOf
  <1>19. ASSUME NEW r \in Requests, ReadAudio(r)
        PROVE  Belongs'
    BY <1>19 DEF ReadAudio, Goto, Done
  <1>20. ASSUME NEW r \in Requests, NEW ok \in BOOLEAN, UpdateTranscript(r, ok)
        PROVE  Belongs'
    BY <1>20 DEF UpdateTranscript, Done
  <1>21. ASSUME NEW r \in Requests, NEW ok \in BOOLEAN, InsertTranscript(r, ok)
        PROVE  Belongs'
    BY <1>21 DEF InsertTranscript, Done
  <1>22. ASSUME NEW r \in Requests, ReadForIndex(r)
        PROVE  Belongs'
    BY <1>22 DEF ReadForIndex, Goto
  <1>23. ASSUME NEW r \in Requests, ReadAttachments(r)
        PROVE  Belongs'
    BY <1>23 DEF ReadAttachments, Goto
  <1>24. ASSUME NEW r \in Requests, NotReady(r)
        PROVE  Belongs'
    BY <1>24 DEF NotReady, Done
  <1>25. ASSUME NEW r \in Requests, InsertNote(r)
        PROVE  Belongs'
    BY <1>25 DEF InsertNote, Goto
  <1>26. ASSUME NEW r \in Requests, UpsertPoint(r)
        PROVE  Belongs'
    BY <1>26 DEF UpsertPoint, Goto
  <1>27. ASSUME NEW r \in Requests, UpsertFails(r)
        PROVE  Belongs'
    BY <1>27 DEF UpsertFails, Goto, Fault
  <1>28. ASSUME NEW r \in Requests, DeleteNote(r)
        PROVE  Belongs'
    BY <1>28 DEF DeleteNote, Goto, Fault
  <1>29. ASSUME NEW r \in Requests, MarkFailed(r)
        PROVE  Belongs'
    BY <1>29 DEF MarkFailed, Done
  <1>30. ASSUME NEW r \in Requests, MarkIndexed(r)
        PROVE  Belongs'
    BY <1>30 DEF MarkIndexed, Done
  <1>31. ASSUME NEW r \in Requests, Abandon(r)
        PROVE  Belongs'
    BY <1>31 DEF Abandon, Done, Fault
  <1>32. CASE Crash
    BY <1>32 DEF Crash, Fault
  <1>33. CASE UNCHANGED vars
    BY <1>33 DEF vars
  <1> QED
    BY <1>1, <1>2, <1>3, <1>4, <1>5, <1>6, <1>7, <1>8, <1>9, <1>10, <1>11, <1>12, <1>13, <1>14, <1>15, <1>16, <1>17, <1>18, <1>19, <1>20, <1>21, <1>22, <1>23, <1>24, <1>25, <1>26, <1>27, <1>28, <1>29, <1>30, <1>31, <1>32, <1>33
    DEF Next, Patch, Delete, Unattach, Upload, Transcribe, Index

\* A request learns of those that run when it begins, and they of it.
LEMMA OverlapInductive ==
    ASSUME TypeOK, Belongs, Overlap, [Next]_vars
    PROVE  Overlap'
  <1> USE DEF stores, locals, ghosts, TypeOK, Belongs, Overlap
  <1>1. ASSUME NEW r \in Requests, NEW k \in Kinds, Begin(r, k)
        PROVE  Overlap'
    BY <1>1 DEF Begin, Goto, Active
  <1>2. ASSUME NEW r \in Requests, Refused(r)
        PROVE  Overlap'
    BY <1>2 DEF Refused, Done
  <1>3. ASSUME NEW r \in Requests, ReadForPatch(r)
        PROVE  Overlap'
    BY <1>3 DEF ReadForPatch, Goto
  <1>4. ASSUME NEW r \in Requests, CheckAttachments(r)
        PROVE  Overlap'
    BY <1>4 DEF CheckAttachments, Goto, Done
  <1>5. ASSUME NEW r \in Requests, WritePatch(r)
        PROVE  Overlap'
    BY <1>5 DEF WritePatch, Done
  <1>6. ASSUME NEW r \in Requests, ReadForDelete(r)
        PROVE  Overlap'
    BY <1>6 DEF ReadForDelete, Goto
  <1>7. ASSUME NEW r \in Requests, ReadKeys(r)
        PROVE  Overlap'
    BY <1>7 DEF ReadKeys, Goto
  <1>8. ASSUME NEW r \in Requests, Unlink(r)
        PROVE  Overlap'
    BY <1>8 DEF Unlink, Goto, Fault
  <1>9. ASSUME NEW r \in Requests, DeleteRow(r)
        PROVE  Overlap'
    BY <1>9 DEF DeleteRow, Done, Without
  <1>10. ASSUME NEW r \in Requests, ReadForUnattach(r)
        PROVE  Overlap'
    BY <1>10 DEF ReadForUnattach, Goto
  <1>11. ASSUME NEW r \in Requests, ReadKey(r)
        PROVE  Overlap'
    BY <1>11 DEF ReadKey, Goto, Done
  <1>12. ASSUME NEW r \in Requests, DeleteAttachment(r)
        PROVE  Overlap'
    BY <1>12 DEF DeleteAttachment, Done, Without
  <1>13. ASSUME NEW r \in Requests, ReadForUpload(r)
        PROVE  Overlap'
    BY <1>13 DEF ReadForUpload, Goto
  <1>14. ASSUME NEW r \in Requests, StoreFile(r)
        PROVE  Overlap'
    BY <1>14 DEF StoreFile, Goto, Done, Fault
  <1>15. ASSUME NEW r \in Requests, InsertAttachment(r)
        PROVE  Overlap'
    BY <1>15 DEF InsertAttachment, Done
  <1>16. ASSUME NEW r \in Requests, TakeBack(r)
        PROVE  Overlap'
    BY <1>16 DEF TakeBack, Done, Fault
  <1>17. ASSUME NEW r \in Requests, ReadForTranscribe(r)
        PROVE  Overlap'
    BY <1>17 DEF ReadForTranscribe, Goto
  <1>18. ASSUME NEW r \in Requests, Prepare(r)
        PROVE  Overlap'
    BY <1>18 DEF Prepare, Goto, Done
  <1>19. ASSUME NEW r \in Requests, ReadAudio(r)
        PROVE  Overlap'
    BY <1>19 DEF ReadAudio, Goto, Done
  <1>20. ASSUME NEW r \in Requests, NEW ok \in BOOLEAN, UpdateTranscript(r, ok)
        PROVE  Overlap'
    BY <1>20 DEF UpdateTranscript, Done
  <1>21. ASSUME NEW r \in Requests, NEW ok \in BOOLEAN, InsertTranscript(r, ok)
        PROVE  Overlap'
    BY <1>21 DEF InsertTranscript, Done
  <1>22. ASSUME NEW r \in Requests, ReadForIndex(r)
        PROVE  Overlap'
    BY <1>22 DEF ReadForIndex, Goto
  <1>23. ASSUME NEW r \in Requests, ReadAttachments(r)
        PROVE  Overlap'
    BY <1>23 DEF ReadAttachments, Goto
  <1>24. ASSUME NEW r \in Requests, NotReady(r)
        PROVE  Overlap'
    BY <1>24 DEF NotReady, Done
  <1>25. ASSUME NEW r \in Requests, InsertNote(r)
        PROVE  Overlap'
    BY <1>25 DEF InsertNote, Goto
  <1>26. ASSUME NEW r \in Requests, UpsertPoint(r)
        PROVE  Overlap'
    BY <1>26 DEF UpsertPoint, Goto
  <1>27. ASSUME NEW r \in Requests, UpsertFails(r)
        PROVE  Overlap'
    BY <1>27 DEF UpsertFails, Goto, Fault
  <1>28. ASSUME NEW r \in Requests, DeleteNote(r)
        PROVE  Overlap'
    BY <1>28 DEF DeleteNote, Goto, Fault
  <1>29. ASSUME NEW r \in Requests, MarkFailed(r)
        PROVE  Overlap'
    BY <1>29 DEF MarkFailed, Done
  <1>30. ASSUME NEW r \in Requests, MarkIndexed(r)
        PROVE  Overlap'
    BY <1>30 DEF MarkIndexed, Done
  <1>31. ASSUME NEW r \in Requests, Abandon(r)
        PROVE  Overlap'
    BY <1>31 DEF Abandon, Done, Fault
  <1>32. CASE Crash
    BY <1>32 DEF Crash, Fault
  <1>33. CASE UNCHANGED vars
    BY <1>33 DEF vars
  <1> QED
    BY <1>1, <1>2, <1>3, <1>4, <1>5, <1>6, <1>7, <1>8, <1>9, <1>10, <1>11, <1>12, <1>13, <1>14, <1>15, <1>16, <1>17, <1>18, <1>19, <1>20, <1>21, <1>22, <1>23, <1>24, <1>25, <1>26, <1>27, <1>28, <1>29, <1>30, <1>31, <1>32, <1>33
    DEF Next, Patch, Delete, Unattach, Upload, Transcribe, Index

\* Ids of notes are drawn once.
LEMMA MemoryInductive ==
    ASSUME TypeOK, Belongs, Memory, [Next]_vars
    PROVE  Memory'
  <1> USE DEF stores, locals, ghosts, TypeOK, Belongs, Memory, There, NoRow
  <1>1. ASSUME NEW r \in Requests, NEW k \in Kinds, Begin(r, k)
        PROVE  Memory'
    BY <1>1 DEF Begin, Goto
  <1>2. ASSUME NEW r \in Requests, Refused(r)
        PROVE  Memory'
    BY <1>2 DEF Refused, Done
  <1>3. ASSUME NEW r \in Requests, ReadForPatch(r)
        PROVE  Memory'
    BY <1>3 DEF ReadForPatch, Goto
  <1>4. ASSUME NEW r \in Requests, CheckAttachments(r)
        PROVE  Memory'
    BY <1>4 DEF CheckAttachments, Goto, Done
  <1>5. ASSUME NEW r \in Requests, WritePatch(r)
        PROVE  Memory'
    BY <1>5 DEF WritePatch, Done
  <1>6. ASSUME NEW r \in Requests, ReadForDelete(r)
        PROVE  Memory'
    BY <1>6 DEF ReadForDelete, Goto
  <1>7. ASSUME NEW r \in Requests, ReadKeys(r)
        PROVE  Memory'
    BY <1>7 DEF ReadKeys, Goto
  <1>8. ASSUME NEW r \in Requests, Unlink(r)
        PROVE  Memory'
    BY <1>8 DEF Unlink, Goto, Fault
  <1>9. ASSUME NEW r \in Requests, DeleteRow(r)
        PROVE  Memory'
    BY <1>9 DEF DeleteRow, Done, Without
  <1>10. ASSUME NEW r \in Requests, ReadForUnattach(r)
        PROVE  Memory'
    BY <1>10 DEF ReadForUnattach, Goto
  <1>11. ASSUME NEW r \in Requests, ReadKey(r)
        PROVE  Memory'
    BY <1>11 DEF ReadKey, Goto, Done
  <1>12. ASSUME NEW r \in Requests, DeleteAttachment(r)
        PROVE  Memory'
    BY <1>12 DEF DeleteAttachment, Done, Without
  <1>13. ASSUME NEW r \in Requests, ReadForUpload(r)
        PROVE  Memory'
    BY <1>13 DEF ReadForUpload, Goto
  <1>14. ASSUME NEW r \in Requests, StoreFile(r)
        PROVE  Memory'
    BY <1>14 DEF StoreFile, Goto, Done, Fault
  <1>15. ASSUME NEW r \in Requests, InsertAttachment(r)
        PROVE  Memory'
    BY <1>15 DEF InsertAttachment, Done
  <1>16. ASSUME NEW r \in Requests, TakeBack(r)
        PROVE  Memory'
    BY <1>16 DEF TakeBack, Done, Fault
  <1>17. ASSUME NEW r \in Requests, ReadForTranscribe(r)
        PROVE  Memory'
    BY <1>17 DEF ReadForTranscribe, Goto
  <1>18. ASSUME NEW r \in Requests, Prepare(r)
        PROVE  Memory'
    BY <1>18 DEF Prepare, Goto, Done
  <1>19. ASSUME NEW r \in Requests, ReadAudio(r)
        PROVE  Memory'
    BY <1>19 DEF ReadAudio, Goto, Done
  <1>20. ASSUME NEW r \in Requests, NEW ok \in BOOLEAN, UpdateTranscript(r, ok)
        PROVE  Memory'
    BY <1>20 DEF UpdateTranscript, Done
  <1>21. ASSUME NEW r \in Requests, NEW ok \in BOOLEAN, InsertTranscript(r, ok)
        PROVE  Memory'
    BY <1>21 DEF InsertTranscript, Done
  <1>22. ASSUME NEW r \in Requests, ReadForIndex(r)
        PROVE  Memory'
    BY <1>22 DEF ReadForIndex, Goto
  <1>23. ASSUME NEW r \in Requests, ReadAttachments(r)
        PROVE  Memory'
    BY <1>23 DEF ReadAttachments, Goto
  <1>24. ASSUME NEW r \in Requests, NotReady(r)
        PROVE  Memory'
    BY <1>24 DEF NotReady, Done
  <1>25. ASSUME NEW r \in Requests, InsertNote(r)
        PROVE  Memory'
    <2>1. PICK n \in Notes : /\ said[n] = NoText /\ note' = [note EXCEPT ![r] = n]
                             /\ notes' = notes \cup {n}
                             /\ said' = [said EXCEPT ![n] = [words |-> words[r], heard |-> Heard]]
      BY <1>25 DEF InsertNote
    <2>2. said'[n] # NoText
      <3>1. said'[n].words = words[r] /\ said'[n].heard = Heard
        BY <2>1
      <3>2. words[r] # Blank \/ Heard # {}
        BY <1>25 DEF InsertNote, Ready
      <3> QED
        BY <3>1, <3>2 DEF NoText
    <2>3. \A m \in Notes : m # n => said'[m] = said[m]
      BY <2>1
    <2>4. n \notin notes \cup points /\ row.note # n /\ \A q \in Requests : note[q] # n
      BY <2>1
    <2>5. \A q \in Requests : note'[q] = IF q = r THEN n ELSE note[q]
      BY <2>1
    <2>6. \A q \in Requests : pc'[q] = IF q = r THEN "embed" ELSE pc[q]
      BY <1>25 DEF InsertNote, Goto
    <2>7. UNCHANGED <<row, points>>
      BY <1>25 DEF InsertNote
    <2> QED
      BY <2>1, <2>2, <2>3, <2>4, <2>5, <2>6, <2>7
  <1>26. ASSUME NEW r \in Requests, UpsertPoint(r)
        PROVE  Memory'
    BY <1>26 DEF UpsertPoint, Goto
  <1>27. ASSUME NEW r \in Requests, UpsertFails(r)
        PROVE  Memory'
    BY <1>27 DEF UpsertFails, Goto, Fault
  <1>28. ASSUME NEW r \in Requests, DeleteNote(r)
        PROVE  Memory'
    BY <1>28 DEF DeleteNote, Goto, Fault
  <1>29. ASSUME NEW r \in Requests, MarkFailed(r)
        PROVE  Memory'
    BY <1>29 DEF MarkFailed, Done
  <1>30. ASSUME NEW r \in Requests, MarkIndexed(r)
        PROVE  Memory'
    BY <1>30 DEF MarkIndexed, Done
  <1>31. ASSUME NEW r \in Requests, Abandon(r)
        PROVE  Memory'
    BY <1>31 DEF Abandon, Done, Fault
  <1>32. CASE Crash
    BY <1>32 DEF Crash, Fault
  <1>33. CASE UNCHANGED vars
    BY <1>33 DEF vars
  <1> QED
    BY <1>1, <1>2, <1>3, <1>4, <1>5, <1>6, <1>7, <1>8, <1>9, <1>10, <1>11, <1>12, <1>13, <1>14, <1>15, <1>16, <1>17, <1>18, <1>19, <1>20, <1>21, <1>22, <1>23, <1>24, <1>25, <1>26, <1>27, <1>28, <1>29, <1>30, <1>31, <1>32, <1>33
    DEF Next, Patch, Delete, Unattach, Upload, Transcribe, Index

\* An indexed capture names a note that nobody deletes.
LEMMA StandsInductive ==
    ASSUME TypeOK, Belongs, Memory, MemoryStands, [Next]_vars
    PROVE  MemoryStands'
  <1> USE DEF stores, locals, ghosts, TypeOK, Belongs, Memory, MemoryStands, There, NoRow
  <1>1. ASSUME NEW r \in Requests, NEW k \in Kinds, Begin(r, k)
        PROVE  MemoryStands'
    BY <1>1 DEF Begin, Goto
  <1>2. ASSUME NEW r \in Requests, Refused(r)
        PROVE  MemoryStands'
    BY <1>2 DEF Refused, Done
  <1>3. ASSUME NEW r \in Requests, ReadForPatch(r)
        PROVE  MemoryStands'
    BY <1>3 DEF ReadForPatch, Goto
  <1>4. ASSUME NEW r \in Requests, CheckAttachments(r)
        PROVE  MemoryStands'
    BY <1>4 DEF CheckAttachments, Goto, Done
  <1>5. ASSUME NEW r \in Requests, WritePatch(r)
        PROVE  MemoryStands'
    BY <1>5 DEF WritePatch, Done
  <1>6. ASSUME NEW r \in Requests, ReadForDelete(r)
        PROVE  MemoryStands'
    BY <1>6 DEF ReadForDelete, Goto
  <1>7. ASSUME NEW r \in Requests, ReadKeys(r)
        PROVE  MemoryStands'
    BY <1>7 DEF ReadKeys, Goto
  <1>8. ASSUME NEW r \in Requests, Unlink(r)
        PROVE  MemoryStands'
    BY <1>8 DEF Unlink, Goto, Fault
  <1>9. ASSUME NEW r \in Requests, DeleteRow(r)
        PROVE  MemoryStands'
    BY <1>9 DEF DeleteRow, Done, Without
  <1>10. ASSUME NEW r \in Requests, ReadForUnattach(r)
        PROVE  MemoryStands'
    BY <1>10 DEF ReadForUnattach, Goto
  <1>11. ASSUME NEW r \in Requests, ReadKey(r)
        PROVE  MemoryStands'
    BY <1>11 DEF ReadKey, Goto, Done
  <1>12. ASSUME NEW r \in Requests, DeleteAttachment(r)
        PROVE  MemoryStands'
    BY <1>12 DEF DeleteAttachment, Done, Without
  <1>13. ASSUME NEW r \in Requests, ReadForUpload(r)
        PROVE  MemoryStands'
    BY <1>13 DEF ReadForUpload, Goto
  <1>14. ASSUME NEW r \in Requests, StoreFile(r)
        PROVE  MemoryStands'
    BY <1>14 DEF StoreFile, Goto, Done, Fault
  <1>15. ASSUME NEW r \in Requests, InsertAttachment(r)
        PROVE  MemoryStands'
    BY <1>15 DEF InsertAttachment, Done
  <1>16. ASSUME NEW r \in Requests, TakeBack(r)
        PROVE  MemoryStands'
    BY <1>16 DEF TakeBack, Done, Fault
  <1>17. ASSUME NEW r \in Requests, ReadForTranscribe(r)
        PROVE  MemoryStands'
    BY <1>17 DEF ReadForTranscribe, Goto
  <1>18. ASSUME NEW r \in Requests, Prepare(r)
        PROVE  MemoryStands'
    BY <1>18 DEF Prepare, Goto, Done
  <1>19. ASSUME NEW r \in Requests, ReadAudio(r)
        PROVE  MemoryStands'
    BY <1>19 DEF ReadAudio, Goto, Done
  <1>20. ASSUME NEW r \in Requests, NEW ok \in BOOLEAN, UpdateTranscript(r, ok)
        PROVE  MemoryStands'
    BY <1>20 DEF UpdateTranscript, Done
  <1>21. ASSUME NEW r \in Requests, NEW ok \in BOOLEAN, InsertTranscript(r, ok)
        PROVE  MemoryStands'
    BY <1>21 DEF InsertTranscript, Done
  <1>22. ASSUME NEW r \in Requests, ReadForIndex(r)
        PROVE  MemoryStands'
    BY <1>22 DEF ReadForIndex, Goto
  <1>23. ASSUME NEW r \in Requests, ReadAttachments(r)
        PROVE  MemoryStands'
    BY <1>23 DEF ReadAttachments, Goto
  <1>24. ASSUME NEW r \in Requests, NotReady(r)
        PROVE  MemoryStands'
    BY <1>24 DEF NotReady, Done
  <1>25. ASSUME NEW r \in Requests, InsertNote(r)
        PROVE  MemoryStands'
    BY <1>25 DEF InsertNote, Goto
  <1>26. ASSUME NEW r \in Requests, UpsertPoint(r)
        PROVE  MemoryStands'
    BY <1>26 DEF UpsertPoint, Goto
  <1>27. ASSUME NEW r \in Requests, UpsertFails(r)
        PROVE  MemoryStands'
    BY <1>27 DEF UpsertFails, Goto, Fault
  <1>28. ASSUME NEW r \in Requests, DeleteNote(r)
        PROVE  MemoryStands'
    BY <1>28 DEF DeleteNote, Goto, Fault
  <1>29. ASSUME NEW r \in Requests, MarkFailed(r)
        PROVE  MemoryStands'
    BY <1>29 DEF MarkFailed, Done
  <1>30. ASSUME NEW r \in Requests, MarkIndexed(r)
        PROVE  MemoryStands'
    BY <1>30 DEF MarkIndexed, Done
  <1>31. ASSUME NEW r \in Requests, Abandon(r)
        PROVE  MemoryStands'
    BY <1>31 DEF Abandon, Done, Fault
  <1>32. CASE Crash
    BY <1>32 DEF Crash, Fault
  <1>33. CASE UNCHANGED vars
    BY <1>33 DEF vars
  <1> QED
    BY <1>1, <1>2, <1>3, <1>4, <1>5, <1>6, <1>7, <1>8, <1>9, <1>10, <1>11, <1>12, <1>13, <1>14, <1>15, <1>16, <1>17, <1>18, <1>19, <1>20, <1>21, <1>22, <1>23, <1>24, <1>25, <1>26, <1>27, <1>28, <1>29, <1>30, <1>31, <1>32, <1>33
    DEF Next, Patch, Delete, Unattach, Upload, Transcribe, Index

\* A capture that an index reads is there until a delete that overlaps it.
LEMMA StaysInductive ==
    ASSUME TypeOK, Belongs, Overlap, Stays, [Next]_vars
    PROVE  Stays'
  <1> USE DEF stores, locals, ghosts, TypeOK, Belongs, Overlap, Stays, There, NoRow, Kinds
  <1>1. ASSUME NEW r \in Requests, NEW k \in Kinds, Begin(r, k)
        PROVE  Stays'
    BY <1>1 DEF Begin, Goto, Active
  <1>2. ASSUME NEW r \in Requests, Refused(r)
        PROVE  Stays'
    BY <1>2 DEF Refused, Done
  <1>3. ASSUME NEW r \in Requests, ReadForPatch(r)
        PROVE  Stays'
    BY <1>3 DEF ReadForPatch, Goto
  <1>4. ASSUME NEW r \in Requests, CheckAttachments(r)
        PROVE  Stays'
    BY <1>4 DEF CheckAttachments, Goto, Done
  <1>5. ASSUME NEW r \in Requests, WritePatch(r)
        PROVE  Stays'
    BY <1>5 DEF WritePatch, Done
  <1>6. ASSUME NEW r \in Requests, ReadForDelete(r)
        PROVE  Stays'
    BY <1>6 DEF ReadForDelete, Goto
  <1>7. ASSUME NEW r \in Requests, ReadKeys(r)
        PROVE  Stays'
    BY <1>7 DEF ReadKeys, Goto
  <1>8. ASSUME NEW r \in Requests, Unlink(r)
        PROVE  Stays'
    BY <1>8 DEF Unlink, Goto, Fault
  <1>9. ASSUME NEW r \in Requests, DeleteRow(r)
        PROVE  Stays'
    BY <1>9 DEF DeleteRow, Done, Without
  <1>10. ASSUME NEW r \in Requests, ReadForUnattach(r)
        PROVE  Stays'
    BY <1>10 DEF ReadForUnattach, Goto
  <1>11. ASSUME NEW r \in Requests, ReadKey(r)
        PROVE  Stays'
    BY <1>11 DEF ReadKey, Goto, Done
  <1>12. ASSUME NEW r \in Requests, DeleteAttachment(r)
        PROVE  Stays'
    BY <1>12 DEF DeleteAttachment, Done, Without
  <1>13. ASSUME NEW r \in Requests, ReadForUpload(r)
        PROVE  Stays'
    BY <1>13 DEF ReadForUpload, Goto
  <1>14. ASSUME NEW r \in Requests, StoreFile(r)
        PROVE  Stays'
    BY <1>14 DEF StoreFile, Goto, Done, Fault
  <1>15. ASSUME NEW r \in Requests, InsertAttachment(r)
        PROVE  Stays'
    BY <1>15 DEF InsertAttachment, Done
  <1>16. ASSUME NEW r \in Requests, TakeBack(r)
        PROVE  Stays'
    BY <1>16 DEF TakeBack, Done, Fault
  <1>17. ASSUME NEW r \in Requests, ReadForTranscribe(r)
        PROVE  Stays'
    BY <1>17 DEF ReadForTranscribe, Goto
  <1>18. ASSUME NEW r \in Requests, Prepare(r)
        PROVE  Stays'
    BY <1>18 DEF Prepare, Goto, Done
  <1>19. ASSUME NEW r \in Requests, ReadAudio(r)
        PROVE  Stays'
    BY <1>19 DEF ReadAudio, Goto, Done
  <1>20. ASSUME NEW r \in Requests, NEW ok \in BOOLEAN, UpdateTranscript(r, ok)
        PROVE  Stays'
    BY <1>20 DEF UpdateTranscript, Done
  <1>21. ASSUME NEW r \in Requests, NEW ok \in BOOLEAN, InsertTranscript(r, ok)
        PROVE  Stays'
    BY <1>21 DEF InsertTranscript, Done
  <1>22. ASSUME NEW r \in Requests, ReadForIndex(r)
        PROVE  Stays'
    BY <1>22 DEF ReadForIndex, Goto, Open
  <1>23. ASSUME NEW r \in Requests, ReadAttachments(r)
        PROVE  Stays'
    BY <1>23 DEF ReadAttachments, Goto
  <1>24. ASSUME NEW r \in Requests, NotReady(r)
        PROVE  Stays'
    BY <1>24 DEF NotReady, Done
  <1>25. ASSUME NEW r \in Requests, InsertNote(r)
        PROVE  Stays'
    BY <1>25 DEF InsertNote, Goto
  <1>26. ASSUME NEW r \in Requests, UpsertPoint(r)
        PROVE  Stays'
    BY <1>26 DEF UpsertPoint, Goto
  <1>27. ASSUME NEW r \in Requests, UpsertFails(r)
        PROVE  Stays'
    BY <1>27 DEF UpsertFails, Goto, Fault
  <1>28. ASSUME NEW r \in Requests, DeleteNote(r)
        PROVE  Stays'
    BY <1>28 DEF DeleteNote, Goto, Fault
  <1>29. ASSUME NEW r \in Requests, MarkFailed(r)
        PROVE  Stays'
    BY <1>29 DEF MarkFailed, Done
  <1>30. ASSUME NEW r \in Requests, MarkIndexed(r)
        PROVE  Stays'
    BY <1>30 DEF MarkIndexed, Done
  <1>31. ASSUME NEW r \in Requests, Abandon(r)
        PROVE  Stays'
    BY <1>31 DEF Abandon, Done, Fault
  <1>32. CASE Crash
    BY <1>32 DEF Crash, Fault
  <1>33. CASE UNCHANGED vars
    BY <1>33 DEF vars
  <1> QED
    BY <1>1, <1>2, <1>3, <1>4, <1>5, <1>6, <1>7, <1>8, <1>9, <1>10, <1>11, <1>12, <1>13, <1>14, <1>15, <1>16, <1>17, <1>18, <1>19, <1>20, <1>21, <1>22, <1>23, <1>24, <1>25, <1>26, <1>27, <1>28, <1>29, <1>30, <1>31, <1>32, <1>33
    DEF Next, Patch, Delete, Unattach, Upload, Transcribe, Index

\* A capture whose note is not contested is read by no one who could change that.
LEMMA SettledInductive ==
    ASSUME TypeOK, Belongs, Overlap, Memory, Settled, [Next]_vars
    PROVE  Settled'
  <1> USE DEF stores, locals, ghosts, TypeOK, Belongs, Overlap, Settled, There, NoRow, Kinds
  <1>1. ASSUME NEW r \in Requests, NEW k \in Kinds, Begin(r, k)
        PROVE  Settled'
    BY <1>1 DEF Begin, Goto
  <1>2. ASSUME NEW r \in Requests, Refused(r)
        PROVE  Settled'
    BY <1>2 DEF Refused, Done
  <1>3. ASSUME NEW r \in Requests, ReadForPatch(r)
        PROVE  Settled'
    BY <1>3 DEF ReadForPatch, Goto
  <1>4. ASSUME NEW r \in Requests, CheckAttachments(r)
        PROVE  Settled'
    BY <1>4 DEF CheckAttachments, Goto, Done
  <1>5. ASSUME NEW r \in Requests, WritePatch(r)
        PROVE  Settled'
    BY <1>5 DEF WritePatch, Done
  <1>6. ASSUME NEW r \in Requests, ReadForDelete(r)
        PROVE  Settled'
    BY <1>6 DEF ReadForDelete, Goto, Open
  <1>7. ASSUME NEW r \in Requests, ReadKeys(r)
        PROVE  Settled'
    BY <1>7 DEF ReadKeys, Goto
  <1>8. ASSUME NEW r \in Requests, Unlink(r)
        PROVE  Settled'
    BY <1>8 DEF Unlink, Goto, Fault
  <1>9. ASSUME NEW r \in Requests, DeleteRow(r)
        PROVE  Settled'
    BY <1>9 DEF DeleteRow, Done, Without
  <1>10. ASSUME NEW r \in Requests, ReadForUnattach(r)
        PROVE  Settled'
    BY <1>10 DEF ReadForUnattach, Goto
  <1>11. ASSUME NEW r \in Requests, ReadKey(r)
        PROVE  Settled'
    BY <1>11 DEF ReadKey, Goto, Done
  <1>12. ASSUME NEW r \in Requests, DeleteAttachment(r)
        PROVE  Settled'
    BY <1>12 DEF DeleteAttachment, Done, Without
  <1>13. ASSUME NEW r \in Requests, ReadForUpload(r)
        PROVE  Settled'
    BY <1>13 DEF ReadForUpload, Goto
  <1>14. ASSUME NEW r \in Requests, StoreFile(r)
        PROVE  Settled'
    BY <1>14 DEF StoreFile, Goto, Done, Fault
  <1>15. ASSUME NEW r \in Requests, InsertAttachment(r)
        PROVE  Settled'
    BY <1>15 DEF InsertAttachment, Done
  <1>16. ASSUME NEW r \in Requests, TakeBack(r)
        PROVE  Settled'
    BY <1>16 DEF TakeBack, Done, Fault
  <1>17. ASSUME NEW r \in Requests, ReadForTranscribe(r)
        PROVE  Settled'
    BY <1>17 DEF ReadForTranscribe, Goto
  <1>18. ASSUME NEW r \in Requests, Prepare(r)
        PROVE  Settled'
    BY <1>18 DEF Prepare, Goto, Done
  <1>19. ASSUME NEW r \in Requests, ReadAudio(r)
        PROVE  Settled'
    BY <1>19 DEF ReadAudio, Goto, Done
  <1>20. ASSUME NEW r \in Requests, NEW ok \in BOOLEAN, UpdateTranscript(r, ok)
        PROVE  Settled'
    BY <1>20 DEF UpdateTranscript, Done
  <1>21. ASSUME NEW r \in Requests, NEW ok \in BOOLEAN, InsertTranscript(r, ok)
        PROVE  Settled'
    BY <1>21 DEF InsertTranscript, Done
  <1>22. ASSUME NEW r \in Requests, ReadForIndex(r)
        PROVE  Settled'
    BY <1>22 DEF ReadForIndex, Goto, Open
  <1>23. ASSUME NEW r \in Requests, ReadAttachments(r)
        PROVE  Settled'
    BY <1>23 DEF ReadAttachments, Goto
  <1>24. ASSUME NEW r \in Requests, NotReady(r)
        PROVE  Settled'
    BY <1>24 DEF NotReady, Done
  <1>25. ASSUME NEW r \in Requests, InsertNote(r)
        PROVE  Settled'
    BY <1>25 DEF InsertNote, Goto
  <1>26. ASSUME NEW r \in Requests, UpsertPoint(r)
        PROVE  Settled'
    BY <1>26 DEF UpsertPoint, Goto
  <1>27. ASSUME NEW r \in Requests, UpsertFails(r)
        PROVE  Settled'
    BY <1>27 DEF UpsertFails, Goto, Fault, Memory
  <1>28. ASSUME NEW r \in Requests, DeleteNote(r)
        PROVE  Settled'
    BY <1>28 DEF DeleteNote, Goto, Fault, Memory
  <1>29. ASSUME NEW r \in Requests, MarkFailed(r)
        PROVE  Settled'
    BY <1>29 DEF MarkFailed, Done
  <1>30. ASSUME NEW r \in Requests, MarkIndexed(r)
        PROVE  Settled'
    BY <1>30 DEF MarkIndexed, Done, Memory
  <1>31. ASSUME NEW r \in Requests, Abandon(r)
        PROVE  Settled'
    BY <1>31 DEF Abandon, Done, Fault, Held
  <1>32. CASE Crash
    BY <1>32 DEF Crash, Fault, Held
  <1>33. CASE UNCHANGED vars
    BY <1>33 DEF vars
  <1> QED
    BY <1>1, <1>2, <1>3, <1>4, <1>5, <1>6, <1>7, <1>8, <1>9, <1>10, <1>11, <1>12, <1>13, <1>14, <1>15, <1>16, <1>17, <1>18, <1>19, <1>20, <1>21, <1>22, <1>23, <1>24, <1>25, <1>26, <1>27, <1>28, <1>29, <1>30, <1>31, <1>32, <1>33
    DEF Next, Patch, Delete, Unattach, Upload, Transcribe, Index

\* What a failing index leaves is contested.
LEMMA CleanedInductive ==
    ASSUME TypeOK, Belongs, Memory, Cleaned, [Next]_vars
    PROVE  Cleaned'
  <1> USE DEF stores, locals, ghosts, TypeOK, Belongs, Memory, Cleaned
  <1>1. ASSUME NEW r \in Requests, NEW k \in Kinds, Begin(r, k)
        PROVE  Cleaned'
    BY <1>1 DEF Begin, Goto
  <1>2. ASSUME NEW r \in Requests, Refused(r)
        PROVE  Cleaned'
    BY <1>2 DEF Refused, Done
  <1>3. ASSUME NEW r \in Requests, ReadForPatch(r)
        PROVE  Cleaned'
    BY <1>3 DEF ReadForPatch, Goto
  <1>4. ASSUME NEW r \in Requests, CheckAttachments(r)
        PROVE  Cleaned'
    BY <1>4 DEF CheckAttachments, Goto, Done
  <1>5. ASSUME NEW r \in Requests, WritePatch(r)
        PROVE  Cleaned'
    BY <1>5 DEF WritePatch, Done
  <1>6. ASSUME NEW r \in Requests, ReadForDelete(r)
        PROVE  Cleaned'
    BY <1>6 DEF ReadForDelete, Goto
  <1>7. ASSUME NEW r \in Requests, ReadKeys(r)
        PROVE  Cleaned'
    BY <1>7 DEF ReadKeys, Goto
  <1>8. ASSUME NEW r \in Requests, Unlink(r)
        PROVE  Cleaned'
    BY <1>8 DEF Unlink, Goto, Fault
  <1>9. ASSUME NEW r \in Requests, DeleteRow(r)
        PROVE  Cleaned'
    BY <1>9 DEF DeleteRow, Done, Without
  <1>10. ASSUME NEW r \in Requests, ReadForUnattach(r)
        PROVE  Cleaned'
    BY <1>10 DEF ReadForUnattach, Goto
  <1>11. ASSUME NEW r \in Requests, ReadKey(r)
        PROVE  Cleaned'
    BY <1>11 DEF ReadKey, Goto, Done
  <1>12. ASSUME NEW r \in Requests, DeleteAttachment(r)
        PROVE  Cleaned'
    BY <1>12 DEF DeleteAttachment, Done, Without
  <1>13. ASSUME NEW r \in Requests, ReadForUpload(r)
        PROVE  Cleaned'
    BY <1>13 DEF ReadForUpload, Goto
  <1>14. ASSUME NEW r \in Requests, StoreFile(r)
        PROVE  Cleaned'
    BY <1>14 DEF StoreFile, Goto, Done, Fault
  <1>15. ASSUME NEW r \in Requests, InsertAttachment(r)
        PROVE  Cleaned'
    BY <1>15 DEF InsertAttachment, Done
  <1>16. ASSUME NEW r \in Requests, TakeBack(r)
        PROVE  Cleaned'
    BY <1>16 DEF TakeBack, Done, Fault
  <1>17. ASSUME NEW r \in Requests, ReadForTranscribe(r)
        PROVE  Cleaned'
    BY <1>17 DEF ReadForTranscribe, Goto
  <1>18. ASSUME NEW r \in Requests, Prepare(r)
        PROVE  Cleaned'
    BY <1>18 DEF Prepare, Goto, Done
  <1>19. ASSUME NEW r \in Requests, ReadAudio(r)
        PROVE  Cleaned'
    BY <1>19 DEF ReadAudio, Goto, Done
  <1>20. ASSUME NEW r \in Requests, NEW ok \in BOOLEAN, UpdateTranscript(r, ok)
        PROVE  Cleaned'
    BY <1>20 DEF UpdateTranscript, Done
  <1>21. ASSUME NEW r \in Requests, NEW ok \in BOOLEAN, InsertTranscript(r, ok)
        PROVE  Cleaned'
    BY <1>21 DEF InsertTranscript, Done
  <1>22. ASSUME NEW r \in Requests, ReadForIndex(r)
        PROVE  Cleaned'
    BY <1>22 DEF ReadForIndex, Goto
  <1>23. ASSUME NEW r \in Requests, ReadAttachments(r)
        PROVE  Cleaned'
    BY <1>23 DEF ReadAttachments, Goto
  <1>24. ASSUME NEW r \in Requests, NotReady(r)
        PROVE  Cleaned'
    BY <1>24 DEF NotReady, Done
  <1>25. ASSUME NEW r \in Requests, InsertNote(r)
        PROVE  Cleaned'
    <2>1. PICK n \in Notes : /\ said[n] = NoText /\ note' = [note EXCEPT ![r] = n]
                             /\ notes' = notes \cup {n}
                             /\ said' = [said EXCEPT ![n] = [words |-> words[r], heard |-> Heard]]
      BY <1>25 DEF InsertNote
    <2>2. n \notin points
      BY <2>1
    <2>3. \A q \in Requests : note'[q] = IF q = r THEN n ELSE note[q]
      BY <2>1
    <2>4. \A q \in Requests : note[q] # n
      BY <2>1
    <2> QED
      BY <1>25, <2>1, <2>2, <2>3, <2>4 DEF InsertNote, Goto
  <1>26. ASSUME NEW r \in Requests, UpsertPoint(r)
        PROVE  Cleaned'
    BY <1>26 DEF UpsertPoint, Goto
  <1>27. ASSUME NEW r \in Requests, UpsertFails(r)
        PROVE  Cleaned'
    BY <1>27 DEF UpsertFails, Goto, Fault
  <1>28. ASSUME NEW r \in Requests, DeleteNote(r)
        PROVE  Cleaned'
    BY <1>28 DEF DeleteNote, Goto, Fault
  <1>29. ASSUME NEW r \in Requests, MarkFailed(r)
        PROVE  Cleaned'
    BY <1>29 DEF MarkFailed, Done
  <1>30. ASSUME NEW r \in Requests, MarkIndexed(r)
        PROVE  Cleaned'
    BY <1>30 DEF MarkIndexed, Done
  <1>31. ASSUME NEW r \in Requests, Abandon(r)
        PROVE  Cleaned'
    BY <1>31 DEF Abandon, Done, Fault
  <1>32. CASE Crash
    BY <1>32 DEF Crash, Fault
  <1>33. CASE UNCHANGED vars
    BY <1>33 DEF vars
  <1> QED
    BY <1>1, <1>2, <1>3, <1>4, <1>5, <1>6, <1>7, <1>8, <1>9, <1>10, <1>11, <1>12, <1>13, <1>14, <1>15, <1>16, <1>17, <1>18, <1>19, <1>20, <1>21, <1>22, <1>23, <1>24, <1>25, <1>26, <1>27, <1>28, <1>29, <1>30, <1>31, <1>32, <1>33
    DEF Next, Patch, Delete, Unattach, Upload, Transcribe, Index

\* A note or a point is the one the capture names or one in hand.
LEMMA OnlyMemoryInductive ==
    ASSUME TypeOK, Belongs, Memory, Settled, Stays, Cleaned, OnlyMemory, [Next]_vars
    PROVE  OnlyMemory'
  <1> USE DEF stores, locals, ghosts, TypeOK, Belongs, OnlyMemory
  <1>1. ASSUME NEW r \in Requests, NEW k \in Kinds, Begin(r, k)
        PROVE  OnlyMemory'
    BY <1>1 DEF Begin, Goto
  <1>2. ASSUME NEW r \in Requests, Refused(r)
        PROVE  OnlyMemory'
    BY <1>2 DEF Refused, Done
  <1>3. ASSUME NEW r \in Requests, ReadForPatch(r)
        PROVE  OnlyMemory'
    BY <1>3 DEF ReadForPatch, Goto
  <1>4. ASSUME NEW r \in Requests, CheckAttachments(r)
        PROVE  OnlyMemory'
    BY <1>4 DEF CheckAttachments, Goto, Done
  <1>5. ASSUME NEW r \in Requests, WritePatch(r)
        PROVE  OnlyMemory'
    BY <1>5 DEF WritePatch, Done, There
  <1>6. ASSUME NEW r \in Requests, ReadForDelete(r)
        PROVE  OnlyMemory'
    BY <1>6 DEF ReadForDelete, Goto
  <1>7. ASSUME NEW r \in Requests, ReadKeys(r)
        PROVE  OnlyMemory'
    BY <1>7 DEF ReadKeys, Goto
  <1>8. ASSUME NEW r \in Requests, Unlink(r)
        PROVE  OnlyMemory'
    BY <1>8 DEF Unlink, Goto, Fault
  <1>9. ASSUME NEW r \in Requests, DeleteRow(r)
        PROVE  OnlyMemory'
    BY <1>9 DEF DeleteRow, Done, Without, Settled, NoRow
  <1>10. ASSUME NEW r \in Requests, ReadForUnattach(r)
        PROVE  OnlyMemory'
    BY <1>10 DEF ReadForUnattach, Goto
  <1>11. ASSUME NEW r \in Requests, ReadKey(r)
        PROVE  OnlyMemory'
    BY <1>11 DEF ReadKey, Goto, Done
  <1>12. ASSUME NEW r \in Requests, DeleteAttachment(r)
        PROVE  OnlyMemory'
    BY <1>12 DEF DeleteAttachment, Done, Without
  <1>13. ASSUME NEW r \in Requests, ReadForUpload(r)
        PROVE  OnlyMemory'
    BY <1>13 DEF ReadForUpload, Goto
  <1>14. ASSUME NEW r \in Requests, StoreFile(r)
        PROVE  OnlyMemory'
    BY <1>14 DEF StoreFile, Goto, Done, Fault
  <1>15. ASSUME NEW r \in Requests, InsertAttachment(r)
        PROVE  OnlyMemory'
    BY <1>15 DEF InsertAttachment, Done
  <1>16. ASSUME NEW r \in Requests, TakeBack(r)
        PROVE  OnlyMemory'
    BY <1>16 DEF TakeBack, Done, Fault
  <1>17. ASSUME NEW r \in Requests, ReadForTranscribe(r)
        PROVE  OnlyMemory'
    BY <1>17 DEF ReadForTranscribe, Goto
  <1>18. ASSUME NEW r \in Requests, Prepare(r)
        PROVE  OnlyMemory'
    BY <1>18 DEF Prepare, Goto, Done
  <1>19. ASSUME NEW r \in Requests, ReadAudio(r)
        PROVE  OnlyMemory'
    BY <1>19 DEF ReadAudio, Goto, Done
  <1>20. ASSUME NEW r \in Requests, NEW ok \in BOOLEAN, UpdateTranscript(r, ok)
        PROVE  OnlyMemory'
    BY <1>20 DEF UpdateTranscript, Done
  <1>21. ASSUME NEW r \in Requests, NEW ok \in BOOLEAN, InsertTranscript(r, ok)
        PROVE  OnlyMemory'
    BY <1>21 DEF InsertTranscript, Done
  <1>22. ASSUME NEW r \in Requests, ReadForIndex(r)
        PROVE  OnlyMemory'
    BY <1>22 DEF ReadForIndex, Goto
  <1>23. ASSUME NEW r \in Requests, ReadAttachments(r)
        PROVE  OnlyMemory'
    BY <1>23 DEF ReadAttachments, Goto
  <1>24. ASSUME NEW r \in Requests, NotReady(r)
        PROVE  OnlyMemory'
    BY <1>24 DEF NotReady, Done
  <1>25. ASSUME NEW r \in Requests, InsertNote(r)
        PROVE  OnlyMemory'
    BY <1>25 DEF InsertNote, Goto
  <1>26. ASSUME NEW r \in Requests, UpsertPoint(r)
        PROVE  OnlyMemory'
    BY <1>26 DEF UpsertPoint, Goto
  <1>27. ASSUME NEW r \in Requests, UpsertFails(r)
        PROVE  OnlyMemory'
    BY <1>27 DEF UpsertFails, Goto, Fault
  <1>28. ASSUME NEW r \in Requests, DeleteNote(r)
        PROVE  OnlyMemory'
    BY <1>28 DEF DeleteNote, Goto, Fault
  <1>29. ASSUME NEW r \in Requests, MarkFailed(r)
        PROVE  OnlyMemory'
    BY <1>29 DEF MarkFailed, Done, Cleaned, There
  <1>30. ASSUME NEW r \in Requests, MarkIndexed(r)
        PROVE  OnlyMemory'
    BY <1>30 DEF MarkIndexed, Done, Stays, Settled, There
  <1>31. ASSUME NEW r \in Requests, Abandon(r)
        PROVE  OnlyMemory'
    BY <1>31 DEF Abandon, Done, Fault, Held
  <1>32. CASE Crash
    BY <1>32 DEF Crash, Fault, Held
  <1>33. CASE UNCHANGED vars
    BY <1>33 DEF vars
  <1> QED
    BY <1>1, <1>2, <1>3, <1>4, <1>5, <1>6, <1>7, <1>8, <1>9, <1>10, <1>11, <1>12, <1>13, <1>14, <1>15, <1>16, <1>17, <1>18, <1>19, <1>20, <1>21, <1>22, <1>23, <1>24, <1>25, <1>26, <1>27, <1>28, <1>29, <1>30, <1>31, <1>32, <1>33
    DEF Next, Patch, Delete, Unattach, Upload, Transcribe, Index

\* Ids of attachments are drawn once.
LEMMA FreshInductive ==
    ASSUME TypeOK, Belongs, Fresh, [Next]_vars
    PROVE  Fresh'
  <1> USE DEF stores, locals, ghosts, TypeOK, Belongs, Fresh, Kinds
  <1>1. ASSUME NEW r \in Requests, NEW k \in Kinds, Begin(r, k)
        PROVE  Fresh'
    BY <1>1 DEF Begin, Goto
  <1>2. ASSUME NEW r \in Requests, Refused(r)
        PROVE  Fresh'
    BY <1>2 DEF Refused, Done
  <1>3. ASSUME NEW r \in Requests, ReadForPatch(r)
        PROVE  Fresh'
    BY <1>3 DEF ReadForPatch, Goto
  <1>4. ASSUME NEW r \in Requests, CheckAttachments(r)
        PROVE  Fresh'
    BY <1>4 DEF CheckAttachments, Goto, Done
  <1>5. ASSUME NEW r \in Requests, WritePatch(r)
        PROVE  Fresh'
    BY <1>5 DEF WritePatch, Done
  <1>6. ASSUME NEW r \in Requests, ReadForDelete(r)
        PROVE  Fresh'
    BY <1>6 DEF ReadForDelete, Goto
  <1>7. ASSUME NEW r \in Requests, ReadKeys(r)
        PROVE  Fresh'
    BY <1>7 DEF ReadKeys, Goto
  <1>8. ASSUME NEW r \in Requests, Unlink(r)
        PROVE  Fresh'
    BY <1>8 DEF Unlink, Goto, Fault
  <1>9. ASSUME NEW r \in Requests, DeleteRow(r)
        PROVE  Fresh'
    BY <1>9 DEF DeleteRow, Done, Without
  <1>10. ASSUME NEW r \in Requests, ReadForUnattach(r)
        PROVE  Fresh'
    BY <1>10 DEF ReadForUnattach, Goto
  <1>11. ASSUME NEW r \in Requests, ReadKey(r)
        PROVE  Fresh'
    BY <1>11 DEF ReadKey, Goto, Done
  <1>12. ASSUME NEW r \in Requests, DeleteAttachment(r)
        PROVE  Fresh'
    BY <1>12 DEF DeleteAttachment, Done, Without
  <1>13. ASSUME NEW r \in Requests, ReadForUpload(r)
        PROVE  Fresh'
    BY <1>13 DEF ReadForUpload, Goto
  <1>14. ASSUME NEW r \in Requests, StoreFile(r)
        PROVE  Fresh'
    BY <1>14 DEF StoreFile, Goto, Done, Fault
  <1>15. ASSUME NEW r \in Requests, InsertAttachment(r)
        PROVE  Fresh'
    BY <1>15 DEF InsertAttachment, Done
  <1>16. ASSUME NEW r \in Requests, TakeBack(r)
        PROVE  Fresh'
    BY <1>16 DEF TakeBack, Done, Fault
  <1>17. ASSUME NEW r \in Requests, ReadForTranscribe(r)
        PROVE  Fresh'
    BY <1>17 DEF ReadForTranscribe, Goto
  <1>18. ASSUME NEW r \in Requests, Prepare(r)
        PROVE  Fresh'
    BY <1>18 DEF Prepare, Goto, Done, Latest, TranscriptsOf
  <1>19. ASSUME NEW r \in Requests, ReadAudio(r)
        PROVE  Fresh'
    BY SMTT(40), <1>19 DEF ReadAudio, Goto, Done
  <1>20. ASSUME NEW r \in Requests, NEW ok \in BOOLEAN, UpdateTranscript(r, ok)
        PROVE  Fresh'
    BY <1>20 DEF UpdateTranscript, Done
  <1>21. ASSUME NEW r \in Requests, NEW ok \in BOOLEAN, InsertTranscript(r, ok)
        PROVE  Fresh'
    BY <1>21 DEF InsertTranscript, Done
  <1>22. ASSUME NEW r \in Requests, ReadForIndex(r)
        PROVE  Fresh'
    BY <1>22 DEF ReadForIndex, Goto
  <1>23. ASSUME NEW r \in Requests, ReadAttachments(r)
        PROVE  Fresh'
    BY <1>23 DEF ReadAttachments, Goto
  <1>24. ASSUME NEW r \in Requests, NotReady(r)
        PROVE  Fresh'
    BY <1>24 DEF NotReady, Done
  <1>25. ASSUME NEW r \in Requests, InsertNote(r)
        PROVE  Fresh'
    BY <1>25 DEF InsertNote, Goto
  <1>26. ASSUME NEW r \in Requests, UpsertPoint(r)
        PROVE  Fresh'
    BY <1>26 DEF UpsertPoint, Goto
  <1>27. ASSUME NEW r \in Requests, UpsertFails(r)
        PROVE  Fresh'
    BY <1>27 DEF UpsertFails, Goto, Fault
  <1>28. ASSUME NEW r \in Requests, DeleteNote(r)
        PROVE  Fresh'
    BY <1>28 DEF DeleteNote, Goto, Fault
  <1>29. ASSUME NEW r \in Requests, MarkFailed(r)
        PROVE  Fresh'
    BY <1>29 DEF MarkFailed, Done
  <1>30. ASSUME NEW r \in Requests, MarkIndexed(r)
        PROVE  Fresh'
    BY <1>30 DEF MarkIndexed, Done
  <1>31. ASSUME NEW r \in Requests, Abandon(r)
        PROVE  Fresh'
    BY <1>31 DEF Abandon, Done, Fault
  <1>32. CASE Crash
    BY <1>32 DEF Crash, Fault
  <1>33. CASE UNCHANGED vars
    BY <1>33 DEF vars
  <1> QED
    BY <1>1, <1>2, <1>3, <1>4, <1>5, <1>6, <1>7, <1>8, <1>9, <1>10, <1>11, <1>12, <1>13, <1>14, <1>15, <1>16, <1>17, <1>18, <1>19, <1>20, <1>21, <1>22, <1>23, <1>24, <1>25, <1>26, <1>27, <1>28, <1>29, <1>30, <1>31, <1>32, <1>33
    DEF Next, Patch, Delete, Unattach, Upload, Transcribe, Index

\* No request removes the bytes of an attachment whose row is yet to come.
LEMMA BytesInductive ==
    ASSUME TypeOK, Belongs, Overlap, Fresh, Bytes, [Next]_vars
    PROVE  Bytes'
  <1> USE DEF stores, locals, ghosts, TypeOK, Belongs, Overlap, Fresh, Bytes
  <1>1. ASSUME NEW r \in Requests, NEW k \in Kinds, Begin(r, k)
        PROVE  Bytes'
    BY <1>1 DEF Begin, Goto
  <1>2. ASSUME NEW r \in Requests, Refused(r)
        PROVE  Bytes'
    BY <1>2 DEF Refused, Done
  <1>3. ASSUME NEW r \in Requests, ReadForPatch(r)
        PROVE  Bytes'
    BY <1>3 DEF ReadForPatch, Goto
  <1>4. ASSUME NEW r \in Requests, CheckAttachments(r)
        PROVE  Bytes'
    BY <1>4 DEF CheckAttachments, Goto, Done
  <1>5. ASSUME NEW r \in Requests, WritePatch(r)
        PROVE  Bytes'
    BY <1>5 DEF WritePatch, Done
  <1>6. ASSUME NEW r \in Requests, ReadForDelete(r)
        PROVE  Bytes'
    BY <1>6 DEF ReadForDelete, Goto
  <1>7. ASSUME NEW r \in Requests, ReadKeys(r)
        PROVE  Bytes'
    BY <1>7 DEF ReadKeys, Goto
  <1>8. ASSUME NEW r \in Requests, Unlink(r)
        PROVE  Bytes'
    BY <1>8 DEF Unlink, Goto, Fault
  <1>9. ASSUME NEW r \in Requests, DeleteRow(r)
        PROVE  Bytes'
    BY <1>9 DEF DeleteRow, Done, Without
  <1>10. ASSUME NEW r \in Requests, ReadForUnattach(r)
        PROVE  Bytes'
    BY <1>10 DEF ReadForUnattach, Goto
  <1>11. ASSUME NEW r \in Requests, ReadKey(r)
        PROVE  Bytes'
    BY <1>11 DEF ReadKey, Goto, Done
  <1>12. ASSUME NEW r \in Requests, DeleteAttachment(r)
        PROVE  Bytes'
    BY <1>12 DEF DeleteAttachment, Done, Without
  <1>13. ASSUME NEW r \in Requests, ReadForUpload(r)
        PROVE  Bytes'
    BY <1>13 DEF ReadForUpload, Goto
  <1>14. ASSUME NEW r \in Requests, StoreFile(r)
        PROVE  Bytes'
    BY <1>14 DEF StoreFile, Goto, Done, Fault
  <1>15. ASSUME NEW r \in Requests, InsertAttachment(r)
        PROVE  Bytes'
    BY <1>15 DEF InsertAttachment, Done
  <1>16. ASSUME NEW r \in Requests, TakeBack(r)
        PROVE  Bytes'
    BY <1>16 DEF TakeBack, Done, Fault
  <1>17. ASSUME NEW r \in Requests, ReadForTranscribe(r)
        PROVE  Bytes'
    BY <1>17 DEF ReadForTranscribe, Goto
  <1>18. ASSUME NEW r \in Requests, Prepare(r)
        PROVE  Bytes'
    BY <1>18 DEF Prepare, Goto, Done
  <1>19. ASSUME NEW r \in Requests, ReadAudio(r)
        PROVE  Bytes'
    BY <1>19 DEF ReadAudio, Goto, Done
  <1>20. ASSUME NEW r \in Requests, NEW ok \in BOOLEAN, UpdateTranscript(r, ok)
        PROVE  Bytes'
    BY <1>20 DEF UpdateTranscript, Done
  <1>21. ASSUME NEW r \in Requests, NEW ok \in BOOLEAN, InsertTranscript(r, ok)
        PROVE  Bytes'
    BY <1>21 DEF InsertTranscript, Done
  <1>22. ASSUME NEW r \in Requests, ReadForIndex(r)
        PROVE  Bytes'
    BY <1>22 DEF ReadForIndex, Goto
  <1>23. ASSUME NEW r \in Requests, ReadAttachments(r)
        PROVE  Bytes'
    BY <1>23 DEF ReadAttachments, Goto
  <1>24. ASSUME NEW r \in Requests, NotReady(r)
        PROVE  Bytes'
    BY <1>24 DEF NotReady, Done
  <1>25. ASSUME NEW r \in Requests, InsertNote(r)
        PROVE  Bytes'
    BY <1>25 DEF InsertNote, Goto
  <1>26. ASSUME NEW r \in Requests, UpsertPoint(r)
        PROVE  Bytes'
    BY <1>26 DEF UpsertPoint, Goto
  <1>27. ASSUME NEW r \in Requests, UpsertFails(r)
        PROVE  Bytes'
    BY <1>27 DEF UpsertFails, Goto, Fault
  <1>28. ASSUME NEW r \in Requests, DeleteNote(r)
        PROVE  Bytes'
    BY <1>28 DEF DeleteNote, Goto, Fault
  <1>29. ASSUME NEW r \in Requests, MarkFailed(r)
        PROVE  Bytes'
    BY <1>29 DEF MarkFailed, Done
  <1>30. ASSUME NEW r \in Requests, MarkIndexed(r)
        PROVE  Bytes'
    BY <1>30 DEF MarkIndexed, Done
  <1>31. ASSUME NEW r \in Requests, Abandon(r)
        PROVE  Bytes'
    BY <1>31 DEF Abandon, Done, Fault
  <1>32. CASE Crash
    BY <1>32 DEF Crash, Fault
  <1>33. CASE UNCHANGED vars
    BY <1>33 DEF vars
  <1> QED
    BY <1>1, <1>2, <1>3, <1>4, <1>5, <1>6, <1>7, <1>8, <1>9, <1>10, <1>11, <1>12, <1>13, <1>14, <1>15, <1>16, <1>17, <1>18, <1>19, <1>20, <1>21, <1>22, <1>23, <1>24, <1>25, <1>26, <1>27, <1>28, <1>29, <1>30, <1>31, <1>32, <1>33
    DEF Next, Patch, Delete, Unattach, Upload, Transcribe, Index

\* Rows and bytes change together, but for what a request has in hand.
LEMMA FilesMatchInductive ==
    ASSUME TypeOK, Belongs, Fresh, Bytes, FilesMatch, [Next]_vars
    PROVE  FilesMatch'
  <1> USE DEF stores, locals, ghosts, TypeOK, Belongs, Fresh, Bytes, FilesMatch, Touched, Kinds
  <1>1. ASSUME NEW r \in Requests, NEW k \in Kinds, Begin(r, k)
        PROVE  FilesMatch'
    BY <1>1 DEF Begin, Goto
  <1>2. ASSUME NEW r \in Requests, Refused(r)
        PROVE  FilesMatch'
    BY <1>2 DEF Refused, Done
  <1>3. ASSUME NEW r \in Requests, ReadForPatch(r)
        PROVE  FilesMatch'
    BY <1>3 DEF ReadForPatch, Goto
  <1>4. ASSUME NEW r \in Requests, CheckAttachments(r)
        PROVE  FilesMatch'
    BY <1>4 DEF CheckAttachments, Goto, Done
  <1>5. ASSUME NEW r \in Requests, WritePatch(r)
        PROVE  FilesMatch'
    BY <1>5 DEF WritePatch, Done
  <1>6. ASSUME NEW r \in Requests, ReadForDelete(r)
        PROVE  FilesMatch'
    BY <1>6 DEF ReadForDelete, Goto
  <1>7. ASSUME NEW r \in Requests, ReadKeys(r)
        PROVE  FilesMatch'
    BY <1>7 DEF ReadKeys, Goto
  <1>8. ASSUME NEW r \in Requests, Unlink(r)
        PROVE  FilesMatch'
    BY <1>8 DEF Unlink, Goto, Fault
  <1>9. ASSUME NEW r \in Requests, DeleteRow(r)
        PROVE  FilesMatch'
    BY <1>9 DEF DeleteRow, Done, Without
  <1>10. ASSUME NEW r \in Requests, ReadForUnattach(r)
        PROVE  FilesMatch'
    BY <1>10 DEF ReadForUnattach, Goto
  <1>11. ASSUME NEW r \in Requests, ReadKey(r)
        PROVE  FilesMatch'
    BY <1>11 DEF ReadKey, Goto, Done
  <1>12. ASSUME NEW r \in Requests, DeleteAttachment(r)
        PROVE  FilesMatch'
    <2>1. atts' = atts \ keys[r] /\ UNCHANGED <<files, torn>>
      BY <1>12 DEF DeleteAttachment
    <2>2. keys[r] \cap files \subseteq torn
      BY <1>12 DEF DeleteAttachment
    <2>3. \A q \in Requests : Touched(q) \subseteq Touched(q)' \/ q = r
      BY <1>12 DEF DeleteAttachment, Done
    <2>4. Touched(r) = keys[r]
      BY <1>12 DEF DeleteAttachment
    <2>5. UNION {Touched(q) : q \in Requests} \subseteq keys[r] \cup UNION {Touched(q)' : q \in Requests}
      BY <2>3, <2>4
    <2> HIDE DEF Touched
    <2> QED
      BY <2>1, <2>2, <2>5
  <1>13. ASSUME NEW r \in Requests, ReadForUpload(r)
        PROVE  FilesMatch'
    BY <1>13 DEF ReadForUpload, Goto
  <1>14. ASSUME NEW r \in Requests, StoreFile(r)
        PROVE  FilesMatch'
    <2>1. UNCHANGED <<row, atts, trs, inserted, notes, points, said, drawn, asked>>
      BY <1>14 DEF StoreFile
    <2>2. CASE /\ files' = files \cup {target[r]} /\ Goto(r, "insert")
               /\ UNCHANGED <<kind, target, keys, words, into, note, over, torn>>
      BY <1>14, <2>1, <2>2 DEF StoreFile, Goto
    <2>3. CASE /\ Done(r) /\ torn' = torn \cup {target[r]}
               /\ files' \in {files, files \cup {target[r]}}
      BY <1>14, <2>1, <2>3 DEF StoreFile, Done
    <2> QED
      BY <1>14, <2>2, <2>3 DEF StoreFile
  <1>15. ASSUME NEW r \in Requests, InsertAttachment(r)
        PROVE  FilesMatch'
    BY <1>15 DEF InsertAttachment, Done
  <1>16. ASSUME NEW r \in Requests, TakeBack(r)
        PROVE  FilesMatch'
    BY <1>16 DEF TakeBack, Done, Fault
  <1>17. ASSUME NEW r \in Requests, ReadForTranscribe(r)
        PROVE  FilesMatch'
    BY <1>17 DEF ReadForTranscribe, Goto
  <1>18. ASSUME NEW r \in Requests, Prepare(r)
        PROVE  FilesMatch'
    BY <1>18 DEF Prepare, Goto, Done, Latest, TranscriptsOf
  <1>19. ASSUME NEW r \in Requests, ReadAudio(r)
        PROVE  FilesMatch'
    BY <1>19 DEF ReadAudio, Goto, Done
  <1>20. ASSUME NEW r \in Requests, NEW ok \in BOOLEAN, UpdateTranscript(r, ok)
        PROVE  FilesMatch'
    BY <1>20 DEF UpdateTranscript, Done
  <1>21. ASSUME NEW r \in Requests, NEW ok \in BOOLEAN, InsertTranscript(r, ok)
        PROVE  FilesMatch'
    BY <1>21 DEF InsertTranscript, Done
  <1>22. ASSUME NEW r \in Requests, ReadForIndex(r)
        PROVE  FilesMatch'
    BY <1>22 DEF ReadForIndex, Goto
  <1>23. ASSUME NEW r \in Requests, ReadAttachments(r)
        PROVE  FilesMatch'
    BY <1>23 DEF ReadAttachments, Goto
  <1>24. ASSUME NEW r \in Requests, NotReady(r)
        PROVE  FilesMatch'
    BY <1>24 DEF NotReady, Done
  <1>25. ASSUME NEW r \in Requests, InsertNote(r)
        PROVE  FilesMatch'
    BY <1>25 DEF InsertNote, Goto
  <1>26. ASSUME NEW r \in Requests, UpsertPoint(r)
        PROVE  FilesMatch'
    BY <1>26 DEF UpsertPoint, Goto
  <1>27. ASSUME NEW r \in Requests, UpsertFails(r)
        PROVE  FilesMatch'
    BY <1>27 DEF UpsertFails, Goto, Fault
  <1>28. ASSUME NEW r \in Requests, DeleteNote(r)
        PROVE  FilesMatch'
    BY <1>28 DEF DeleteNote, Goto, Fault
  <1>29. ASSUME NEW r \in Requests, MarkFailed(r)
        PROVE  FilesMatch'
    BY <1>29 DEF MarkFailed, Done
  <1>30. ASSUME NEW r \in Requests, MarkIndexed(r)
        PROVE  FilesMatch'
    BY <1>30 DEF MarkIndexed, Done
  <1>31. ASSUME NEW r \in Requests, Abandon(r)
        PROVE  FilesMatch'
    BY <1>31 DEF Abandon, Done, Fault
  <1>32. CASE Crash
    BY <1>32 DEF Crash, Fault
  <1>33. CASE UNCHANGED vars
    BY <1>33 DEF vars
  <1> QED
    BY <1>1, <1>2, <1>3, <1>4, <1>5, <1>6, <1>7, <1>8, <1>9, <1>10, <1>11, <1>12, <1>13, <1>14, <1>15, <1>16, <1>17, <1>18, <1>19, <1>20, <1>21, <1>22, <1>23, <1>24, <1>25, <1>26, <1>27, <1>28, <1>29, <1>30, <1>31, <1>32, <1>33
    DEF Next, Patch, Delete, Unattach, Upload, Transcribe, Index

\* Nobody changes what an index has read, unless an edit overlaps it.
LEMMA SeenInductive ==
    ASSUME TypeOK, Belongs, Overlap, Memory, Seen, [Next]_vars
    PROVE  Seen'
  <1> USE DEF stores, locals, ghosts, TypeOK, Belongs, Overlap, There, NoRow, Kinds, Seen, Heedful, Edits, Content, Heard, Spoken, TranscriptsOf
  <1>1. ASSUME NEW r \in Requests, NEW k \in Kinds, Begin(r, k)
        PROVE  Seen'
    <2>1. \A q \in Requests : q # r => pc'[q] = pc[q] /\ kind'[q] = kind[q]
      BY <1>1 DEF Begin, Goto
    <2>2. \A q \in Requests : q # r /\ kind[q] # None => over[q] \subseteq over'[q]
      BY <1>1 DEF Begin, Active
    <2>3. pc'[r] = "read"
      BY <1>1 DEF Begin, Goto
    <2>4. UNCHANGED <<stores, keys, words, note>>
      BY <1>1 DEF Begin
    <2>5. ASSUME NEW q \in Requests, q # r, Heedful(q)'
          PROVE  Heedful(q)
      <3>1. kind[q] = "index" /\ There
        BY <2>1, <2>4, <2>5
      <3>2. over[q] \subseteq over'[q]
        BY <2>2, <2>5, <3>1
      <3>3. over'[q] \cap Edits = {}
        BY <2>5
      <3> QED
        BY <3>1, <3>2, <3>3
    <2> QED
      BY <2>1, <2>3, <2>4, <2>5
  <1>2. ASSUME NEW r \in Requests, Refused(r)
        PROVE  Seen'
    BY <1>2 DEF Refused, Done
  <1>3. ASSUME NEW r \in Requests, ReadForPatch(r)
        PROVE  Seen'
    BY <1>3 DEF ReadForPatch, Goto
  <1>4. ASSUME NEW r \in Requests, CheckAttachments(r)
        PROVE  Seen'
    BY <1>4 DEF CheckAttachments, Goto, Done
  <1>5. ASSUME NEW r \in Requests, WritePatch(r)
        PROVE  Seen'
    BY <1>5 DEF WritePatch, Done
  <1>6. ASSUME NEW r \in Requests, ReadForDelete(r)
        PROVE  Seen'
    BY <1>6 DEF ReadForDelete, Goto
  <1>7. ASSUME NEW r \in Requests, ReadKeys(r)
        PROVE  Seen'
    BY <1>7 DEF ReadKeys, Goto
  <1>8. ASSUME NEW r \in Requests, Unlink(r)
        PROVE  Seen'
    BY <1>8 DEF Unlink, Goto, Fault
  <1>9. ASSUME NEW r \in Requests, DeleteRow(r)
        PROVE  Seen'
    BY <1>9 DEF DeleteRow, Done, Without
  <1>10. ASSUME NEW r \in Requests, ReadForUnattach(r)
        PROVE  Seen'
    BY <1>10 DEF ReadForUnattach, Goto
  <1>11. ASSUME NEW r \in Requests, ReadKey(r)
        PROVE  Seen'
    BY <1>11 DEF ReadKey, Goto, Done
  <1>12. ASSUME NEW r \in Requests, DeleteAttachment(r)
        PROVE  Seen'
    BY <1>12 DEF DeleteAttachment, Done, Without
  <1>13. ASSUME NEW r \in Requests, ReadForUpload(r)
        PROVE  Seen'
    BY <1>13 DEF ReadForUpload, Goto
  <1>14. ASSUME NEW r \in Requests, StoreFile(r)
        PROVE  Seen'
    BY <1>14 DEF StoreFile, Goto, Done, Fault
  <1>15. ASSUME NEW r \in Requests, InsertAttachment(r)
        PROVE  Seen'
    BY <1>15 DEF InsertAttachment, Done
  <1>16. ASSUME NEW r \in Requests, TakeBack(r)
        PROVE  Seen'
    BY <1>16 DEF TakeBack, Done, Fault
  <1>17. ASSUME NEW r \in Requests, ReadForTranscribe(r)
        PROVE  Seen'
    BY <1>17 DEF ReadForTranscribe, Goto
  <1>18. ASSUME NEW r \in Requests, Prepare(r)
        PROVE  Seen'
    BY <1>18 DEF Prepare, Goto, Done, Latest
  <1>19. ASSUME NEW r \in Requests, ReadAudio(r)
        PROVE  Seen'
    BY <1>19 DEF ReadAudio, Goto, Done
  <1>20. ASSUME NEW r \in Requests, NEW ok \in BOOLEAN, UpdateTranscript(r, ok)
        PROVE  Seen'
    BY <1>20 DEF UpdateTranscript, Done
  <1>21. ASSUME NEW r \in Requests, NEW ok \in BOOLEAN, InsertTranscript(r, ok)
        PROVE  Seen'
    BY <1>21 DEF InsertTranscript, Done
  <1>22. ASSUME NEW r \in Requests, ReadForIndex(r)
        PROVE  Seen'
    BY <1>22 DEF ReadForIndex, Goto, Open
  <1>23. ASSUME NEW r \in Requests, ReadAttachments(r)
        PROVE  Seen'
    BY <1>23 DEF ReadAttachments, Goto
  <1>24. ASSUME NEW r \in Requests, NotReady(r)
        PROVE  Seen'
    BY <1>24 DEF NotReady, Done
  <1>25. ASSUME NEW r \in Requests, InsertNote(r)
        PROVE  Seen'
    <2>1. PICK n \in Notes : /\ said[n] = NoText /\ note' = [note EXCEPT ![r] = n]
                             /\ notes' = notes \cup {n}
                             /\ said' = [said EXCEPT ![n] = [words |-> words[r], heard |-> Heard]]
      BY <1>25 DEF InsertNote
    <2>2. /\ \A q \in Requests : q # r => pc'[q] = pc[q] /\ note'[q] = note[q]
          /\ pc'[r] = "embed" /\ note'[r] = n
      BY <1>25, <2>1 DEF InsertNote, Goto
    <2>3. UNCHANGED <<row, atts, trs, keys, words, kind, over>>
      BY <1>25 DEF InsertNote
    <2>4. \A q \in Requests : q # r /\ pc[q] \in {"embed", "mark"} => said'[note[q]] = said[note[q]]
      BY <2>1 DEF Memory
    <2>5. pc[r] = "collect" /\ said'[n] = [words |-> words[r], heard |-> Heard]
      BY <1>25, <2>1 DEF InsertNote
    <2>6. \A a \in keys[r] : TranscriptsOf(a) \cap Heard # {}
      BY <1>25 DEF InsertNote, Ready
    <2>7. \A q \in Requests : Heedful(q)' <=> Heedful(q)
      BY <2>3
    <2>8. Content' = Content /\ Spoken' = Spoken
      BY <2>3
    <2>9. ASSUME Heedful(r)
          PROVE  words[r] = row.words /\ keys[r] = atts /\ said'[n] = Content /\ Spoken
      <3>1. words[r] = row.words /\ keys[r] = atts
        BY <2>5, <2>9
      <3>2. said'[n] = Content
        BY <2>5, <3>1
      <3> QED
        BY <2>6, <3>1, <3>2
    <2>10. ASSUME NEW q \in Requests, q # r, Heedful(q)
           PROVE  /\ pc[q] # "read" => words[q] = row.words
                  /\ pc[q] \in {"collect", "embed", "mark"} => keys[q] = atts
                  /\ pc[q] \in {"embed", "mark"} => said'[note[q]] = Content /\ Spoken
      BY <2>4, <2>10
    <2> HIDE DEF Heedful, Content, Spoken, TypeOK, Belongs
    <2> QED
      BY <2>2, <2>3, <2>7, <2>8, <2>9, <2>10
  <1>26. ASSUME NEW r \in Requests, UpsertPoint(r)
        PROVE  Seen'
    BY <1>26 DEF UpsertPoint, Goto
  <1>27. ASSUME NEW r \in Requests, UpsertFails(r)
        PROVE  Seen'
    BY <1>27 DEF UpsertFails, Goto, Fault
  <1>28. ASSUME NEW r \in Requests, DeleteNote(r)
        PROVE  Seen'
    BY <1>28 DEF DeleteNote, Goto, Fault
  <1>29. ASSUME NEW r \in Requests, MarkFailed(r)
        PROVE  Seen'
    BY <1>29 DEF MarkFailed, Done
  <1>30. ASSUME NEW r \in Requests, MarkIndexed(r)
        PROVE  Seen'
    BY <1>30 DEF MarkIndexed, Done
  <1>31. ASSUME NEW r \in Requests, Abandon(r)
        PROVE  Seen'
    BY <1>31 DEF Abandon, Done, Fault
  <1>32. CASE Crash
    BY <1>32 DEF Crash, Fault
  <1>33. CASE UNCHANGED vars
    BY <1>33 DEF vars
  <1> HIDE DEF stores, locals, ghosts, TypeOK, Belongs, Overlap, There, NoRow, Kinds, Seen, Heedful, Edits, Content, Heard, Spoken, TranscriptsOf
  <1> QED
    BY <1>1, <1>2, <1>3, <1>4, <1>5, <1>6, <1>7, <1>8, <1>9, <1>10, <1>11, <1>12, <1>13, <1>14, <1>15, <1>16, <1>17, <1>18, <1>19, <1>20, <1>21, <1>22, <1>23, <1>24, <1>25, <1>26, <1>27, <1>28, <1>29, <1>30, <1>31, <1>32, <1>33
    DEF Next, Patch, Delete, Unattach, Upload, Transcribe, Index

\* An indexed capture is edited by no one.
LEMMA SealedInductive ==
    ASSUME TypeOK, Belongs, Overlap, Memory, Seen, Sealed, [Next]_vars
    PROVE  Sealed'
  <1> USE DEF stores, locals, ghosts, TypeOK, Belongs, Overlap, There, NoRow, Kinds, Sealed, Edits, Content, Heard, Spoken, TranscriptsOf
  <1>1. ASSUME NEW r \in Requests, NEW k \in Kinds, Begin(r, k)
        PROVE  Sealed'
    BY <1>1 DEF Begin, Goto
  <1>2. ASSUME NEW r \in Requests, Refused(r)
        PROVE  Sealed'
    BY <1>2 DEF Refused, Done
  <1>3. ASSUME NEW r \in Requests, ReadForPatch(r)
        PROVE  Sealed'
    BY <1>3 DEF ReadForPatch, Goto, Open
  <1>4. ASSUME NEW r \in Requests, CheckAttachments(r)
        PROVE  Sealed'
    BY <1>4 DEF CheckAttachments, Goto, Done
  <1>5. ASSUME NEW r \in Requests, WritePatch(r)
        PROVE  Sealed'
    BY <1>5 DEF WritePatch, Done
  <1>6. ASSUME NEW r \in Requests, ReadForDelete(r)
        PROVE  Sealed'
    BY <1>6 DEF ReadForDelete, Goto
  <1>7. ASSUME NEW r \in Requests, ReadKeys(r)
        PROVE  Sealed'
    BY <1>7 DEF ReadKeys, Goto
  <1>8. ASSUME NEW r \in Requests, Unlink(r)
        PROVE  Sealed'
    BY <1>8 DEF Unlink, Goto, Fault
  <1>9. ASSUME NEW r \in Requests, DeleteRow(r)
        PROVE  Sealed'
    BY <1>9 DEF DeleteRow, Done, Without
  <1>10. ASSUME NEW r \in Requests, ReadForUnattach(r)
        PROVE  Sealed'
    BY <1>10 DEF ReadForUnattach, Goto, Open
  <1>11. ASSUME NEW r \in Requests, ReadKey(r)
        PROVE  Sealed'
    BY <1>11 DEF ReadKey, Goto, Done
  <1>12. ASSUME NEW r \in Requests, DeleteAttachment(r)
        PROVE  Sealed'
    BY <1>12 DEF DeleteAttachment, Done, Without
  <1>13. ASSUME NEW r \in Requests, ReadForUpload(r)
        PROVE  Sealed'
    BY <1>13 DEF ReadForUpload, Goto, Open
  <1>14. ASSUME NEW r \in Requests, StoreFile(r)
        PROVE  Sealed'
    BY <1>14 DEF StoreFile, Goto, Done, Fault
  <1>15. ASSUME NEW r \in Requests, InsertAttachment(r)
        PROVE  Sealed'
    BY <1>15 DEF InsertAttachment, Done
  <1>16. ASSUME NEW r \in Requests, TakeBack(r)
        PROVE  Sealed'
    BY <1>16 DEF TakeBack, Done, Fault
  <1>17. ASSUME NEW r \in Requests, ReadForTranscribe(r)
        PROVE  Sealed'
    BY <1>17 DEF ReadForTranscribe, Goto, Open
  <1>18. ASSUME NEW r \in Requests, Prepare(r)
        PROVE  Sealed'
    BY <1>18 DEF Prepare, Goto, Done, Latest
  <1>19. ASSUME NEW r \in Requests, ReadAudio(r)
        PROVE  Sealed'
    BY <1>19 DEF ReadAudio, Goto, Done
  <1>20. ASSUME NEW r \in Requests, NEW ok \in BOOLEAN, UpdateTranscript(r, ok)
        PROVE  Sealed'
    BY <1>20 DEF UpdateTranscript, Done
  <1>21. ASSUME NEW r \in Requests, NEW ok \in BOOLEAN, InsertTranscript(r, ok)
        PROVE  Sealed'
    BY <1>21 DEF InsertTranscript, Done
  <1>22. ASSUME NEW r \in Requests, ReadForIndex(r)
        PROVE  Sealed'
    BY <1>22 DEF ReadForIndex, Goto
  <1>23. ASSUME NEW r \in Requests, ReadAttachments(r)
        PROVE  Sealed'
    BY <1>23 DEF ReadAttachments, Goto
  <1>24. ASSUME NEW r \in Requests, NotReady(r)
        PROVE  Sealed'
    BY <1>24 DEF NotReady, Done
  <1>25. ASSUME NEW r \in Requests, InsertNote(r)
        PROVE  Sealed'
    BY <1>25 DEF InsertNote, Goto, Memory, Ready, NoText
  <1>26. ASSUME NEW r \in Requests, UpsertPoint(r)
        PROVE  Sealed'
    BY <1>26 DEF UpsertPoint, Goto
  <1>27. ASSUME NEW r \in Requests, UpsertFails(r)
        PROVE  Sealed'
    BY <1>27 DEF UpsertFails, Goto, Fault
  <1>28. ASSUME NEW r \in Requests, DeleteNote(r)
        PROVE  Sealed'
    BY <1>28 DEF DeleteNote, Goto, Fault
  <1>29. ASSUME NEW r \in Requests, MarkFailed(r)
        PROVE  Sealed'
    BY <1>29 DEF MarkFailed, Done
  <1>30. ASSUME NEW r \in Requests, MarkIndexed(r)
        PROVE  Sealed'
    BY <1>30 DEF MarkIndexed, Done, Seen, Heedful
  <1>31. ASSUME NEW r \in Requests, Abandon(r)
        PROVE  Sealed'
    BY <1>31 DEF Abandon, Done, Fault
  <1>32. CASE Crash
    BY <1>32 DEF Crash, Fault
  <1>33. CASE UNCHANGED vars
    BY <1>33 DEF vars
  <1> QED
    BY <1>1, <1>2, <1>3, <1>4, <1>5, <1>6, <1>7, <1>8, <1>9, <1>10, <1>11, <1>12, <1>13, <1>14, <1>15, <1>16, <1>17, <1>18, <1>19, <1>20, <1>21, <1>22, <1>23, <1>24, <1>25, <1>26, <1>27, <1>28, <1>29, <1>30, <1>31, <1>32, <1>33
    DEF Next, Patch, Delete, Unattach, Upload, Transcribe, Index

\* Only a transcription that overlaps another finds its transcript filled.
LEMMA FillsInductive ==
    ASSUME TypeOK, Belongs, Overlap, Fills, [Next]_vars
    PROVE  Fills'
  <1> USE DEF stores, locals, ghosts, TypeOK, Belongs, Overlap, Fills, NoTr, Kinds
  <1>1. ASSUME NEW r \in Requests, NEW k \in Kinds, Begin(r, k)
        PROVE  Fills'
    BY <1>1 DEF Begin, Goto, Active
  <1>2. ASSUME NEW r \in Requests, Refused(r)
        PROVE  Fills'
    BY <1>2 DEF Refused, Done
  <1>3. ASSUME NEW r \in Requests, ReadForPatch(r)
        PROVE  Fills'
    BY <1>3 DEF ReadForPatch, Goto
  <1>4. ASSUME NEW r \in Requests, CheckAttachments(r)
        PROVE  Fills'
    BY <1>4 DEF CheckAttachments, Goto, Done
  <1>5. ASSUME NEW r \in Requests, WritePatch(r)
        PROVE  Fills'
    BY <1>5 DEF WritePatch, Done
  <1>6. ASSUME NEW r \in Requests, ReadForDelete(r)
        PROVE  Fills'
    BY <1>6 DEF ReadForDelete, Goto
  <1>7. ASSUME NEW r \in Requests, ReadKeys(r)
        PROVE  Fills'
    BY <1>7 DEF ReadKeys, Goto
  <1>8. ASSUME NEW r \in Requests, Unlink(r)
        PROVE  Fills'
    BY <1>8 DEF Unlink, Goto, Fault
  <1>9. ASSUME NEW r \in Requests, DeleteRow(r)
        PROVE  Fills'
    BY <1>9 DEF DeleteRow, Done, Without, Trs
  <1>10. ASSUME NEW r \in Requests, ReadForUnattach(r)
        PROVE  Fills'
    BY <1>10 DEF ReadForUnattach, Goto
  <1>11. ASSUME NEW r \in Requests, ReadKey(r)
        PROVE  Fills'
    BY <1>11 DEF ReadKey, Goto, Done
  <1>12. ASSUME NEW r \in Requests, DeleteAttachment(r)
        PROVE  Fills'
    BY <1>12 DEF DeleteAttachment, Done, Without, Trs
  <1>13. ASSUME NEW r \in Requests, ReadForUpload(r)
        PROVE  Fills'
    BY <1>13 DEF ReadForUpload, Goto
  <1>14. ASSUME NEW r \in Requests, StoreFile(r)
        PROVE  Fills'
    BY <1>14 DEF StoreFile, Goto, Done, Fault
  <1>15. ASSUME NEW r \in Requests, InsertAttachment(r)
        PROVE  Fills'
    BY <1>15 DEF InsertAttachment, Done
  <1>16. ASSUME NEW r \in Requests, TakeBack(r)
        PROVE  Fills'
    BY <1>16 DEF TakeBack, Done, Fault
  <1>17. ASSUME NEW r \in Requests, ReadForTranscribe(r)
        PROVE  Fills'
    BY <1>17 DEF ReadForTranscribe, Goto
  <1>18. ASSUME NEW r \in Requests, Prepare(r)
        PROVE  Fills'
    BY <1>18 DEF Prepare, Goto, Done, Latest, TranscriptsOf
  <1>19. ASSUME NEW r \in Requests, ReadAudio(r)
        PROVE  Fills'
    BY <1>19 DEF ReadAudio, Goto, Done
  <1>20. ASSUME NEW r \in Requests, NEW ok \in BOOLEAN, UpdateTranscript(r, ok)
        PROVE  Fills'
    BY <1>20 DEF UpdateTranscript, Done
  <1>21. ASSUME NEW r \in Requests, NEW ok \in BOOLEAN, InsertTranscript(r, ok)
        PROVE  Fills'
    BY <1>21 DEF InsertTranscript, Done
  <1>22. ASSUME NEW r \in Requests, ReadForIndex(r)
        PROVE  Fills'
    BY <1>22 DEF ReadForIndex, Goto
  <1>23. ASSUME NEW r \in Requests, ReadAttachments(r)
        PROVE  Fills'
    BY <1>23 DEF ReadAttachments, Goto
  <1>24. ASSUME NEW r \in Requests, NotReady(r)
        PROVE  Fills'
    BY <1>24 DEF NotReady, Done
  <1>25. ASSUME NEW r \in Requests, InsertNote(r)
        PROVE  Fills'
    BY <1>25 DEF InsertNote, Goto
  <1>26. ASSUME NEW r \in Requests, UpsertPoint(r)
        PROVE  Fills'
    BY <1>26 DEF UpsertPoint, Goto
  <1>27. ASSUME NEW r \in Requests, UpsertFails(r)
        PROVE  Fills'
    BY <1>27 DEF UpsertFails, Goto, Fault
  <1>28. ASSUME NEW r \in Requests, DeleteNote(r)
        PROVE  Fills'
    BY <1>28 DEF DeleteNote, Goto, Fault
  <1>29. ASSUME NEW r \in Requests, MarkFailed(r)
        PROVE  Fills'
    BY <1>29 DEF MarkFailed, Done
  <1>30. ASSUME NEW r \in Requests, MarkIndexed(r)
        PROVE  Fills'
    BY <1>30 DEF MarkIndexed, Done
  <1>31. ASSUME NEW r \in Requests, Abandon(r)
        PROVE  Fills'
    BY <1>31 DEF Abandon, Done, Fault
  <1>32. CASE Crash
    BY <1>32 DEF Crash, Fault
  <1>33. CASE UNCHANGED vars
    BY <1>33 DEF vars
  <1> QED
    BY <1>1, <1>2, <1>3, <1>4, <1>5, <1>6, <1>7, <1>8, <1>9, <1>10, <1>11, <1>12, <1>13, <1>14, <1>15, <1>16, <1>17, <1>18, <1>19, <1>20, <1>21, <1>22, <1>23, <1>24, <1>25, <1>26, <1>27, <1>28, <1>29, <1>30, <1>31, <1>32, <1>33
    DEF Next, Patch, Delete, Unattach, Upload, Transcribe, Index

-----------------------------------------------------------------------------
IInv == /\ TypeOK /\ Belongs /\ Overlap /\ Memory /\ MemoryStands /\ Settled /\ Stays /\ Cleaned /\ OnlyMemory
        /\ Fresh /\ Bytes /\ FilesMatch /\ Seen /\ Sealed /\ Fills

\* The inductive invariant holds at first.
LEMMA IInvInit == Init => IInv
  <1> SUFFICES ASSUME Init PROVE IInv
    OBVIOUS
  <1> USE DEF Init
  <1>1. PICK w \in Words : row = [status |-> "pending", note |-> None, words |-> w]
    OBVIOUS
  <1>2. TypeOK
    BY <1>1 DEF TypeOK, There, NoRow, NoTr, NoText, Kinds
  <1>3. Belongs /\ Overlap /\ Cleaned /\ Fills
    BY DEF Belongs, Overlap, Cleaned, Fills
  <1>4. Memory /\ MemoryStands /\ Settled /\ OnlyMemory
    BY <1>1 DEF Memory, MemoryStands, Settled, OnlyMemory
  <1>5. Stays /\ Seen /\ Sealed
    BY <1>1 DEF Stays, Seen, Sealed, Heedful, Kinds
  <1>6. Fresh /\ Bytes /\ FilesMatch
    BY DEF Fresh, Bytes, FilesMatch, Touched
  <1> QED
    BY <1>2, <1>3, <1>4, <1>5, <1>6 DEF IInv

\* Every step keeps it.
LEMMA IInvInductive == IInv /\ [Next]_vars => IInv'
  BY TypeInductive, BelongsInductive, OverlapInductive, MemoryInductive, StandsInductive, StaysInductive,
     SettledInductive, CleanedInductive, OnlyMemoryInductive, FreshInductive, BytesInductive,
     FilesMatchInductive, SeenInductive, SealedInductive, FillsInductive
  DEF IInv

\* It holds always.
LEMMA Invariance == Spec => []IInv
  BY IInvInit, IInvInductive, PTL DEF Spec

\* What a step does to a complete transcript.
LEMMA KeptByStep ==
    ASSUME TypeOK, Belongs, Fills, [Next]_vars
    PROVE  \A t \in Trs : trs[t].ok =>
             \/ trs'[t] = trs[t]
             \/ trs[t].att \notin atts'
             \/ \E q \in Requests : pc[q] = "finish" /\ pc'[q] = "idle" /\ "transcribe" \in over[q]
  <1> USE DEF stores, locals, ghosts, TypeOK, Belongs, Fills, NoTr
  <1>1. ASSUME NEW r \in Requests, NEW k \in Kinds, Begin(r, k)
        PROVE  \A t \in Trs : trs[t].ok =>
              \/ trs'[t] = trs[t]
              \/ trs[t].att \notin atts'
              \/ \E q \in Requests : pc[q] = "finish" /\ pc'[q] = "idle" /\ "transcribe" \in over[q]
    BY <1>1 DEF Begin, Goto
  <1>2. ASSUME NEW r \in Requests, Refused(r)
        PROVE  \A t \in Trs : trs[t].ok =>
              \/ trs'[t] = trs[t]
              \/ trs[t].att \notin atts'
              \/ \E q \in Requests : pc[q] = "finish" /\ pc'[q] = "idle" /\ "transcribe" \in over[q]
    BY <1>2 DEF Refused, Done
  <1>3. ASSUME NEW r \in Requests, ReadForPatch(r)
        PROVE  \A t \in Trs : trs[t].ok =>
              \/ trs'[t] = trs[t]
              \/ trs[t].att \notin atts'
              \/ \E q \in Requests : pc[q] = "finish" /\ pc'[q] = "idle" /\ "transcribe" \in over[q]
    BY <1>3 DEF ReadForPatch, Goto
  <1>4. ASSUME NEW r \in Requests, CheckAttachments(r)
        PROVE  \A t \in Trs : trs[t].ok =>
              \/ trs'[t] = trs[t]
              \/ trs[t].att \notin atts'
              \/ \E q \in Requests : pc[q] = "finish" /\ pc'[q] = "idle" /\ "transcribe" \in over[q]
    BY <1>4 DEF CheckAttachments, Goto, Done
  <1>5. ASSUME NEW r \in Requests, WritePatch(r)
        PROVE  \A t \in Trs : trs[t].ok =>
              \/ trs'[t] = trs[t]
              \/ trs[t].att \notin atts'
              \/ \E q \in Requests : pc[q] = "finish" /\ pc'[q] = "idle" /\ "transcribe" \in over[q]
    BY <1>5 DEF WritePatch, Done
  <1>6. ASSUME NEW r \in Requests, ReadForDelete(r)
        PROVE  \A t \in Trs : trs[t].ok =>
              \/ trs'[t] = trs[t]
              \/ trs[t].att \notin atts'
              \/ \E q \in Requests : pc[q] = "finish" /\ pc'[q] = "idle" /\ "transcribe" \in over[q]
    BY <1>6 DEF ReadForDelete, Goto
  <1>7. ASSUME NEW r \in Requests, ReadKeys(r)
        PROVE  \A t \in Trs : trs[t].ok =>
              \/ trs'[t] = trs[t]
              \/ trs[t].att \notin atts'
              \/ \E q \in Requests : pc[q] = "finish" /\ pc'[q] = "idle" /\ "transcribe" \in over[q]
    BY <1>7 DEF ReadKeys, Goto
  <1>8. ASSUME NEW r \in Requests, Unlink(r)
        PROVE  \A t \in Trs : trs[t].ok =>
              \/ trs'[t] = trs[t]
              \/ trs[t].att \notin atts'
              \/ \E q \in Requests : pc[q] = "finish" /\ pc'[q] = "idle" /\ "transcribe" \in over[q]
    BY <1>8 DEF Unlink, Goto, Fault
  <1>9. ASSUME NEW r \in Requests, DeleteRow(r)
        PROVE  \A t \in Trs : trs[t].ok =>
              \/ trs'[t] = trs[t]
              \/ trs[t].att \notin atts'
              \/ \E q \in Requests : pc[q] = "finish" /\ pc'[q] = "idle" /\ "transcribe" \in over[q]
    BY <1>9 DEF DeleteRow, Done, Without
  <1>10. ASSUME NEW r \in Requests, ReadForUnattach(r)
        PROVE  \A t \in Trs : trs[t].ok =>
              \/ trs'[t] = trs[t]
              \/ trs[t].att \notin atts'
              \/ \E q \in Requests : pc[q] = "finish" /\ pc'[q] = "idle" /\ "transcribe" \in over[q]
    BY <1>10 DEF ReadForUnattach, Goto
  <1>11. ASSUME NEW r \in Requests, ReadKey(r)
        PROVE  \A t \in Trs : trs[t].ok =>
              \/ trs'[t] = trs[t]
              \/ trs[t].att \notin atts'
              \/ \E q \in Requests : pc[q] = "finish" /\ pc'[q] = "idle" /\ "transcribe" \in over[q]
    BY <1>11 DEF ReadKey, Goto, Done
  <1>12. ASSUME NEW r \in Requests, DeleteAttachment(r)
        PROVE  \A t \in Trs : trs[t].ok =>
              \/ trs'[t] = trs[t]
              \/ trs[t].att \notin atts'
              \/ \E q \in Requests : pc[q] = "finish" /\ pc'[q] = "idle" /\ "transcribe" \in over[q]
    BY <1>12 DEF DeleteAttachment, Done, Without
  <1>13. ASSUME NEW r \in Requests, ReadForUpload(r)
        PROVE  \A t \in Trs : trs[t].ok =>
              \/ trs'[t] = trs[t]
              \/ trs[t].att \notin atts'
              \/ \E q \in Requests : pc[q] = "finish" /\ pc'[q] = "idle" /\ "transcribe" \in over[q]
    BY <1>13 DEF ReadForUpload, Goto
  <1>14. ASSUME NEW r \in Requests, StoreFile(r)
        PROVE  \A t \in Trs : trs[t].ok =>
              \/ trs'[t] = trs[t]
              \/ trs[t].att \notin atts'
              \/ \E q \in Requests : pc[q] = "finish" /\ pc'[q] = "idle" /\ "transcribe" \in over[q]
    BY <1>14 DEF StoreFile, Goto, Done, Fault
  <1>15. ASSUME NEW r \in Requests, InsertAttachment(r)
        PROVE  \A t \in Trs : trs[t].ok =>
              \/ trs'[t] = trs[t]
              \/ trs[t].att \notin atts'
              \/ \E q \in Requests : pc[q] = "finish" /\ pc'[q] = "idle" /\ "transcribe" \in over[q]
    BY <1>15 DEF InsertAttachment, Done
  <1>16. ASSUME NEW r \in Requests, TakeBack(r)
        PROVE  \A t \in Trs : trs[t].ok =>
              \/ trs'[t] = trs[t]
              \/ trs[t].att \notin atts'
              \/ \E q \in Requests : pc[q] = "finish" /\ pc'[q] = "idle" /\ "transcribe" \in over[q]
    BY <1>16 DEF TakeBack, Done, Fault
  <1>17. ASSUME NEW r \in Requests, ReadForTranscribe(r)
        PROVE  \A t \in Trs : trs[t].ok =>
              \/ trs'[t] = trs[t]
              \/ trs[t].att \notin atts'
              \/ \E q \in Requests : pc[q] = "finish" /\ pc'[q] = "idle" /\ "transcribe" \in over[q]
    BY <1>17 DEF ReadForTranscribe, Goto
  <1>18. ASSUME NEW r \in Requests, Prepare(r)
        PROVE  \A t \in Trs : trs[t].ok =>
              \/ trs'[t] = trs[t]
              \/ trs[t].att \notin atts'
              \/ \E q \in Requests : pc[q] = "finish" /\ pc'[q] = "idle" /\ "transcribe" \in over[q]
    BY <1>18 DEF Prepare, Goto, Done
  <1>19. ASSUME NEW r \in Requests, ReadAudio(r)
        PROVE  \A t \in Trs : trs[t].ok =>
              \/ trs'[t] = trs[t]
              \/ trs[t].att \notin atts'
              \/ \E q \in Requests : pc[q] = "finish" /\ pc'[q] = "idle" /\ "transcribe" \in over[q]
    BY <1>19 DEF ReadAudio, Goto, Done
  <1>20. ASSUME NEW r \in Requests, NEW ok \in BOOLEAN, UpdateTranscript(r, ok)
        PROVE  \A t \in Trs : trs[t].ok =>
              \/ trs'[t] = trs[t]
              \/ trs[t].att \notin atts'
              \/ \E q \in Requests : pc[q] = "finish" /\ pc'[q] = "idle" /\ "transcribe" \in over[q]
    BY <1>20 DEF UpdateTranscript, Done
  <1>21. ASSUME NEW r \in Requests, NEW ok \in BOOLEAN, InsertTranscript(r, ok)
        PROVE  \A t \in Trs : trs[t].ok =>
              \/ trs'[t] = trs[t]
              \/ trs[t].att \notin atts'
              \/ \E q \in Requests : pc[q] = "finish" /\ pc'[q] = "idle" /\ "transcribe" \in over[q]
    BY <1>21 DEF InsertTranscript, Done
  <1>22. ASSUME NEW r \in Requests, ReadForIndex(r)
        PROVE  \A t \in Trs : trs[t].ok =>
              \/ trs'[t] = trs[t]
              \/ trs[t].att \notin atts'
              \/ \E q \in Requests : pc[q] = "finish" /\ pc'[q] = "idle" /\ "transcribe" \in over[q]
    BY <1>22 DEF ReadForIndex, Goto
  <1>23. ASSUME NEW r \in Requests, ReadAttachments(r)
        PROVE  \A t \in Trs : trs[t].ok =>
              \/ trs'[t] = trs[t]
              \/ trs[t].att \notin atts'
              \/ \E q \in Requests : pc[q] = "finish" /\ pc'[q] = "idle" /\ "transcribe" \in over[q]
    BY <1>23 DEF ReadAttachments, Goto
  <1>24. ASSUME NEW r \in Requests, NotReady(r)
        PROVE  \A t \in Trs : trs[t].ok =>
              \/ trs'[t] = trs[t]
              \/ trs[t].att \notin atts'
              \/ \E q \in Requests : pc[q] = "finish" /\ pc'[q] = "idle" /\ "transcribe" \in over[q]
    BY <1>24 DEF NotReady, Done
  <1>25. ASSUME NEW r \in Requests, InsertNote(r)
        PROVE  \A t \in Trs : trs[t].ok =>
              \/ trs'[t] = trs[t]
              \/ trs[t].att \notin atts'
              \/ \E q \in Requests : pc[q] = "finish" /\ pc'[q] = "idle" /\ "transcribe" \in over[q]
    BY <1>25 DEF InsertNote, Goto
  <1>26. ASSUME NEW r \in Requests, UpsertPoint(r)
        PROVE  \A t \in Trs : trs[t].ok =>
              \/ trs'[t] = trs[t]
              \/ trs[t].att \notin atts'
              \/ \E q \in Requests : pc[q] = "finish" /\ pc'[q] = "idle" /\ "transcribe" \in over[q]
    BY <1>26 DEF UpsertPoint, Goto
  <1>27. ASSUME NEW r \in Requests, UpsertFails(r)
        PROVE  \A t \in Trs : trs[t].ok =>
              \/ trs'[t] = trs[t]
              \/ trs[t].att \notin atts'
              \/ \E q \in Requests : pc[q] = "finish" /\ pc'[q] = "idle" /\ "transcribe" \in over[q]
    BY <1>27 DEF UpsertFails, Goto, Fault
  <1>28. ASSUME NEW r \in Requests, DeleteNote(r)
        PROVE  \A t \in Trs : trs[t].ok =>
              \/ trs'[t] = trs[t]
              \/ trs[t].att \notin atts'
              \/ \E q \in Requests : pc[q] = "finish" /\ pc'[q] = "idle" /\ "transcribe" \in over[q]
    BY <1>28 DEF DeleteNote, Goto, Fault
  <1>29. ASSUME NEW r \in Requests, MarkFailed(r)
        PROVE  \A t \in Trs : trs[t].ok =>
              \/ trs'[t] = trs[t]
              \/ trs[t].att \notin atts'
              \/ \E q \in Requests : pc[q] = "finish" /\ pc'[q] = "idle" /\ "transcribe" \in over[q]
    BY <1>29 DEF MarkFailed, Done
  <1>30. ASSUME NEW r \in Requests, MarkIndexed(r)
        PROVE  \A t \in Trs : trs[t].ok =>
              \/ trs'[t] = trs[t]
              \/ trs[t].att \notin atts'
              \/ \E q \in Requests : pc[q] = "finish" /\ pc'[q] = "idle" /\ "transcribe" \in over[q]
    BY <1>30 DEF MarkIndexed, Done
  <1>31. ASSUME NEW r \in Requests, Abandon(r)
        PROVE  \A t \in Trs : trs[t].ok =>
              \/ trs'[t] = trs[t]
              \/ trs[t].att \notin atts'
              \/ \E q \in Requests : pc[q] = "finish" /\ pc'[q] = "idle" /\ "transcribe" \in over[q]
    BY <1>31 DEF Abandon, Done, Fault
  <1>32. CASE Crash
    BY <1>32 DEF Crash, Fault
  <1>33. CASE UNCHANGED vars
    BY <1>33 DEF vars
  <1> QED
    BY <1>1, <1>2, <1>3, <1>4, <1>5, <1>6, <1>7, <1>8, <1>9, <1>10, <1>11, <1>12, <1>13, <1>14, <1>15, <1>16, <1>17, <1>18, <1>19, <1>20, <1>21, <1>22, <1>23, <1>24, <1>25, <1>26, <1>27, <1>28, <1>29, <1>30, <1>31, <1>32, <1>33
    DEF Next, Patch, Delete, Unattach, Upload, Transcribe, Index

\* All variables keep their types.
THEOREM TypeCorrect == Spec => []TypeOK
  <1>1. IInv => TypeOK
    BY DEF IInv
  <1> QED
    BY <1>1, Invariance, PTL

\* index_capture: the note an indexed capture names and its point are there.
THEOREM Stands == Spec => []MemoryStands
  <1>1. IInv => MemoryStands
    BY DEF IInv
  <1> QED
    BY <1>1, Invariance, PTL

\* index_capture: memory holds nothing else of the capture.
THEOREM NothingElse == Spec => []OnlyMemory
  <1>1. IInv => OnlyMemory
    BY DEF IInv
  <1> QED
    BY <1>1, Invariance, PTL

\* index_capture: the note says what the indexed capture says.
THEOREM NoteIsTrue == Spec => []NoteIsCapture
  <1>1. IInv => NoteIsCapture
    BY DEF IInv, Sealed, Spoken, NoteIsCapture
  <1> QED
    BY <1>1, Invariance, PTL

\* add_capture_attachment, delete_capture, delete_capture_attachment: rows and
\* bytes agree.
THEOREM RowsHaveBytes == Spec => []FilesMatch
  <1>1. IInv => FilesMatch
    BY DEF IInv
  <1> QED
    BY <1>1, Invariance, PTL

\* finish_capture_transcribe: a complete transcript is kept.
THEOREM KeepsTranscripts == Spec => TranscriptKept
  <1>1. IInv /\ [Next]_vars =>
          [\A t \in Trs : trs[t].ok =>
             \/ trs'[t] = trs[t]
             \/ trs[t].att \notin atts'
             \/ \E r \in Requests : pc[r] = "finish" /\ pc'[r] = "idle" /\ "transcribe" \in over[r]]_vars
    BY KeptByStep DEF IInv
  <1> QED
    BY <1>1, Invariance, PTL DEF Spec, TranscriptKept
=============================================================================
