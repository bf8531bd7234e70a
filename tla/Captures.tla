------------------------------ MODULE Captures ------------------------------
(***************************************************************************)
(* One capture of the inbox after it was created: patched, given audio     *)
(* attachments, transcribed, promoted to memory and deleted                *)
(* (services/captures.py, routes/api_v1/captures.py).  Its parts live in   *)
(* three stores without a common transaction: rows in Postgres, the bytes  *)
(* of attachments on disk, the point of the note in the vector store.      *)
(*                                                                         *)
(* Every request reads the status first and writes later, by id and        *)
(* without looking at it again.  Requests run on threads; uploads and both *)
(* halves of a transcription run on the event loop, one at a time.         *)
(*                                                                         *)
(* Abstracted: title, text, URL and tags are one value (words); images,    *)
(* which need no transcript; the derived capture_type; the audit row and   *)
(* the hook of an indexed note, which nothing here reads.  CaptureOutbox   *)
(* models how a capture is created.                                        *)
(***************************************************************************)
EXTENDS Naturals, FiniteSets

CONSTANTS
    Requests,    \* requests that may run at once
    Atts,        \* ids for attachments, each drawn once
    Notes,       \* ids for notes, each drawn once
    Words,       \* what the fields of a capture can say
    Blank,       \* ... and that they say nothing: neither text nor URL
    None,
    MaxTranscripts,  \* bound on transcript rows ever inserted
    MaxRequests,     \* bound on requests
    MaxFaults        \* bound on failing calls and on crashes

Kinds == {"patch", "delete", "upload", "unattach", "transcribe", "index"}
Edits == {"patch", "upload", "unattach", "transcribe"}

ASSUME CapturesAssumption ==
    /\ Blank \in Words
    /\ None \notin Atts \cup Notes \cup Kinds
    /\ MaxTranscripts \in Nat /\ MaxRequests \in Nat /\ MaxFaults \in Nat

VARIABLES
    row,          \* the row of captures, or NoRow
    atts,         \* rows of capture_attachments
    trs,          \* rows of capture_transcripts, in the order of created_at
    inserted,     \* how many of them were ever inserted
    files,        \* attachments whose bytes are on disk
    notes,        \* rows of notes made from the capture
    points,       \* notes that have a point in the vector store
    said,         \* what a note says
    drawn,        \* attachment ids that were drawn
    pc, kind,     \* per request: the step it is at, what was asked
    target,       \* ... the attachment it is about
    keys,         \* ... the attachments it has read
    words,        \* ... the words it read or will write
    into,         \* ... the transcript row it will update, or 0
    note,         \* ... the note it inserted
    over,         \* ghost: kinds of the requests that overlapped it
    torn,         \* ghost: attachments a fault, a crash or a race broke
    contested,    \* ghost: notes of an index that was raced or broken
    doubtful,     \* ghost: notes of an index that overlapped an edit
    asked, faults

stores == <<row, atts, trs, inserted, files, notes, points, said, drawn>>
locals == <<pc, kind, target, keys, words, into, note, over>>
ghosts == <<torn, contested, doubtful>>
vars == <<stores, locals, ghosts, asked, faults>>

Trs == 1 .. MaxTranscripts
NoRow == [status |-> "gone", note |-> None, words |-> Blank]
NoTr == [att |-> None, ok |-> FALSE]
NoText == [words |-> Blank, heard |-> {}]

There == row.status # "gone"
TranscriptsOf(a) == {t \in Trs : trs[t].att = a}
Heard == {t \in Trs : trs[t].ok}
\* What index_capture would write into a note now.
Content == [words |-> row.words, heard |-> Heard]

Active == {r \in Requests : pc[r] # "idle"}

Init ==
    /\ \E w \in Words \ {Blank} : row = [status |-> "pending", note |-> None, words |-> w]
    /\ atts = {} /\ files = {} /\ notes = {} /\ points = {} /\ drawn = {}
    /\ trs = [t \in Trs |-> NoTr] /\ inserted = 0
    /\ said = [n \in Notes |-> NoText]
    /\ pc = [r \in Requests |-> "idle"] /\ kind = [r \in Requests |-> None]
    /\ target = [r \in Requests |-> None] /\ keys = [r \in Requests |-> {}]
    /\ words = [r \in Requests |-> Blank] /\ into = [r \in Requests |-> 0]
    /\ note = [r \in Requests |-> None] /\ over = [r \in Requests |-> {}]
    /\ torn = {} /\ contested = {} /\ doubtful = {}
    /\ asked = 0 /\ faults = 0

Goto(r, step) == pc' = [pc EXCEPT ![r] = step]

\* The request has answered, or died: nothing it held is used again.
Done(r) ==
    /\ pc' = [pc EXCEPT ![r] = "idle"] /\ kind' = [kind EXCEPT ![r] = None]
    /\ target' = [target EXCEPT ![r] = None] /\ keys' = [keys EXCEPT ![r] = {}]
    /\ words' = [words EXCEPT ![r] = Blank] /\ into' = [into EXCEPT ![r] = 0]
    /\ note' = [note EXCEPT ![r] = None] /\ over' = [over EXCEPT ![r] = {}]

Fault == faults < MaxFaults /\ faults' = faults + 1

(***************************************************************************)
(* The start of every request: what is asked, and the SELECT of the row,   *)
(* which must be there and not be indexed.                                 *)
(***************************************************************************)
Begin(r, k) ==
    /\ pc[r] = "idle" /\ asked < MaxRequests /\ asked' = asked + 1
    /\ Goto(r, "read") /\ kind' = [kind EXCEPT ![r] = k]
    /\ over' = [q \in Requests |->
                  IF q = r THEN {kind[p] : p \in Active}
                  ELSE IF q \in Active THEN over[q] \cup {k} ELSE over[q]]
    /\ UNCHANGED <<stores, target, keys, words, into, note, ghosts, faults>>

\* Requests that hold the event loop: their service code awaits nothing.
OnLoop == {q \in Requests : \/ kind[q] = "upload" /\ pc[q] \in {"store", "insert"}
                            \/ kind[q] = "transcribe" /\ pc[q] \in {"prepare", "hear"}}

Open == There /\ row.status # "indexed"

Refused(r) ==
    /\ pc[r] = "read" /\ ~Open /\ Done(r)
    /\ UNCHANGED <<stores, ghosts, asked, faults>>

(***************************************************************************)
(* patch_capture.  A field the request leaves out is written back as it    *)
(* was read.                                                               *)
(***************************************************************************)
ReadForPatch(r) ==
    /\ pc[r] = "read" /\ kind[r] = "patch" /\ Open
    /\ \E w \in Words :
          /\ words' = [words EXCEPT ![r] = w]
          /\ Goto(r, IF w = Blank THEN "check" ELSE "write")
    /\ UNCHANGED <<stores, kind, target, keys, into, note, over, ghosts, asked, faults>>

\* A capture without text and URL must have an attachment.
CheckAttachments(r) ==
    /\ pc[r] = "check"
    /\ IF atts = {} THEN Done(r)
                    ELSE Goto(r, "write") /\ UNCHANGED <<kind, target, keys, words, into, note, over>>
    /\ UNCHANGED <<stores, ghosts, asked, faults>>

WritePatch(r) ==
    /\ pc[r] = "write"
    /\ row' = IF There THEN [row EXCEPT !.words = words[r]] ELSE row
    /\ Done(r)
    /\ UNCHANGED <<atts, trs, inserted, files, notes, points, said, drawn, ghosts, asked, faults>>

(***************************************************************************)
(* delete_capture: the keys, the files, and the row with all that hangs on *)
(* it.  A file that cannot be unlinked is logged and forgotten.            *)
(***************************************************************************)
ReadForDelete(r) ==
    /\ pc[r] = "read" /\ kind[r] = "delete" /\ Open /\ Goto(r, "keys")
    /\ UNCHANGED <<stores, kind, target, keys, words, into, note, over, ghosts, asked, faults>>

ReadKeys(r) ==
    /\ pc[r] = "keys" /\ keys' = [keys EXCEPT ![r] = atts] /\ Goto(r, "unlink")
    /\ UNCHANGED <<stores, kind, target, words, into, note, over, ghosts, asked, faults>>

\* delete_capture_attachment comes here with its one key.
Unlink(r) ==
    /\ pc[r] = "unlink" /\ Goto(r, "row")
    /\ \/ files' = files \ keys[r] /\ UNCHANGED <<torn, faults>>
       \/ \E failed \in SUBSET keys[r] \ {{}} :
             Fault /\ files' = files \ (keys[r] \ failed) /\ torn' = torn \cup failed
    /\ UNCHANGED <<row, atts, trs, inserted, notes, points, said, drawn, kind, target, keys,
                   words, into, note, over, contested, doubtful, asked>>

\* ON DELETE CASCADE: the rows that refer to a deleted attachment go with it.
Without(gone) == [t \in Trs |-> IF trs[t].att \in gone THEN NoTr ELSE trs[t]]

DeleteRow(r) ==
    /\ pc[r] = "row" /\ kind[r] = "delete"
    /\ row' = NoRow /\ atts' = {} /\ trs' = Without(atts)
    /\ Done(r)
    /\ UNCHANGED <<inserted, files, notes, points, said, drawn, ghosts, asked, faults>>

(***************************************************************************)
(* delete_capture_attachment                                               *)
(***************************************************************************)
ReadForUnattach(r) ==
    /\ pc[r] = "read" /\ kind[r] = "unattach" /\ Open /\ Goto(r, "key")
    /\ UNCHANGED <<stores, kind, target, keys, words, into, note, over, ghosts, asked, faults>>

ReadKey(r) ==
    /\ pc[r] = "key"
    /\ \/ \E a \in atts : keys' = [keys EXCEPT ![r] = {a}] /\ Goto(r, "unlink")
          /\ UNCHANGED <<kind, target, words, into, note, over>>
       \/ Done(r)
    /\ UNCHANGED <<stores, ghosts, asked, faults>>

DeleteAttachment(r) ==
    /\ pc[r] = "row" /\ kind[r] = "unattach"
    /\ atts' = atts \ keys[r] /\ trs' = Without(keys[r])
    /\ Done(r)
    /\ UNCHANGED <<row, inserted, files, notes, points, said, drawn, ghosts, asked, faults>>

(***************************************************************************)
(* add_capture_attachment: bytes before row.  The row of a deleted capture *)
(* is refused by its foreign key, and the bytes are taken back.            *)
(***************************************************************************)
ReadForUpload(r) ==
    /\ pc[r] = "read" /\ kind[r] = "upload" /\ Open /\ OnLoop = {}
    /\ \E a \in Atts \ drawn : target' = [target EXCEPT ![r] = a] /\ drawn' = drawn \cup {a}
    /\ Goto(r, "store")
    /\ UNCHANGED <<row, atts, trs, inserted, files, notes, points, said, kind, keys, words,
                   into, note, over, ghosts, asked, faults>>

StoreFile(r) ==
    /\ pc[r] = "store"
    /\ \/ /\ files' = files \cup {target[r]} /\ Goto(r, "insert")
          /\ UNCHANGED <<kind, target, keys, words, into, note, over, torn, faults>>
       \/ \* the write fails, and may leave part of the file behind
          /\ Fault /\ Done(r) /\ torn' = torn \cup {target[r]}
          /\ files' \in {files, files \cup {target[r]}}
    /\ UNCHANGED <<row, atts, trs, inserted, notes, points, said, drawn, contested, doubtful, asked>>

InsertAttachment(r) ==
    /\ pc[r] = "insert" /\ There
    /\ atts' = atts \cup {target[r]}
    /\ torn' = IF "delete" \in over[r] THEN torn \cup {target[r]} ELSE torn
    /\ Done(r)
    /\ UNCHANGED <<row, trs, inserted, files, notes, points, said, drawn, contested, doubtful, asked, faults>>

\* Mutant: the bytes of a refused row stay.
TakeBackKept(r) ==
    /\ pc[r] = "insert" /\ ~There /\ Done(r)
    /\ UNCHANGED <<stores, ghosts, asked, faults>>

TakeBack(r) ==
    /\ pc[r] = "insert"
    /\ \/ ~There /\ files' = files \ {target[r]} /\ UNCHANGED <<atts, torn, faults>>
       \/ \* the statement fails, or its answer is lost, or the bytes stay
          /\ Fault /\ torn' = torn \cup {target[r]}
          /\ files' \in {files, files \ {target[r]}}
          /\ atts' \in {atts, IF There THEN atts \cup {target[r]} ELSE atts}
    /\ Done(r)
    /\ UNCHANGED <<row, trs, inserted, notes, points, said, drawn, contested, doubtful, asked>>

(***************************************************************************)
(* transcribe_capture: prepare, a long call, finish.  With a row to update *)
(* the row is written by id; a row that is gone is not missed.  An empty   *)
(* transcript is stored as failed.                                         *)
(***************************************************************************)
ReadForTranscribe(r) ==
    /\ pc[r] = "read" /\ kind[r] = "transcribe" /\ Open /\ OnLoop = {} /\ Goto(r, "prepare")
    /\ UNCHANGED <<stores, kind, target, keys, words, into, note, over, ghosts, asked, faults>>

\* The one transcript that is read, or 0 when there is none.
Latest(a) == IF TranscriptsOf(a) = {} THEN {0}
             ELSE {t \in TranscriptsOf(a) : \A u \in TranscriptsOf(a) : u <= t}

\* Mutant: a complete transcript does not end the request.
PrepareAgain(r) ==
    /\ pc[r] = "prepare"
    /\ \E a \in atts : \E t \in Latest(a) :
          target' = [target EXCEPT ![r] = a] /\ into' = [into EXCEPT ![r] = t]
    /\ Goto(r, "hear")
    /\ UNCHANGED <<kind, keys, words, note, over, stores, ghosts, asked, faults>>

\* An attachment that is not there, or whose latest transcript is complete,
\* ends the request.
Prepare(r) ==
    /\ pc[r] = "prepare"
    /\ \/ \E a \in atts : \E t \in Latest(a) :
             /\ t # 0 => ~trs[t].ok
             /\ target' = [target EXCEPT ![r] = a] /\ into' = [into EXCEPT ![r] = t]
             /\ Goto(r, "hear")
             /\ UNCHANGED <<kind, keys, words, note, over>>
       \/ Done(r)
    /\ UNCHANGED <<stores, ghosts, asked, faults>>

ReadAudio(r) ==
    /\ pc[r] = "hear"
    /\ IF target[r] \in files THEN Goto(r, "finish") /\ UNCHANGED <<kind, target, keys, words, into, note, over>>
                              ELSE Done(r)
    /\ UNCHANGED <<stores, ghosts, asked, faults>>

\* The call may also fail, and then nothing is stored (Abandon).
UpdateTranscript(r, ok) ==
    /\ pc[r] = "finish" /\ into[r] # 0 /\ OnLoop = {}
    /\ trs' = IF trs[into[r]] = NoTr THEN trs ELSE [trs EXCEPT ![into[r]].ok = ok]
    /\ Done(r)
    /\ UNCHANGED <<row, atts, inserted, files, notes, points, said, drawn, ghosts, asked, faults>>

InsertTranscript(r, ok) ==
    /\ pc[r] = "finish" /\ into[r] = 0 /\ OnLoop = {}
    /\ IF target[r] \in atts
         THEN /\ inserted < MaxTranscripts /\ inserted' = inserted + 1
              /\ trs' = [trs EXCEPT ![inserted + 1] = [att |-> target[r], ok |-> ok]]
         ELSE UNCHANGED <<trs, inserted>>
    /\ Done(r)
    /\ UNCHANGED <<row, atts, files, notes, points, said, drawn, ghosts, asked, faults>>

(***************************************************************************)
(* index_capture: the detail is read in three statements, the note is      *)
(* inserted, its point written, and the capture marked, whatever it is     *)
(* by then.                                                                *)
(***************************************************************************)
ReadForIndex(r) ==
    /\ pc[r] = "read" /\ kind[r] = "index" /\ Open
    /\ words' = [words EXCEPT ![r] = row.words] /\ Goto(r, "view")
    /\ UNCHANGED <<stores, kind, target, keys, into, note, over, ghosts, asked, faults>>

ReadAttachments(r) ==
    /\ pc[r] = "view" /\ keys' = [keys EXCEPT ![r] = atts] /\ Goto(r, "collect")
    /\ UNCHANGED <<stores, kind, target, words, into, note, over, ghosts, asked, faults>>

\* Mutant: one transcribed recording is enough.
ReadyAny(r) == /\ keys[r] # {} => \E a \in keys[r] : TranscriptsOf(a) \cap Heard # {}
               /\ words[r] # Blank \/ Heard # {}

\* _audio_transcripts_ready_for_index and a text that is not empty
Ready(r) == /\ \A a \in keys[r] : TranscriptsOf(a) \cap Heard # {}
            /\ words[r] # Blank \/ Heard # {}

NotReady(r) ==
    /\ pc[r] = "collect" /\ ~Ready(r) /\ Done(r)
    /\ UNCHANGED <<stores, ghosts, asked, faults>>

\* The SELECT of the transcripts and the INSERT of the note: no other request
\* sees the note yet.
InsertNote(r) ==
    /\ pc[r] = "collect" /\ Ready(r) /\ Goto(r, "embed")
    /\ \E n \in {m \in Notes : said[m] = NoText} :
          /\ note' = [note EXCEPT ![r] = n] /\ notes' = notes \cup {n}
          /\ said' = [said EXCEPT ![n] = [words |-> words[r], heard |-> Heard]]
    /\ UNCHANGED <<row, atts, trs, inserted, files, points, drawn, kind, target, keys, words,
                   into, over, ghosts, asked, faults>>

UpsertPoint(r) ==
    /\ pc[r] = "embed" /\ points' = points \cup {note[r]} /\ Goto(r, "mark")
    /\ UNCHANGED <<row, atts, trs, inserted, files, notes, said, drawn, kind, target, keys,
                   words, into, note, over, ghosts, asked, faults>>

\* Mutant: the error of the vector store is swallowed.
UpsertFailsSwallowed(r) ==
    /\ pc[r] = "embed" /\ Goto(r, "mark")
    /\ UNCHANGED <<stores, kind, target, keys, words, into, note, over, ghosts, asked, faults>>

\* Embedding or upsert raises; the point may have been written all the same.
UpsertFails(r) ==
    /\ pc[r] = "embed" /\ Goto(r, "cleanup")
    /\ \/ UNCHANGED <<points, contested, faults>>
       \/ Fault /\ points' = points \cup {note[r]} /\ contested' = contested \cup {note[r]}
    /\ UNCHANGED <<row, atts, trs, inserted, files, notes, said, drawn, kind, target, keys,
                   words, into, note, over, torn, doubtful, asked>>

\* Mutant: the note of a failed index is not taken back.
DeleteNoteSkipped(r) ==
    /\ pc[r] = "cleanup" /\ Goto(r, "fail")
    /\ UNCHANGED <<stores, kind, target, keys, words, into, note, over, ghosts, asked, faults>>

\* A note that cannot be deleted is logged and stays.
DeleteNote(r) ==
    /\ pc[r] = "cleanup" /\ Goto(r, "fail")
    /\ \/ notes' = notes \ {note[r]} /\ UNCHANGED <<contested, faults>>
       \/ Fault /\ contested' = contested \cup {note[r]} /\ UNCHANGED notes
    /\ UNCHANGED <<row, atts, trs, inserted, files, points, said, drawn, kind, target, keys,
                   words, into, note, over, torn, doubtful, asked>>

MarkFailed(r) ==
    /\ pc[r] = "fail"
    /\ row' = IF There THEN [row EXCEPT !.status = "failed"] ELSE row
    /\ Done(r)
    /\ UNCHANGED <<atts, trs, inserted, files, notes, points, said, drawn, ghosts, asked, faults>>

MarkIndexed(r) ==
    /\ pc[r] = "mark"
    /\ row' = IF There THEN [row EXCEPT !.status = "indexed", !.note = note[r]] ELSE row
    /\ contested' = IF over[r] \cap {"index", "delete"} = {} THEN contested ELSE contested \cup {note[r]}
    /\ doubtful' = IF over[r] \cap Edits = {} THEN doubtful ELSE doubtful \cup {note[r]}
    /\ Done(r)
    /\ UNCHANGED <<atts, trs, inserted, files, notes, points, said, drawn, torn, asked, faults>>

(***************************************************************************)
(* A statement that raises where no handler waits for it ends the request; *)
(* a stop of the process ends them all.                                    *)
(***************************************************************************)
Touched(r) == IF kind[r] = "upload" /\ target[r] # None THEN {target[r]}
              ELSE IF kind[r] \in {"delete", "unattach"} THEN keys[r] ELSE {}
Held(r) == IF note[r] = None THEN {} ELSE {note[r]}

Abandon(r) ==
    /\ pc[r] \notin {"idle", "unlink", "store", "insert", "embed", "cleanup"} /\ Fault /\ Done(r)
    /\ torn' = torn \cup Touched(r) /\ contested' = contested \cup Held(r)
    /\ UNCHANGED <<stores, doubtful, asked>>

Crash ==
    /\ Active # {} /\ Fault
    /\ torn' = torn \cup UNION {Touched(r) : r \in Requests}
    /\ contested' = contested \cup UNION {Held(r) : r \in Requests}
    /\ pc' = [r \in Requests |-> "idle"] /\ kind' = [r \in Requests |-> None]
    /\ target' = [r \in Requests |-> None] /\ keys' = [r \in Requests |-> {}]
    /\ words' = [r \in Requests |-> Blank] /\ into' = [r \in Requests |-> 0]
    /\ note' = [r \in Requests |-> None] /\ over' = [r \in Requests |-> {}]
    /\ UNCHANGED <<stores, doubtful, asked>>

Patch(r) == ReadForPatch(r) \/ CheckAttachments(r) \/ WritePatch(r)
Delete(r) == ReadForDelete(r) \/ ReadKeys(r) \/ Unlink(r) \/ DeleteRow(r)
Unattach(r) == ReadForUnattach(r) \/ ReadKey(r) \/ DeleteAttachment(r)
Upload(r) == ReadForUpload(r) \/ StoreFile(r) \/ InsertAttachment(r) \/ TakeBack(r)
Transcribe(r) == \/ ReadForTranscribe(r) \/ Prepare(r) \/ ReadAudio(r)
                 \/ \E ok \in BOOLEAN : UpdateTranscript(r, ok) \/ InsertTranscript(r, ok)
Index(r) == \/ ReadForIndex(r) \/ ReadAttachments(r) \/ NotReady(r) \/ InsertNote(r)
            \/ UpsertPoint(r) \/ UpsertFails(r) \/ DeleteNote(r) \/ MarkFailed(r) \/ MarkIndexed(r)

Next ==
    \/ \E r \in Requests :
          \/ \E k \in Kinds : Begin(r, k)
          \/ Refused(r) \/ Patch(r) \/ Delete(r) \/ Unattach(r) \/ Upload(r)
          \/ Transcribe(r) \/ Index(r) \/ Abandon(r)
    \/ Crash

Spec == Init /\ [][Next]_vars

-----------------------------------------------------------------------------
TypeOK ==
    /\ row \in [status : {"gone", "pending", "failed", "indexed"}, note : Notes \cup {None}, words : Words]
    /\ ~There => row = NoRow
    /\ atts \subseteq Atts /\ files \subseteq Atts /\ drawn \subseteq Atts
    /\ trs \in [Trs -> [att : Atts, ok : BOOLEAN] \cup {NoTr}] /\ inserted \in 0 .. MaxTranscripts
    /\ \A t \in Trs : trs[t] # NoTr => t <= inserted /\ trs[t].att \in atts
    /\ notes \subseteq Notes /\ points \subseteq Notes
    /\ said \in [Notes -> [words : Words, heard : SUBSET Trs]]
    /\ pc \in [Requests -> {"idle", "read", "check", "write", "keys", "unlink", "row", "key", "store",
                            "insert", "prepare", "hear", "finish", "view", "collect", "embed", "mark",
                            "cleanup", "fail"}]
    /\ kind \in [Requests -> Kinds \cup {None}] /\ target \in [Requests -> Atts \cup {None}]
    /\ keys \in [Requests -> SUBSET Atts] /\ words \in [Requests -> Words]
    /\ into \in [Requests -> 0 .. MaxTranscripts] /\ note \in [Requests -> Notes \cup {None}]
    /\ over \in [Requests -> SUBSET Kinds]
    /\ torn \subseteq Atts /\ contested \subseteq Notes /\ doubtful \subseteq Notes
    /\ asked \in 0 .. MaxRequests /\ faults \in 0 .. MaxFaults

\* An indexed capture is in memory: the note it names and the note's point are
\* there, whatever requests overlapped, failed or died on the way, although
\* every failing index deletes a note and no step looks at the status again.
MemoryStands ==
    row.status = "indexed" => row.note \in notes \cap points

\* The memory holds nothing else of the capture: unless two requests that index
\* or delete it overlapped, or a call failed half-way, every note and every
\* point but those of an index under way is the one the capture names.
OnlyMemory ==
    \A n \in (notes \cup points) \ contested :
        \/ row.note = n
        \/ \E r \in Requests : note[r] = n

\* What was promoted is what was reviewed: unless an edit overlapped the index,
\* the note says what the indexed capture says, all its recordings included,
\* and goes on doing so, because every later edit is refused.
NoteIsCapture ==
    row.status = "indexed" /\ row.note \notin doubtful =>
        /\ said[row.note] = Content
        /\ \A a \in atts : TranscriptsOf(a) \cap Heard # {}

\* Rows and bytes agree: no recording stays on disk after its row or its capture
\* was deleted, and no row is left without its bytes, unless a call failed, the
\* process died, or an upload overlapped the delete of its capture.
FilesMatch ==
    \A a \in Atts \ (torn \cup UNION {Touched(r) : r \in Requests}) :
        a \in atts <=> a \in files

\* A complete transcript is not lost to a later attempt, unless two
\* transcriptions overlapped: the second could update the row the first filled.
TranscriptKept ==
    [][\A t \in Trs : trs[t].ok =>
          \/ trs'[t] = trs[t]
          \/ trs[t].att \notin atts'
          \/ \E r \in Requests : pc[r] = "finish" /\ pc'[r] = "idle" /\ "transcribe" \in over[r]]_vars
=============================================================================
