---------------------------- MODULE CaptureOutbox ----------------------------
(***************************************************************************)
(* The outbox of the web client (pwa/captureOutbox.ts) and the requests    *)
(* that empty it: items saved on the device while offline, sent by hand to *)
(* the server, discarded once they are there or when the owner says so.    *)
(*                                                                         *)
(* IndexedDB holds three kinds of keys, an index of ids, a meta record and *)
(* the blob of a recording, and each get, set and del is a transaction of  *)
(* its own.  Tabs of one browser share it; the page lets a tab do one      *)
(* thing at a time.  The server finds a repeated create by its client_id   *)
(* (create_capture), and a repeated upload by its client_attachment_id     *)
(* (add_capture_attachment).                                               *)
(*                                                                         *)
(* Abstracted: the order of the index and the status of a meta record,     *)
(* which decide nothing (every status is sent again); the caps on clips    *)
(* and bytes.  What the owner does to a capture on the server is one step  *)
(* each here; Captures has the detail.                                     *)
(***************************************************************************)
EXTENDS Naturals, FiniteSets

CONSTANTS
    Tabs,        \* tabs of the browser
    Items,       \* ids for items, each drawn once
    Audio,       \* those that are recordings
    None,
    MaxOps,      \* bound on what the owner asks for
    MaxFaults    \* bound on reloads, lost messages and refused writes

ASSUME OutboxAssumption ==
    /\ Audio \subseteq Items /\ None \notin Items \cup {"add", "discard", "sync"}
    /\ MaxOps \in Nat /\ MaxFaults \in Nat

VARIABLES
    index, metas, blobs,     \* IndexedDB
    captures,                \* rows of captures: [item, id], ids drawn in order
    made,                    \* how many were ever inserted
    edited,                  \* captures the owner has changed on the server
    indexed,                 \* captures that were promoted to memory
    attached,                \* captures whose recording is attached
    late,                    \* requests the server works on after the tab gave up
    pc, op, item,            \* per tab: step, operation, the item in hand
    capture,                 \* ... the capture it became, or 0
    work,                    \* ... items of its list still to be sent
    ids,                     \* ... the index it has read
    drawn, saved, discarded, \* ghost: ids used, saves acknowledged, removals asked for
    clashed,                 \* ghost: two tabs changed the index at once
    broken,                  \* ghost: recordings whose save or removal was cut short
    asked, faults

device == <<index, metas, blobs>>
server == <<captures, made, edited, indexed, attached, late>>
locals == <<pc, op, item, capture, work, ids>>
ghosts == <<drawn, saved, discarded, clashed, broken>>
vars == <<device, server, locals, ghosts, asked, faults>>

Init ==
    /\ index = {} /\ metas = {} /\ blobs = {}
    /\ captures = {} /\ edited = {} /\ indexed = {} /\ attached = {} /\ late = {} /\ made = 0
    /\ pc = [t \in Tabs |-> "idle"] /\ op = [t \in Tabs |-> None] /\ item = [t \in Tabs |-> None]
    /\ capture = [t \in Tabs |-> 0]
    /\ work = [t \in Tabs |-> {}] /\ ids = [t \in Tabs |-> {}]
    /\ drawn = {} /\ saved = {} /\ discarded = {} /\ clashed = FALSE /\ broken = {}
    /\ asked = 0 /\ faults = 0

Goto(t, step) == pc' = [pc EXCEPT ![t] = step]
Step(t, from, to) == pc[t] = from /\ Goto(t, to)

Done(t) ==
    /\ pc' = [pc EXCEPT ![t] = "idle"] /\ op' = [op EXCEPT ![t] = None]
    /\ item' = [item EXCEPT ![t] = None] /\ work' = [work EXCEPT ![t] = {}]
    /\ ids' = [ids EXCEPT ![t] = {}] /\ capture' = [capture EXCEPT ![t] = 0]

\* A refused write, a lost message or a reload.
Fault == faults < MaxFaults /\ faults' = faults + 1

Ask(t) == pc[t] = "idle" /\ asked < MaxOps /\ asked' = asked + 1

(***************************************************************************)
(* addTextUrlOutboxItem, addAudioOutboxItem: blob, index, meta             *)
(***************************************************************************)
Add(t, i) ==
    /\ Ask(t) /\ i \notin drawn /\ drawn' = drawn \cup {i}
    /\ Goto(t, IF i \in Audio THEN "blob" ELSE "append")
    /\ op' = [op EXCEPT ![t] = "add"] /\ item' = [item EXCEPT ![t] = i]
    /\ UNCHANGED <<device, server, capture, work, ids, saved, discarded, clashed, broken, faults>>

PutBlob(t) ==
    /\ Step(t, "blob", "append") /\ blobs' = blobs \cup {item[t]}
    /\ UNCHANGED <<index, metas, server, op, item, capture, work, ids, ghosts, asked, faults>>

SaveMeta(t) ==
    /\ pc[t] = "meta" /\ Done(t)
    /\ metas' = metas \cup {item[t]} /\ saved' = saved \cup {item[t]}
    /\ UNCHANGED <<index, blobs, server, drawn, discarded, clashed, broken, asked, faults>>

\* What a failed save of a recording takes back.
TakeBack(t) ==
    /\ pc[t] = "unblob" /\ Done(t) /\ blobs' = blobs \ {item[t]}
    /\ UNCHANGED <<index, metas, server, ghosts, asked, faults>>

\* Mutant: the blob of a failed save is left.
AddRefusedLeft(t) ==
    /\ pc[t] \in {"append", "appending", "meta"} /\ Fault /\ Done(t)
    /\ UNCHANGED <<device, server, ghosts, asked>>

\* A write of an add that IndexedDB refuses is reported to the owner.
AddRefused(t) ==
    /\ pc[t] \in {"blob", "append", "appending", "meta", "unblob"} /\ Fault
    /\ broken' = IF pc[t] = "unblob" THEN broken \cup {item[t]} ELSE broken
    /\ IF item[t] \in Audio /\ pc[t] \notin {"blob", "unblob"}
         THEN Goto(t, "unblob") /\ UNCHANGED <<op, item, capture, work, ids>>
         ELSE Done(t)
    /\ UNCHANGED <<device, server, drawn, saved, discarded, clashed, asked>>

(***************************************************************************)
(* appendToIndex, removeFromIndex: a get, and a set of what it returned    *)
(* with the item put in or left out                                        *)
(***************************************************************************)
Changing == {t \in Tabs : pc[t] \in {"appending", "removing"}}

ReadIndex(t) ==
    /\ \/ Step(t, "append", "appending")
       \/ Step(t, "remove", "removing")
    /\ ids' = [ids EXCEPT ![t] = index]
    /\ clashed' = (clashed \/ Changing # {})
    /\ UNCHANGED <<device, server, op, item, capture, work, drawn, saved, discarded, broken, asked, faults>>

WriteAppended(t) ==
    /\ Step(t, "appending", "meta") /\ index' = ids[t] \cup {item[t]}
    /\ ids' = [ids EXCEPT ![t] = {}]
    /\ UNCHANGED <<metas, blobs, server, op, item, capture, work, ghosts, asked, faults>>

WriteRemoved(t) ==
    /\ pc[t] = "removing" /\ index' = ids[t] \ {item[t]}
    /\ IF op[t] = "discard"
         THEN Done(t)
         ELSE /\ Goto(t, "next") /\ item' = [item EXCEPT ![t] = None]
              /\ ids' = [ids EXCEPT ![t] = {}]
              /\ capture' = [capture EXCEPT ![t] = 0] /\ UNCHANGED <<op, work>>
    /\ UNCHANGED <<metas, blobs, server, ghosts, asked, faults>>

\* The only error discardOutboxItem raises; a sync takes it for a failed item.
RemoveRefused(t) ==
    /\ pc[t] \in {"remove", "removing"} /\ Fault
    /\ IF op[t] = "discard"
         THEN Done(t)
         ELSE Goto(t, "fail") /\ ids' = [ids EXCEPT ![t] = {}] /\ UNCHANGED <<op, item, capture, work>>
    /\ UNCHANGED <<device, server, drawn, saved, discarded, clashed, broken, asked>>

(***************************************************************************)
(* discardOutboxItem: blob, meta, index.  The kind is in the meta record:  *)
(* without it the blob is not looked for.  A del that fails is ignored.    *)
(***************************************************************************)
Discard(t, i) ==
    /\ Ask(t) /\ i \in saved /\ discarded' = discarded \cup {i}
    /\ Goto(t, "kind") /\ op' = [op EXCEPT ![t] = "discard"] /\ item' = [item EXCEPT ![t] = i]
    /\ UNCHANGED <<device, server, capture, work, ids, drawn, saved, clashed, broken, faults>>

ReadKind(t) ==
    /\ pc[t] = "kind" /\ Goto(t, IF item[t] \in metas \cap Audio THEN "delblob" ELSE "delmeta")
    /\ UNCHANGED <<device, server, op, item, capture, work, ids, ghosts, asked, faults>>

DelBlob(t) ==
    /\ Step(t, "delblob", "delmeta")
    /\ \/ blobs' = blobs \ {item[t]} /\ UNCHANGED <<broken, faults>>
       \/ Fault /\ broken' = broken \cup {item[t]} /\ UNCHANGED blobs
    /\ UNCHANGED <<index, metas, server, op, item, capture, work, ids, drawn, saved, discarded, clashed, asked>>

DelMeta(t) ==
    /\ Step(t, "delmeta", "remove")
    /\ \/ metas' = metas \ {item[t]} /\ UNCHANGED <<broken, faults>>
       \/ Fault /\ UNCHANGED <<metas, broken>>
    /\ UNCHANGED <<index, blobs, server, op, item, capture, work, ids, drawn, saved, discarded, clashed, asked>>

(***************************************************************************)
(* syncOutbox: the list is read once, then each item is sent in its turn.  *)
(***************************************************************************)
Sync(t) ==
    /\ Ask(t) /\ Goto(t, "list") /\ op' = [op EXCEPT ![t] = "sync"]
    /\ ids' = [ids EXCEPT ![t] = index]
    /\ UNCHANGED <<device, server, item, capture, work, ghosts, faults>>

ListMetas(t) ==
    /\ Step(t, "list", "next")
    /\ work' = [work EXCEPT ![t] = ids[t] \cap metas] /\ ids' = [ids EXCEPT ![t] = {}]
    /\ UNCHANGED <<device, server, op, item, capture, ghosts, asked, faults>>

\* The meta record is written as syncing, whether it is still there or not.
TakeItem(t, i) ==
    /\ Step(t, "next", "create") /\ i \in work[t]
    /\ work' = [work EXCEPT ![t] = @ \ {i}] /\ item' = [item EXCEPT ![t] = i]
    /\ metas' = metas \cup {i}
    /\ UNCHANGED <<index, blobs, server, op, capture, ids, ghosts, asked, faults>>

SyncEnds(t) ==
    /\ pc[t] = "next" /\ work[t] = {} /\ Done(t)
    /\ UNCHANGED <<device, server, ghosts, asked, faults>>

\* ... and written as failed, from the copy that was listed.
ItemFails(t) ==
    /\ Step(t, "fail", "next") /\ metas' = metas \cup {item[t]}
    /\ item' = [item EXCEPT ![t] = None] /\ capture' = [capture EXCEPT ![t] = 0]
    /\ UNCHANGED <<index, blobs, server, op, work, ids, ghosts, asked, faults>>

\* saveMeta of a sync stands in no handler: its error ends the sync.
SyncRefused(t) ==
    /\ pc[t] \in {"list", "next", "fail"} /\ Fault /\ Done(t)
    /\ UNCHANGED <<device, server, drawn, saved, discarded, clashed, broken, asked>>

LoadBlob(t) ==
    /\ pc[t] = "load" /\ Goto(t, IF item[t] \in blobs THEN "upload" ELSE "fail")
    /\ UNCHANGED <<device, server, op, item, capture, work, ids, ghosts, asked, faults>>

(***************************************************************************)
(* create_capture: a SELECT by client_id, and an INSERT that the unique    *)
(* index on (user_id, local_client_id) lets one of two requests win.  A    *)
(* repeated request must carry the fields of the row, its derived          *)
(* capture_type included, which an attachment turns into mixed.            *)
(***************************************************************************)
Rows(i) == {c \in captures : c.item = i}
\* Mutant: without the unique index.
InsertAlways(i) == captures' = captures \cup {[item |-> i, id |-> made + 1]} /\ made' = made + 1

Insert(i) ==
    IF Rows(i) = {} THEN captures' = captures \cup {[item |-> i, id |-> made + 1]} /\ made' = made + 1
                    ELSE UNCHANGED <<captures, made>>
\* Mutant: a recording leaves the device as soon as its capture is there.
AfterCreateAtOnce(i) == "kind"
AfterCreate(i) == IF i \in Audio THEN "load" ELSE "kind"

Conflict(c) == c.id \in edited \cup attached

CreateSelect(t) ==
    /\ pc[t] = "create"
    /\ \/ Rows(item[t]) = {} /\ Goto(t, "insert") /\ UNCHANGED capture
       \/ \E c \in Rows(item[t]) :
             IF Conflict(c)
               THEN Goto(t, "fail") /\ UNCHANGED capture
               ELSE Goto(t, AfterCreate(item[t])) /\ capture' = [capture EXCEPT ![t] = c.id]
    /\ UNCHANGED <<device, server, op, item, work, ids, ghosts, asked, faults>>

CreateInsert(t) ==
    /\ pc[t] = "insert" /\ Insert(item[t])
    /\ IF Rows(item[t]) = {}
         THEN Goto(t, AfterCreate(item[t])) /\ capture' = [capture EXCEPT ![t] = made + 1]
         ELSE Goto(t, "fail") /\ UNCHANGED capture
    /\ UNCHANGED <<device, edited, indexed, attached, late, op, item, work, ids, ghosts, asked, faults>>

(***************************************************************************)
(* add_capture_attachment: the capture must be there and not indexed; then *)
(* a known client_attachment_id is answered, a new one stored.             *)
(***************************************************************************)
Accepted(id) == id \notin indexed /\ \E c \in captures : c.id = id
Attach(id) == attached' = IF Accepted(id) THEN attached \cup {id} ELSE attached

Upload(t) ==
    /\ pc[t] = "upload" /\ Attach(capture[t])
    /\ Goto(t, IF Accepted(capture[t]) THEN "kind" ELSE "fail")
    /\ UNCHANGED <<device, captures, made, edited, indexed, late, op, item, capture, work, ids,
                   ghosts, asked, faults>>

\* No answer: the request never came, or the server is still at it.
Pending(t) == IF pc[t] \in {"create", "insert", "upload"}
                THEN {[step |-> pc[t], item |-> item[t], id |-> capture[t]]} ELSE {}

AnswerLost(t) ==
    /\ Pending(t) # {} /\ Fault /\ Goto(t, "fail") /\ late' \in {late, late \cup Pending(t)}
    /\ UNCHANGED <<device, captures, made, edited, indexed, attached, op, item, capture, work, ids,
                   drawn, saved, discarded, clashed, broken, asked>>

Late(request) ==
    /\ late' = late \ {request}
    /\ IF request.step = "upload" THEN Attach(request.id) /\ UNCHANGED <<captures, made>>
                                  ELSE Insert(request.item) /\ UNCHANGED attached
    /\ UNCHANGED <<device, edited, indexed, locals, ghosts, asked, faults>>

(***************************************************************************)
(* The owner at the server: patch_capture, index_capture, delete_capture   *)
(***************************************************************************)
Edit(c) ==
    /\ asked < MaxOps /\ asked' = asked + 1 /\ c.id \notin indexed
    /\ edited' = edited \cup {c.id}
    /\ UNCHANGED <<device, captures, made, indexed, attached, late, locals, ghosts, faults>>

Promote(c) ==
    /\ asked < MaxOps /\ asked' = asked + 1 /\ c.id \notin indexed
    /\ indexed' = indexed \cup {c.id}
    /\ UNCHANGED <<device, captures, made, edited, attached, late, locals, ghosts, faults>>

Remove(c) ==
    /\ asked < MaxOps /\ asked' = asked + 1 /\ c.id \notin indexed
    /\ captures' = captures \ {c} /\ discarded' = discarded \cup {c.item}
    /\ UNCHANGED <<device, made, edited, indexed, attached, late, locals, drawn, saved, clashed,
                   broken, faults>>

\* The page is closed or loaded again in the middle of something.
Reload(t) ==
    /\ pc[t] # "idle" /\ Fault /\ Done(t)
    /\ broken' = IF op[t] = "add" THEN broken \cup {item[t]} ELSE broken
    /\ late' \in {late, late \cup Pending(t)}
    /\ UNCHANGED <<device, captures, made, edited, indexed, attached, drawn, saved, discarded,
                   clashed, asked>>

Next ==
    \/ \E t \in Tabs :
          \/ \E i \in Items : Add(t, i) \/ Discard(t, i) \/ TakeItem(t, i)
          \/ PutBlob(t) \/ SaveMeta(t) \/ TakeBack(t) \/ AddRefused(t)
          \/ ReadIndex(t) \/ WriteAppended(t) \/ WriteRemoved(t) \/ RemoveRefused(t)
          \/ ReadKind(t) \/ DelBlob(t) \/ DelMeta(t)
          \/ Sync(t) \/ ListMetas(t) \/ SyncEnds(t) \/ ItemFails(t) \/ SyncRefused(t) \/ LoadBlob(t)
          \/ CreateSelect(t) \/ CreateInsert(t) \/ Upload(t) \/ AnswerLost(t) \/ Reload(t)
    \/ \E request \in late : Late(request)
    \/ \E c \in captures : Edit(c) \/ Promote(c) \/ Remove(c)

Spec == Init /\ [][Next]_vars

-----------------------------------------------------------------------------
\* The steps of saving, of removing and of sending an item
Adding == {"blob", "append", "appending", "meta", "unblob"}
Removing == {"kind", "delblob", "delmeta", "remove", "removing"}
Sending == {"list", "next", "create", "insert", "load", "upload", "fail"}
Steps == {"idle"} \cup Adding \cup Removing \cup Sending

TypeOK ==
    /\ index \subseteq Items /\ metas \subseteq Items /\ blobs \subseteq Items
    /\ captures \subseteq [item : Items, id : Nat] /\ made \in Nat
    /\ edited \subseteq Nat /\ indexed \subseteq Nat /\ attached \subseteq Nat
    /\ late \subseteq [step : {"create", "insert", "upload"}, item : Items, id : Nat]
    /\ pc \in [Tabs -> Steps] /\ op \in [Tabs -> {None, "add", "discard", "sync"}]
    /\ item \in [Tabs -> Items \cup {None}] /\ capture \in [Tabs -> Nat]
    /\ work \in [Tabs -> SUBSET Items] /\ ids \in [Tabs -> SUBSET Items]
    /\ drawn \subseteq Items /\ saved \subseteq Items /\ discarded \subseteq Items
    /\ clashed \in BOOLEAN /\ broken \subseteq Items
    /\ asked \in 0 .. MaxOps /\ faults \in 0 .. MaxFaults

OnDevice(i) == i \in index \cap metas /\ (i \in Audio => i \in blobs)
AtServer(i) == \E c \in Rows(i) : i \in Audio => c.id \in attached

\* An item whose save was acknowledged and that its owner did not remove is
\* never lost and never doubled: it is whole on the device until it is whole on
\* the server, where one capture stands for it, over retries, answers that never
\* come or come too late, and reloads; unless two tabs changed the index at once.
KeptOnce ==
    /\ \A i \in saved \ discarded : clashed \/ OnDevice(i) \/ AtServer(i)
    /\ \A c, d \in captures : c.item = d.item => c = d

\* No recording stays on the device where nobody can see or discard it: a blob is
\* listed, or in hand, although any write may be refused; unless the page was left
\* while it was saved, its deletion failed, or two tabs changed the index at once.
NoStrandedBlob ==
    \A i \in blobs \ broken :
        clashed \/ i \in index \cap metas \/ \E t \in Tabs : item[t] = i

\* What the outbox promises of each item, whatever tabs, retries, late answers and
\* reloads do.
Held   == {i \in Items : OnDevice(i)}
Copies == [i \in Items |-> {c.id : c \in Rows(i)}]
Whole  == {i \in Items : AtServer(i)}

Delivery == INSTANCE DeliveryLedger WITH
              released <- discarded, excused <- clashed,
              held <- Held, copies <- Copies, whole <- Whole

\* syncOutbox, discardOutboxItem, create_capture: an item reaches the server only
\* after its save was acknowledged, as one capture that nothing but the owner
\* replaces, and no step takes it from the device before the server has it whole
\* or its owner let it go.
ImplementsDeliveryLedger == Delivery!Spec

\* routes/api_v1/captures.py: a replay with the same client_id is answered with
\* the original capture.  So only what the owner changed on the server, or a
\* message that is lost, may fail the create of an item.
ReplayAnswered ==
    [][\A t \in Tabs : pc[t] = "create" /\ pc'[t] = "fail" /\ faults' = faults =>
          \E c \in Rows(item[t]) : c.id \in edited]_vars
=============================================================================
