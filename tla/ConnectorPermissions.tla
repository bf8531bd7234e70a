------------------------ MODULE ConnectorPermissions ------------------------
(***************************************************************************)
(* The Ask/Do modes of connectors (orchestrator/permissions.py): one row    *)
(* of connector_permissions per user and connector, and the dictionary in   *)
(* front of it.  A slot is a pair of one user and one connector.  A reader  *)
(* that misses the cache reads the row and stores what it read in a later    *)
(* step; a writer changes the row and drops the cached value in a later      *)
(* step.  No lock orders the two.                                            *)
(*                                                                           *)
(* The granted scopes share the cached value and its path with the mode and  *)
(* are not modelled apart from it.                                           *)
(***************************************************************************)

CONSTANTS Slots,    \* pairs of a user and a connector
          Threads,  \* threads that ask for a permission
          Editors,  \* threads that change one
          NoSlot    \* no pair

ASSUME NoSlotAssumption == NoSlot \notin Slots

VARIABLES mode,     \* the row of the table, "none" when there is none
          cache,    \* _perm_cache, "miss" when the slot is not in it
          reading,  \* the slot a thread has read and not yet stored
          value,    \* the mode it read, "ASK" when it has stored it
          editing,  \* the slot whose row a thread wrote and has not yet dropped
          overlapped \* slots whose row was written while a thread held a read of it

permissionVars == <<mode, cache, reading, value, editing, overlapped>>

Modes == {"ASK", "DO"}

PermissionTypeOK ==
    /\ mode \in [Slots -> Modes \cup {"none"}]
    /\ cache \in [Slots -> Modes \cup {"miss"}]
    /\ reading \in [Threads -> Slots \cup {NoSlot}]
    /\ value \in [Threads -> Modes]
    /\ editing \in [Editors -> Slots \cup {NoSlot}]
    /\ overlapped \subseteq Slots

PermissionInit ==
    /\ mode = [s \in Slots |-> "none"]
    /\ cache = [s \in Slots |-> "miss"]
    /\ reading = [t \in Threads |-> NoSlot]
    /\ value = [t \in Threads |-> "ASK"]
    /\ editing = [e \in Editors |-> NoSlot]
    /\ overlapped = {}

\* The mode a read of the table gives: without a row, the default.
Effective(s) == IF mode[s] = "none" THEN "ASK" ELSE mode[s]

-----------------------------------------------------------------------------
\* The cache answers.
Cached(s) ==
    /\ cache[s] # "miss"
    /\ UNCHANGED permissionVars

\* The SELECT of a miss.
ReadRow(t, s) ==
    /\ cache[s] = "miss"
    /\ reading' = [reading EXCEPT ![t] = s]
    /\ value' = [value EXCEPT ![t] = Effective(s)]
    /\ UNCHANGED <<mode, cache, editing, overlapped>>

\* What was read is put in the cache, whatever happened since.
StoreRead(t) ==
    /\ reading[t] # NoSlot
    /\ cache' = [cache EXCEPT ![reading[t]] = value[t]]
    /\ reading' = [reading EXCEPT ![t] = NoSlot]
    /\ value' = [value EXCEPT ![t] = "ASK"]
    /\ UNCHANGED <<mode, editing, overlapped>>

\* A statement on the row of slot s; the slot is dropped in a later step.
WriteRow(e, s, m) ==
    /\ editing[e] = NoSlot
    /\ mode' = [mode EXCEPT ![s] = m]
    /\ editing' = [editing EXCEPT ![e] = s]
    /\ overlapped' = IF \E t \in Threads : reading[t] = s
                     THEN overlapped \cup {s} ELSE overlapped
    /\ UNCHANGED <<cache, reading, value>>

\* set_connector_mode
SetMode(e, s) == \E m \in Modes : WriteRow(e, s, m)

\* grant_scopes: the row is created with the default mode or keeps its own.
GrantScopes(e, s) == WriteRow(e, s, Effective(s))

DeleteRowUndropped(e, s) ==
    /\ editing[e] = NoSlot
    /\ mode' = [mode EXCEPT ![s] = "none"]
    /\ UNCHANGED <<cache, reading, value, editing, overlapped>>

\* delete_user_permission
DeleteRow(e, s) == WriteRow(e, s, "none")

\* A read of slot s that no longer says what the row says.
HeldStale(s) == \E t \in Threads : reading[t] = s /\ value[t] # Effective(s)

StillOverlapped(S) == {s \in overlapped : s \notin S \/ HeldStale(s)}

\* invalidate_cache after the statement.
DropSlot(e) ==
    /\ editing[e] # NoSlot
    /\ cache' = [cache EXCEPT ![editing[e]] = "miss"]
    /\ overlapped' = StillOverlapped({editing[e]})
    /\ editing' = [editing EXCEPT ![e] = NoSlot]
    /\ UNCHANGED <<mode, reading, value>>

\* A user is disabled or deleted: the rows stay, every slot of the user is
\* dropped from the cache.
DropUser(S) ==
    /\ cache' = [s \in Slots |-> IF s \in S THEN "miss" ELSE cache[s]]
    /\ overlapped' = StillOverlapped(S)
    /\ UNCHANGED <<mode, reading, value, editing>>

\* The process stops: threads and cache are gone, rows are not.
PermissionCrash ==
    /\ cache' = [s \in Slots |-> "miss"]
    /\ reading' = [t \in Threads |-> NoSlot]
    /\ editing' = [e \in Editors |-> NoSlot]
    /\ value' = [t \in Threads |-> "ASK"]
    /\ overlapped' = {}
    /\ UNCHANGED mode

-----------------------------------------------------------------------------
(* A cached mode differs from the row only while the change that made it so *)
(* has not dropped the slot yet, or because that change overlapped a read   *)
(* (permissions.py:95 stores what permissions.py:85 read).  In every other  *)
(* order a revoked DO stops authorizing as soon as the request that revoked *)
(* it has answered.                                                         *)
StaleOnlyByOverlap ==
    \A s \in Slots :
        cache[s] \notin {"miss", Effective(s)} =>
            s \in overlapped \/ \E e \in Editors : editing[e] = s

=============================================================================
