--------------------------- MODULE ActionProposals ---------------------------
(***************************************************************************)
(* Approved actions and their execution: the rows of action_proposals        *)
(* (services/proposal_queue.py), the dispatcher that claims one and runs it  *)
(* (actions/proposal_execute.py), the executor with its permission check     *)
(* (actions/executor.py, permissions.py), the audit row of a successful      *)
(* action and its reversal (actions/reversibility.py), the sweep that gives  *)
(* up on old claims, lost answers and crashes of the process.                *)
(*                                                                           *)
(* Every row is of one action; the audit row of a proposal is that of its    *)
(* success.  A handler either succeeds and has its effect, or fails and has  *)
(* none.  Time is abstracted to "the claim is older than the limit".         *)
(***************************************************************************)
EXTENDS ConnectorPermissions, Naturals

CONSTANTS Proposals,
          HardLimited,   \* proposals whose action type may never be executed this way
          Writes,        \* proposals whose action writes
          SlotOf,        \* the user and connector of each proposal
          MaxAttempts,   \* ACTION_PROPOSALS_MAX_ATTEMPTS
          MaxFaults,     \* lost answers and crashes in a behaviour
          NoProposal

ASSUME ProposalAssumption ==
    /\ NoProposal \notin Proposals
    /\ HardLimited \subseteq Proposals
    /\ Writes \subseteq Proposals
    /\ SlotOf \in [Proposals -> Slots]
    /\ MaxAttempts \in Nat \ {0}
    /\ MaxFaults \in Nat

VARIABLES status,    \* of the row
          attempt,   \* failed executions of the row
          claimed,   \* rows with claimed_at set
          overdue,   \* claims older than the limit
          audit,     \* the audit row of the success: none, open or reversed
          at,        \* where a thread is
          job,       \* the proposal it works on
          undoing,   \* threads that reverse instead of execute
          faults,    \* lost answers and crashes so far
          effects,   \* how often the action had its effect
          undone,    \* how often its reverse action had its effect
          swept,     \* rows the sweep gave up on
          contested  \* entries reversed by two requests at once, or whose mark was lost

rows == <<status, attempt, claimed, overdue, swept>>
ledger == <<audit, effects, undone>>
vars == <<rows, ledger, at, job, undoing, faults, contested, permissionVars>>

Places == {"idle", "selected", "check", "lookup", "allowed", "ran", "succeeded", "failed"}

TypeOK ==
    /\ PermissionTypeOK
    /\ status \in [Proposals -> {"pending", "approved", "executing", "done", "dead"}]
    /\ attempt \in [Proposals -> 0..MaxAttempts]
    /\ claimed \subseteq Proposals
    /\ overdue \subseteq Proposals
    /\ audit \in [Proposals -> {"none", "open", "reversed"}]
    /\ at \in [Threads -> Places]
    /\ job \in [Threads -> Proposals \cup {NoProposal}]
    /\ undoing \subseteq Threads
    /\ faults \in 0..MaxFaults
    /\ effects \in [Proposals -> Nat]
    /\ undone \in [Proposals -> Nat]
    /\ swept \subseteq Proposals
    /\ contested \subseteq Proposals

Init ==
    /\ PermissionInit
    /\ status = [p \in Proposals |-> "pending"]
    /\ attempt = [p \in Proposals |-> 0]
    /\ claimed = {}
    /\ overdue = {}
    /\ audit = [p \in Proposals |-> "none"]
    /\ at = [t \in Threads |-> "idle"]
    /\ job = [t \in Threads |-> NoProposal]
    /\ undoing = {}
    /\ faults = 0
    /\ effects = [p \in Proposals |-> 0]
    /\ undone = [p \in Proposals |-> 0]
    /\ swept = {}
    /\ contested = {}

-----------------------------------------------------------------------------
Goto(t, place) == at' = [at EXCEPT ![t] = place]

\* The call returns or raises; what the thread knew is gone.
Return(t) ==
    /\ Goto(t, "idle")
    /\ job' = [job EXCEPT ![t] = NoProposal]
    /\ undoing' = undoing \ {t}

Continue(t, place) ==
    /\ Goto(t, place)
    /\ UNCHANGED <<job, undoing>>

Fault ==
    /\ faults < MaxFaults
    /\ faults' = faults + 1

\* The user approves a proposal, whatever dispatchers have read (nothing in this
\* repository does so yet).
Approve(p) ==
    /\ status[p] = "pending"
    /\ status' = [status EXCEPT ![p] = "approved"]
    /\ UNCHANGED <<attempt, claimed, overdue, swept, ledger, at, job, undoing, faults,
                   contested, permissionVars>>

\* claim_and_execute_proposal reads the row; an approved row of a hard-limited
\* action is refused, any other status is left to the claim, which does not look
\* at the type: a row approved after the read is claimed whatever its action.
Select(t, p) ==
    /\ at[t] = "idle"
    /\ ~(status[p] = "approved" /\ p \in HardLimited)
    /\ Goto(t, "selected")
    /\ job' = [job EXCEPT ![t] = p]
    /\ UNCHANGED <<rows, ledger, undoing, faults, contested, permissionVars>>

Claimable(p) == status[p] = "approved" /\ p \notin claimed

ClaimRow(p) ==
    /\ Claimable(p)
    /\ status' = [status EXCEPT ![p] = "executing"]
    /\ claimed' = claimed \cup {p}
    /\ overdue' = overdue \ {p}
    /\ UNCHANGED <<attempt, swept>>

\* claim_by_id
Claim(t) ==
    /\ at[t] = "selected"
    /\ ClaimRow(job[t])
    /\ Continue(t, "check")
    /\ UNCHANGED <<ledger, faults, contested, permissionVars>>

\* The row is not to be claimed: 404, 409 or 400.
ClaimRefused(t) ==
    /\ at[t] = "selected"
    /\ ~Claimable(job[t])
    /\ Return(t)
    /\ UNCHANGED <<rows, ledger, faults, contested, permissionVars>>

\* The statement is committed and its answer lost: 503, nobody runs the row.
ClaimLost(t) ==
    /\ at[t] = "selected"
    /\ Fault
    /\ ClaimRow(job[t])
    /\ Return(t)
    /\ UNCHANGED <<ledger, contested, permissionVars>>

-----------------------------------------------------------------------------
\* What check_permission says: only a write needs DO.
Verdict(p, m) == IF p \in Writes /\ m # "DO" THEN "failed" ELSE "allowed"

\* The permission check finds the mode in the cache, or reads the row, or the
\* read raises.
Check(t) ==
    /\ at[t] = "check"
    /\ LET s == SlotOf[job[t]] IN
        \/ /\ Cached(s)
           /\ Continue(t, Verdict(job[t], cache[s]))
           /\ UNCHANGED faults
        \/ /\ ReadRow(t, s)
           /\ Continue(t, "lookup")
           /\ UNCHANGED faults
        \/ /\ cache[s] = "miss"
           /\ Fault
           /\ Continue(t, "failed")
           /\ UNCHANGED permissionVars
    /\ UNCHANGED <<rows, ledger, contested>>

FillCache(t) ==
    /\ at[t] = "lookup"
    /\ StoreRead(t)
    /\ Continue(t, Verdict(job[t], value[t]))
    /\ UNCHANGED <<rows, ledger, faults, contested>>

\* The handler of the action, or of its reverse action.
HandlerSucceeds(t) ==
    /\ at[t] = "allowed"
    /\ IF t \in undoing
       THEN /\ undone' = [undone EXCEPT ![job[t]] = @ + 1]
            /\ UNCHANGED effects
       ELSE /\ effects' = [effects EXCEPT ![job[t]] = @ + 1]
            /\ UNCHANGED undone
    /\ Continue(t, "ran")
    /\ UNCHANGED <<rows, audit, faults, contested, permissionVars>>

HandlerFails(t) ==
    /\ at[t] = "allowed"
    /\ Continue(t, "failed")
    /\ UNCHANGED <<rows, ledger, faults, contested, permissionVars>>

\* write_audit; when its INSERT fails it says so in the log only.
WriteAudit(t) ==
    /\ at[t] = "ran"
    /\ \/ /\ audit' = IF t \in undoing THEN audit ELSE [audit EXCEPT ![job[t]] = "open"]
          /\ UNCHANGED faults
       \/ /\ Fault
          /\ UNCHANGED audit
    /\ Continue(t, "succeeded")
    /\ UNCHANGED <<rows, effects, undone, contested, permissionVars>>

-----------------------------------------------------------------------------
\* fail_execution: an executing row gives up its claim and goes back to
\* approved, or is dead after the last attempt.
Unclaim(p) ==
    IF status[p] = "executing"
    THEN /\ attempt' = [attempt EXCEPT ![p] = @ + 1]
         /\ status' = [status EXCEPT ![p] =
                           IF attempt[p] + 1 < MaxAttempts THEN "approved" ELSE "dead"]
         /\ claimed' = claimed \ {p}
    ELSE UNCHANGED <<attempt, status, claimed>>

MarkDoneOrFail(t) ==
    /\ at[t] = "succeeded" /\ t \notin undoing
    /\ \/ /\ status' = IF status[job[t]] = "executing"
                       THEN [status EXCEPT ![job[t]] = "done"] ELSE status
          /\ UNCHANGED <<faults, attempt, claimed>>
       \/ Fault /\ Unclaim(job[t])
    /\ Return(t)
    /\ UNCHANGED <<overdue, swept, ledger, contested, permissionVars>>

\* mark_done changes a row that is still executing, and no other.
MarkDone(t) ==
    /\ at[t] = "succeeded" /\ t \notin undoing
    /\ \/ /\ status' = IF status[job[t]] = "executing"
                       THEN [status EXCEPT ![job[t]] = "done"] ELSE status
          /\ UNCHANGED faults
       \/ /\ Fault
          /\ UNCHANGED status
    /\ Return(t)
    /\ UNCHANGED <<attempt, claimed, overdue, swept, ledger, contested, permissionVars>>

FailExecution(t) ==
    /\ at[t] = "failed" /\ t \notin undoing
    /\ \/ /\ Unclaim(job[t])
          /\ UNCHANGED faults
       \/ /\ Fault
          /\ UNCHANGED <<attempt, status, claimed>>
    /\ Return(t)
    /\ UNCHANGED <<overdue, swept, ledger, contested, permissionVars>>

\* Time passes.
GrowOld(p) ==
    /\ p \in claimed \ overdue
    /\ overdue' = overdue \cup {p}
    /\ UNCHANGED <<status, attempt, claimed, swept, ledger, at, job, undoing, faults,
                   contested, permissionVars>>

StuckOnlyClaimed == {p \in claimed \cap overdue : status[p] = "claimed"}

\* reset_stuck_claims: every executing row with an old claim is dead.
Stuck == {p \in claimed \cap overdue : status[p] = "executing"}

SweepReopens ==
    /\ Stuck # {}
    /\ status' = [p \in Proposals |-> IF p \in Stuck THEN "approved" ELSE status[p]]
    /\ claimed' = claimed \ Stuck
    /\ swept' = swept \cup Stuck
    /\ UNCHANGED <<attempt, overdue, ledger, at, job, undoing, faults, contested, permissionVars>>

Sweep ==
    /\ Stuck # {}
    /\ status' = [p \in Proposals |-> IF p \in Stuck THEN "dead" ELSE status[p]]
    /\ claimed' = claimed \ Stuck
    /\ swept' = swept \cup Stuck
    /\ UNCHANGED <<attempt, overdue, ledger, at, job, undoing, faults, contested, permissionVars>>

-----------------------------------------------------------------------------
Reversing(p) == {t \in undoing : job[t] = p}

ReadEntryMarked(t, p) ==
    /\ at[t] = "idle"
    /\ audit[p] # "none"
    /\ Goto(t, "check")
    /\ job' = [job EXCEPT ![t] = p]
    /\ undoing' = undoing \cup {t}
    /\ contested' = IF Reversing(p) = {} THEN contested ELSE contested \cup {p}
    /\ UNCHANGED <<rows, ledger, faults, permissionVars>>

\* A reversal reads an entry that is not marked.
ReadEntry(t, p) ==
    /\ at[t] = "idle"
    /\ audit[p] = "open"
    /\ Goto(t, "check")
    /\ job' = [job EXCEPT ![t] = p]
    /\ undoing' = undoing \cup {t}
    /\ contested' = IF Reversing(p) = {} THEN contested ELSE contested \cup {p}
    /\ UNCHANGED <<rows, ledger, faults, permissionVars>>

\* mark_reversed; when its UPDATE fails it says so in the log only.
MarkReversed(t) ==
    /\ at[t] = "succeeded" /\ t \in undoing
    /\ \/ /\ audit' = [audit EXCEPT ![job[t]] = "reversed"]
          /\ UNCHANGED <<faults, contested>>
       \/ /\ Fault
          /\ contested' = contested \cup {job[t]}
          /\ UNCHANGED audit
    /\ Return(t)
    /\ UNCHANGED <<rows, effects, undone, permissionVars>>

ReversalFails(t) ==
    /\ at[t] = "failed" /\ t \in undoing
    /\ Return(t)
    /\ UNCHANGED <<rows, ledger, faults, contested, permissionVars>>

\* The process stops and starts again.
Crash ==
    /\ Fault
    /\ at' = [t \in Threads |-> "idle"]
    /\ job' = [t \in Threads |-> NoProposal]
    /\ undoing' = {}
    /\ contested' = contested \cup {job[t] : t \in undoing}
    /\ PermissionCrash
    /\ UNCHANGED <<rows, ledger>>

\* A change of permissions by a request.
ChangePermission ==
    /\ \/ \E e \in Editors, s \in Slots : SetMode(e, s) \/ GrantScopes(e, s) \/ DeleteRow(e, s)
       \/ \E e \in Editors : DropSlot(e)
       \/ DropUser(Slots)
    /\ UNCHANGED <<rows, ledger, at, job, undoing, faults, contested>>

Execute(t) == Check(t) \/ FillCache(t) \/ HandlerSucceeds(t) \/ HandlerFails(t) \/ WriteAudit(t)

Next ==
    \/ \E p \in Proposals : Approve(p) \/ GrowOld(p)
    \/ \E t \in Threads, p \in Proposals : Select(t, p) \/ ReadEntry(t, p)
    \/ \E t \in Threads :
        \/ Claim(t) \/ ClaimRefused(t) \/ ClaimLost(t)
        \/ Execute(t)
        \/ MarkDone(t) \/ FailExecution(t)
        \/ MarkReversed(t) \/ ReversalFails(t)
    \/ Sweep \/ Crash \/ ChangePermission

\* The clock advances, and the sweep is a periodic job of the scheduler.
Fairness == (\A p \in Proposals : WF_vars(GrowOld(p))) /\ WF_vars(Sweep)

Spec == Init /\ [][Next]_vars /\ Fairness

-----------------------------------------------------------------------------
(* A proposal's action has its effect at most once, over every claim,        *)
(* retry, sweep, lost answer and crash (proposal_queue.py:94 gives up on a   *)
(* claim whose action may still run, and fail_execution reopens rows).       *)
RunsAtMostOnce == \A p \in Proposals : effects[p] <= 1

(* A done row's action ran; an action that ran leaves its row executing or   *)
(* done, unless the sweep gave up on the claim; so no row that ran can be    *)
(* claimed again (proposal_execute.py:170).                                  *)
StatusIsTrue ==
    \A p \in Proposals :
        /\ status[p] = "done" => effects[p] > 0
        /\ effects[p] > 0 => status[p] \in {"executing", "done"} \/ p \in swept

(* A reverse action has its effect only after the action and, unless two     *)
(* requests overlapped or a mark was lost, once (reversibility.py:51).       *)
ReversedOnce ==
    \A p \in Proposals :
        /\ undone[p] > 0 => effects[p] > 0 /\ audit[p] # "none"
        /\ undone[p] > 1 => p \in contested

(* No row stays executing: whatever happened to its dispatcher, the claim    *)
(* ends (main.py:575).                                                       *)
ClaimsEnd == \A p \in Proposals : status[p] = "executing" ~> status[p] # "executing"

(* The queue keeps what ProposalLedger promises of each proposal, whatever   *)
(* happens to its dispatcher (proposal_queue.py:61 to 104): in particular a  *)
(* done or dead row never moves again and an effect is never followed by a   *)
(* retry.                                                                    *)
Promise == INSTANCE ProposalLedger

ImplementsProposalLedger == Promise!Spec

=============================================================================
