------------------------ MODULE ActionProposalsProofs ------------------------
(***************************************************************************)
(* Proofs about ActionProposals and ConnectorPermissions, and that the queue *)
(* implements ProposalLedger: for any number of proposals, threads, slots,  *)
(* editors and faults.                                                      *)
(***************************************************************************)
EXTENDS ActionProposals, TLAPS

USE NoSlotAssumption, ProposalAssumption

-----------------------------------------------------------------------------
(***************************************************************************)
(* Permissions.  What any step does to them, and what stays true of them.   *)
(***************************************************************************)
PermissionStep ==
    \/ UNCHANGED permissionVars
    \/ \E t \in Threads, s \in Slots : ReadRow(t, s)
    \/ \E t \in Threads : StoreRead(t)
    \/ \E e \in Editors, s \in Slots, m \in Modes \cup {"none"} : WriteRow(e, s, m)
    \/ \E e \in Editors : DropSlot(e)
    \/ DropUser(Slots)
    \/ PermissionCrash

\* A read that is out of date is of a slot written meanwhile.
HeldStaleOverlapped == \A s \in Slots : HeldStale(s) => s \in overlapped

PermissionInv == PermissionTypeOK /\ HeldStaleOverlapped /\ StaleOnlyByOverlap

\* The mode a read gives is one of the two.
LEMMA EffectiveType ==
    ASSUME PermissionTypeOK, NEW s \in Slots
    PROVE  Effective(s) \in Modes
  BY DEF PermissionTypeOK, Effective, Modes

\* A cached mode keeps being fresh but for an overlap, over every permission step.
LEMMA PermissionInductive ==
    ASSUME PermissionInv, PermissionStep
    PROVE  PermissionInv'
  <1> USE DEF PermissionInv, PermissionTypeOK, HeldStaleOverlapped, StaleOnlyByOverlap,
              HeldStale, Effective, Modes
  <1>1. CASE UNCHANGED permissionVars
    BY <1>1 DEF permissionVars
  <1>2. ASSUME NEW t \in Threads, NEW s \in Slots, ReadRow(t, s)
        PROVE  PermissionInv'
    BY <1>2 DEF ReadRow
  <1>3. ASSUME NEW t \in Threads, StoreRead(t)
        PROVE  PermissionInv'
    BY <1>3 DEF StoreRead
  <1>4. ASSUME NEW e \in Editors, NEW s \in Slots, NEW m \in Modes \cup {"none"}, WriteRow(e, s, m)
        PROVE  PermissionInv'
    BY <1>4 DEF WriteRow
  <1>5. ASSUME NEW e \in Editors, DropSlot(e)
        PROVE  PermissionInv'
    BY <1>5 DEF DropSlot, StillOverlapped
  <1>6. CASE DropUser(Slots)
    BY <1>6 DEF DropUser, StillOverlapped
  <1>7. CASE PermissionCrash
    BY <1>7 DEF PermissionCrash
  <1> QED
    BY <1>1, <1>2, <1>3, <1>4, <1>5, <1>6, <1>7 DEF PermissionStep

-----------------------------------------------------------------------------
(***************************************************************************)
(* Where threads are.                                                       *)
(***************************************************************************)
Typing ==
    /\ status \in [Proposals -> {"pending", "approved", "executing", "done", "dead"}]
    /\ attempt \in [Proposals -> 0..MaxAttempts]
    /\ claimed \subseteq Proposals
    /\ overdue \subseteq Proposals
    /\ audit \in [Proposals -> {"none", "open", "reversed"}]
    /\ at \in [Threads -> Places]
    /\ job \in [Threads -> Proposals \cup {NoProposal}]
    /\ undoing \subseteq Threads
    /\ faults \in 0..MaxFaults
    /\ effects \in [Proposals -> Nat]
    /\ undone \in [Proposals -> Nat]
    /\ swept \subseteq Proposals
    /\ contested \subseteq Proposals

\* A thread has a job exactly while it is not idle.
AtWork ==
    /\ \A t \in Threads : at[t] = "idle" <=> job[t] = NoProposal
    /\ \A t \in undoing : at[t] \notin {"idle", "selected"}

\* An executing row has an attempt left.
AttemptsLeft == \A p \in Proposals : status[p] \in {"pending", "approved", "executing"} => attempt[p] < MaxAttempts

\* Claims, workers and their threads stay matched over every step.
LEMMA AtWorkInductive ==
    ASSUME Typing, AtWork, [Next]_vars
    PROVE  AtWork'
  <1> USE DEF Typing, AtWork, Places
  <1>1. ASSUME NEW p \in Proposals, Approve(p)
        PROVE  AtWork'
    BY <1>1 DEF Approve
  <1>2. ASSUME NEW p \in Proposals, GrowOld(p)
        PROVE  AtWork'
    BY <1>2 DEF GrowOld
  <1>3. ASSUME NEW t \in Threads, NEW p \in Proposals, Select(t, p)
        PROVE  AtWork'
    BY <1>3 DEF Select, Goto
  <1>4. ASSUME NEW t \in Threads, NEW p \in Proposals, ReadEntry(t, p)
        PROVE  AtWork'
    BY <1>4 DEF ReadEntry, Goto, Reversing
  <1>5. ASSUME NEW t \in Threads, Claim(t)
        PROVE  AtWork'
    BY <1>5 DEF Claim, Continue, Goto, ClaimRow, Claimable
  <1>6. ASSUME NEW t \in Threads, ClaimRefused(t)
        PROVE  AtWork'
    BY <1>6 DEF ClaimRefused, Return, Goto, Claimable
  <1>7. ASSUME NEW t \in Threads, ClaimLost(t)
        PROVE  AtWork'
    BY <1>7 DEF ClaimLost, Return, Goto, ClaimRow, Claimable, Fault
  <1>8. ASSUME NEW t \in Threads, Check(t)
        PROVE  AtWork'
    BY <1>8 DEF Check, Continue, Goto, Fault, Verdict
  <1>9. ASSUME NEW t \in Threads, FillCache(t)
        PROVE  AtWork'
    BY <1>9 DEF FillCache, Continue, Goto, Verdict
  <1>10. ASSUME NEW t \in Threads, HandlerSucceeds(t)
        PROVE  AtWork'
    BY <1>10 DEF HandlerSucceeds, Continue, Goto
  <1>11. ASSUME NEW t \in Threads, HandlerFails(t)
        PROVE  AtWork'
    BY <1>11 DEF HandlerFails, Continue, Goto
  <1>12. ASSUME NEW t \in Threads, WriteAudit(t)
        PROVE  AtWork'
    BY <1>12 DEF WriteAudit, Continue, Goto, Fault
  <1>13. ASSUME NEW t \in Threads, MarkDone(t)
        PROVE  AtWork'
    BY <1>13 DEF MarkDone, Return, Goto, Fault
  <1>14. ASSUME NEW t \in Threads, FailExecution(t)
        PROVE  AtWork'
    BY <1>14 DEF FailExecution, Return, Goto, Unclaim, Fault
  <1>15. ASSUME NEW t \in Threads, MarkReversed(t)
        PROVE  AtWork'
    BY <1>15 DEF MarkReversed, Return, Goto, Fault
  <1>16. ASSUME NEW t \in Threads, ReversalFails(t)
        PROVE  AtWork'
    BY <1>16 DEF ReversalFails, Return, Goto
  <1>17. CASE Sweep
    BY <1>17 DEF Sweep, Stuck
  <1>18. CASE Crash
    BY <1>18 DEF Crash, Fault
  <1>19. CASE ChangePermission
    BY <1>19 DEF ChangePermission
  <1>20. CASE UNCHANGED vars
    BY <1>20 DEF vars
  <1> QED
    BY <1>1, <1>2, <1>3, <1>4, <1>5, <1>6, <1>7, <1>8, <1>9, <1>10, <1>11, <1>12, <1>13, <1>14, <1>15, <1>16, <1>17, <1>18, <1>19, <1>20 DEF Next, Execute

\* Every step of the system is a step of the permissions, or leaves them alone.
LEMMA PermissionSteps ==
    ASSUME PermissionTypeOK, Typing, AtWork, [Next]_vars
    PROVE  PermissionStep
  <1> USE DEF PermissionStep
  <1>1. ASSUME NEW p \in Proposals, Approve(p)
        PROVE  PermissionStep
    BY <1>1 DEF Approve, permissionVars
  <1>2. ASSUME NEW p \in Proposals, GrowOld(p)
        PROVE  PermissionStep
    BY <1>2 DEF GrowOld, permissionVars
  <1>3. ASSUME NEW t \in Threads, NEW p \in Proposals, Select(t, p)
        PROVE  PermissionStep
    BY <1>3 DEF Select, permissionVars
  <1>4. ASSUME NEW t \in Threads, NEW p \in Proposals, ReadEntry(t, p)
        PROVE  PermissionStep
    BY <1>4 DEF ReadEntry, permissionVars
  <1>5. ASSUME NEW t \in Threads, Claim(t)
        PROVE  PermissionStep
    BY <1>5 DEF Claim, permissionVars
  <1>6. ASSUME NEW t \in Threads, ClaimRefused(t)
        PROVE  PermissionStep
    BY <1>6 DEF ClaimRefused, permissionVars
  <1>7. ASSUME NEW t \in Threads, ClaimLost(t)
        PROVE  PermissionStep
    BY <1>7 DEF ClaimLost, permissionVars
  <1>8. ASSUME NEW t \in Threads, Check(t)
        PROVE  PermissionStep
    <2>1. SlotOf[job[t]] \in Slots
      BY <1>8 DEF Check, AtWork, Typing
    <2> QED
      BY <1>8, <2>1 DEF Check, Cached
  <1>9. ASSUME NEW t \in Threads, FillCache(t)
        PROVE  PermissionStep
    BY <1>9 DEF FillCache
  <1>10. ASSUME NEW t \in Threads, HandlerSucceeds(t)
        PROVE  PermissionStep
    BY <1>10 DEF HandlerSucceeds, permissionVars
  <1>11. ASSUME NEW t \in Threads, HandlerFails(t)
        PROVE  PermissionStep
    BY <1>11 DEF HandlerFails, permissionVars
  <1>12. ASSUME NEW t \in Threads, WriteAudit(t)
        PROVE  PermissionStep
    BY <1>12 DEF WriteAudit, permissionVars
  <1>13. ASSUME NEW t \in Threads, MarkDone(t)
        PROVE  PermissionStep
    BY <1>13 DEF MarkDone, permissionVars
  <1>14. ASSUME NEW t \in Threads, FailExecution(t)
        PROVE  PermissionStep
    BY <1>14 DEF FailExecution, permissionVars
  <1>15. ASSUME NEW t \in Threads, MarkReversed(t)
        PROVE  PermissionStep
    BY <1>15 DEF MarkReversed, permissionVars
  <1>16. ASSUME NEW t \in Threads, ReversalFails(t)
        PROVE  PermissionStep
    BY <1>16 DEF ReversalFails, permissionVars
  <1>17. CASE Sweep
    BY <1>17 DEF Sweep, permissionVars
  <1>18. CASE Crash
    BY <1>18 DEF Crash
  <1>19. CASE ChangePermission
    <2>1. \A s \in Slots : Effective(s) \in Modes
      BY EffectiveType
    <2> QED
      BY <1>19, <2>1 DEF ChangePermission, SetMode, GrantScopes, DeleteRow
  <1>20. CASE UNCHANGED vars
    BY <1>20 DEF vars, permissionVars
  <1> QED
    BY <1>1, <1>2, <1>3, <1>4, <1>5, <1>6, <1>7, <1>8, <1>9, <1>10, <1>11, <1>12, <1>13, <1>14, <1>15, <1>16, <1>17, <1>18, <1>19, <1>20 DEF Next, Execute

\* The types are kept by every step.
LEMMA TypingInductive ==
    ASSUME Typing, AtWork, AttemptsLeft, [Next]_vars
    PROVE  Typing' /\ AttemptsLeft'
  <1> USE DEF Typing, AtWork, AttemptsLeft, Places
  <1>1. ASSUME NEW p \in Proposals, Approve(p)
        PROVE  Typing' /\ AttemptsLeft'
    BY <1>1 DEF Approve, rows, ledger
  <1>2. ASSUME NEW p \in Proposals, GrowOld(p)
        PROVE  Typing' /\ AttemptsLeft'
    BY <1>2 DEF GrowOld, rows, ledger
  <1>3. ASSUME NEW t \in Threads, NEW p \in Proposals, Select(t, p)
        PROVE  Typing' /\ AttemptsLeft'
    BY <1>3 DEF Select, Goto, rows, ledger
  <1>4. ASSUME NEW t \in Threads, NEW p \in Proposals, ReadEntry(t, p)
        PROVE  Typing' /\ AttemptsLeft'
    BY <1>4 DEF ReadEntry, Goto, Reversing, rows, ledger
  <1>5. ASSUME NEW t \in Threads, Claim(t)
        PROVE  Typing' /\ AttemptsLeft'
    BY <1>5 DEF Claim, Continue, Goto, ClaimRow, Claimable, rows, ledger
  <1>6. ASSUME NEW t \in Threads, ClaimRefused(t)
        PROVE  Typing' /\ AttemptsLeft'
    BY <1>6 DEF ClaimRefused, Return, Goto, Claimable, rows, ledger
  <1>7. ASSUME NEW t \in Threads, ClaimLost(t)
        PROVE  Typing' /\ AttemptsLeft'
    BY <1>7 DEF ClaimLost, Return, Goto, ClaimRow, Claimable, Fault, rows, ledger
  <1>8. ASSUME NEW t \in Threads, Check(t)
        PROVE  Typing' /\ AttemptsLeft'
    BY <1>8 DEF Check, Continue, Goto, Fault, Verdict, rows, ledger
  <1>9. ASSUME NEW t \in Threads, FillCache(t)
        PROVE  Typing' /\ AttemptsLeft'
    BY <1>9 DEF FillCache, Continue, Goto, Verdict, rows, ledger
  <1>10. ASSUME NEW t \in Threads, HandlerSucceeds(t)
        PROVE  Typing' /\ AttemptsLeft'
    BY <1>10 DEF HandlerSucceeds, Continue, Goto, rows, ledger
  <1>11. ASSUME NEW t \in Threads, HandlerFails(t)
        PROVE  Typing' /\ AttemptsLeft'
    BY <1>11 DEF HandlerFails, Continue, Goto, rows, ledger
  <1>12. ASSUME NEW t \in Threads, WriteAudit(t)
        PROVE  Typing' /\ AttemptsLeft'
    BY <1>12 DEF WriteAudit, Continue, Goto, Fault, rows, ledger
  <1>13. ASSUME NEW t \in Threads, MarkDone(t)
        PROVE  Typing' /\ AttemptsLeft'
    BY <1>13 DEF MarkDone, Return, Goto, Fault, rows, ledger
  <1>14. ASSUME NEW t \in Threads, FailExecution(t)
        PROVE  Typing' /\ AttemptsLeft'
    BY <1>14 DEF FailExecution, Return, Goto, Unclaim, Fault, rows, ledger
  <1>15. ASSUME NEW t \in Threads, MarkReversed(t)
        PROVE  Typing' /\ AttemptsLeft'
    BY <1>15 DEF MarkReversed, Return, Goto, Fault, rows, ledger
  <1>16. ASSUME NEW t \in Threads, ReversalFails(t)
        PROVE  Typing' /\ AttemptsLeft'
    BY <1>16 DEF ReversalFails, Return, Goto, rows, ledger
  <1>17. CASE Sweep
    BY <1>17 DEF Sweep, Stuck, rows, ledger
  <1>18. CASE Crash
    BY <1>18 DEF Crash, Fault, rows, ledger
  <1>19. CASE ChangePermission
    BY <1>19 DEF ChangePermission, rows, ledger
  <1>20. CASE UNCHANGED vars
    BY <1>20 DEF vars, rows, ledger
  <1> QED
    BY <1>1, <1>2, <1>3, <1>4, <1>5, <1>6, <1>7, <1>8, <1>9, <1>10, <1>11, <1>12, <1>13, <1>14, <1>15, <1>16, <1>17, <1>18, <1>19, <1>20 DEF Next, Execute

-----------------------------------------------------------------------------
(***************************************************************************)
(* Rows and effects.  A claim has one runner; while it runs the row is      *)
(* executing or the sweep has given up on it, and the effect has happened   *)
(* exactly when the handler has answered.  A row that can be claimed has    *)
(* had no effect.                                                           *)
(***************************************************************************)
Runner(t) == t \notin undoing /\ at[t] \notin {"idle", "selected"}

OneRunner == \A t, u \in Threads : Runner(t) /\ Runner(u) /\ job[t] = job[u] => t = u

RunnerRow ==
    \A t \in Threads : Runner(t) =>
        /\ status[job[t]] = "executing" \/ job[t] \in swept
        /\ effects[job[t]] = IF at[t] \in {"ran", "succeeded"} THEN 1 ELSE 0

RowEffect ==
    \A p \in Proposals :
        /\ effects[p] \in {0, 1}
        /\ status[p] \in {"pending", "approved"} => effects[p] = 0
        /\ status[p] = "done" => effects[p] = 1
        /\ p \in swept => status[p] = "dead"
        /\ status[p] = "dead" => effects[p] = 0 \/ p \in swept

Ledger == OneRunner /\ RunnerRow /\ RowEffect

\* A row that ran is never open again: the ledger of effects over every step.
LEMMA LedgerInductive ==
    ASSUME Typing, AtWork, Ledger, [Next]_vars
    PROVE  Ledger'
  <1> USE DEF Typing, AtWork, Ledger, OneRunner, RunnerRow, RowEffect, Runner, Places
  <1>1. ASSUME NEW p \in Proposals, Approve(p)
        PROVE  Ledger'
    BY <1>1 DEF Approve, rows, ledger
  <1>2. ASSUME NEW p \in Proposals, GrowOld(p)
        PROVE  Ledger'
    BY <1>2 DEF GrowOld, rows, ledger
  <1>3. ASSUME NEW t \in Threads, NEW p \in Proposals, Select(t, p)
        PROVE  Ledger'
    BY <1>3 DEF Select, Goto, rows, ledger
  <1>4. ASSUME NEW t \in Threads, NEW p \in Proposals, ReadEntry(t, p)
        PROVE  Ledger'
    BY <1>4 DEF ReadEntry, Goto, Reversing, rows, ledger
  <1>5. ASSUME NEW t \in Threads, Claim(t)
        PROVE  Ledger'
    BY <1>5 DEF Claim, Continue, Goto, ClaimRow, Claimable, rows, ledger
  <1>6. ASSUME NEW t \in Threads, ClaimRefused(t)
        PROVE  Ledger'
    BY <1>6 DEF ClaimRefused, Return, Goto, Claimable, rows, ledger
  <1>7. ASSUME NEW t \in Threads, ClaimLost(t)
        PROVE  Ledger'
    BY <1>7 DEF ClaimLost, Return, Goto, ClaimRow, Claimable, Fault, rows, ledger
  <1>8. ASSUME NEW t \in Threads, Check(t)
        PROVE  Ledger'
    BY <1>8 DEF Check, Continue, Goto, Fault, Verdict, rows, ledger
  <1>9. ASSUME NEW t \in Threads, FillCache(t)
        PROVE  Ledger'
    BY <1>9 DEF FillCache, Continue, Goto, Verdict, rows, ledger
  <1>10. ASSUME NEW t \in Threads, HandlerSucceeds(t)
        PROVE  Ledger'
    BY <1>10 DEF HandlerSucceeds, Continue, Goto, rows, ledger
  <1>11. ASSUME NEW t \in Threads, HandlerFails(t)
        PROVE  Ledger'
    BY <1>11 DEF HandlerFails, Continue, Goto, rows, ledger
  <1>12. ASSUME NEW t \in Threads, WriteAudit(t)
        PROVE  Ledger'
    BY <1>12 DEF WriteAudit, Continue, Goto, Fault, rows, ledger
  <1>13. ASSUME NEW t \in Threads, MarkDone(t)
        PROVE  Ledger'
    BY <1>13 DEF MarkDone, Return, Goto, Fault, rows, ledger
  <1>14. ASSUME NEW t \in Threads, FailExecution(t)
        PROVE  Ledger'
    BY <1>14 DEF FailExecution, Return, Goto, Unclaim, Fault, rows, ledger
  <1>15. ASSUME NEW t \in Threads, MarkReversed(t)
        PROVE  Ledger'
    BY <1>15 DEF MarkReversed, Return, Goto, Fault, rows, ledger
  <1>16. ASSUME NEW t \in Threads, ReversalFails(t)
        PROVE  Ledger'
    BY <1>16 DEF ReversalFails, Return, Goto, rows, ledger
  <1>17. CASE Sweep
    BY <1>17 DEF Sweep, Stuck, rows, ledger
  <1>18. CASE Crash
    BY <1>18 DEF Crash, Fault, rows, ledger
  <1>19. CASE ChangePermission
    BY <1>19 DEF ChangePermission, rows, ledger
  <1>20. CASE UNCHANGED vars
    BY <1>20 DEF vars, rows, ledger
  <1> QED
    BY <1>1, <1>2, <1>3, <1>4, <1>5, <1>6, <1>7, <1>8, <1>9, <1>10, <1>11, <1>12, <1>13, <1>14, <1>15, <1>16, <1>17, <1>18, <1>19, <1>20 DEF Next, Execute

-----------------------------------------------------------------------------
(***************************************************************************)
(* Reversals.  An entry exists only of an action that ran, and its runner   *)
(* has written it at most once; of an entry nobody contested, at most one   *)
(* request works on the reversal, and the entry is open until it is marked. *)
(***************************************************************************)
EntryIsTrue ==
    /\ \A p \in Proposals : audit[p] # "none" => effects[p] > 0
    /\ \A p \in Proposals : undone[p] > 0 => audit[p] # "none"
    /\ \A t \in Threads : Runner(t) /\ at[t] # "succeeded" => audit[job[t]] = "none"
    /\ \A t \in undoing : audit[job[t]] # "none"

Uncontested ==
    /\ \A t, u \in undoing : job[t] = job[u] /\ job[t] \notin contested => t = u
    /\ \A t \in undoing : job[t] \notin contested =>
          /\ audit[job[t]] = "open"
          /\ undone[job[t]] = IF at[t] \in {"ran", "succeeded"} THEN 1 ELSE 0
    /\ \A p \in Proposals \ contested :
          /\ undone[p] \in {0, 1}
          /\ audit[p] = "open" /\ (\A t \in undoing : job[t] # p) => undone[p] = 0

\* An audit entry is of an action that ran, and its reversal follows it.
LEMMA EntryIsTrueInductive ==
    ASSUME Typing, AtWork, Ledger, EntryIsTrue, [Next]_vars
    PROVE  EntryIsTrue'
  <1> USE DEF Typing, AtWork, Ledger, OneRunner, RunnerRow, RowEffect, Runner, EntryIsTrue, Places
  <1>1. ASSUME NEW p \in Proposals, Approve(p)
        PROVE  EntryIsTrue'
    BY <1>1 DEF Approve, rows, ledger
  <1>2. ASSUME NEW p \in Proposals, GrowOld(p)
        PROVE  EntryIsTrue'
    BY <1>2 DEF GrowOld, rows, ledger
  <1>3. ASSUME NEW t \in Threads, NEW p \in Proposals, Select(t, p)
        PROVE  EntryIsTrue'
    BY <1>3 DEF Select, Goto, rows, ledger
  <1>4. ASSUME NEW t \in Threads, NEW p \in Proposals, ReadEntry(t, p)
        PROVE  EntryIsTrue'
    BY <1>4 DEF ReadEntry, Goto, Reversing, rows, ledger
  <1>5. ASSUME NEW t \in Threads, Claim(t)
        PROVE  EntryIsTrue'
    BY <1>5 DEF Claim, Continue, Goto, ClaimRow, Claimable, rows, ledger
  <1>6. ASSUME NEW t \in Threads, ClaimRefused(t)
        PROVE  EntryIsTrue'
    BY <1>6 DEF ClaimRefused, Return, Goto, Claimable, rows, ledger
  <1>7. ASSUME NEW t \in Threads, ClaimLost(t)
        PROVE  EntryIsTrue'
    BY <1>7 DEF ClaimLost, Return, Goto, ClaimRow, Claimable, Fault, rows, ledger
  <1>8. ASSUME NEW t \in Threads, Check(t)
        PROVE  EntryIsTrue'
    BY <1>8 DEF Check, Continue, Goto, Fault, Verdict, rows, ledger
  <1>9. ASSUME NEW t \in Threads, FillCache(t)
        PROVE  EntryIsTrue'
    BY <1>9 DEF FillCache, Continue, Goto, Verdict, rows, ledger
  <1>10. ASSUME NEW t \in Threads, HandlerSucceeds(t)
        PROVE  EntryIsTrue'
    BY <1>10 DEF HandlerSucceeds, Continue, Goto, rows, ledger
  <1>11. ASSUME NEW t \in Threads, HandlerFails(t)
        PROVE  EntryIsTrue'
    BY <1>11 DEF HandlerFails, Continue, Goto, rows, ledger
  <1>12. ASSUME NEW t \in Threads, WriteAudit(t)
        PROVE  EntryIsTrue'
    BY <1>12 DEF WriteAudit, Continue, Goto, Fault, rows, ledger
  <1>13. ASSUME NEW t \in Threads, MarkDone(t)
        PROVE  EntryIsTrue'
    BY <1>13 DEF MarkDone, Return, Goto, Fault, rows, ledger
  <1>14. ASSUME NEW t \in Threads, FailExecution(t)
        PROVE  EntryIsTrue'
    BY <1>14 DEF FailExecution, Return, Goto, Unclaim, Fault, rows, ledger
  <1>15. ASSUME NEW t \in Threads, MarkReversed(t)
        PROVE  EntryIsTrue'
    BY <1>15 DEF MarkReversed, Return, Goto, Fault, rows, ledger
  <1>16. ASSUME NEW t \in Threads, ReversalFails(t)
        PROVE  EntryIsTrue'
    BY <1>16 DEF ReversalFails, Return, Goto, rows, ledger
  <1>17. CASE Sweep
    BY <1>17 DEF Sweep, Stuck, rows, ledger
  <1>18. CASE Crash
    BY <1>18 DEF Crash, Fault, rows, ledger
  <1>19. CASE ChangePermission
    BY <1>19 DEF ChangePermission, rows, ledger
  <1>20. CASE UNCHANGED vars
    BY <1>20 DEF vars, rows, ledger
  <1> QED
    BY <1>1, <1>2, <1>3, <1>4, <1>5, <1>6, <1>7, <1>8, <1>9, <1>10, <1>11, <1>12, <1>13, <1>14, <1>15, <1>16, <1>17, <1>18, <1>19, <1>20 DEF Next, Execute

\* An entry only one thread reverses is reversed once.
LEMMA UncontestedInductive ==
    ASSUME Typing, AtWork, EntryIsTrue, Uncontested, [Next]_vars
    PROVE  Uncontested'
  <1> USE DEF Typing, AtWork, EntryIsTrue, Uncontested, Runner, Places
  <1>1. ASSUME NEW p \in Proposals, Approve(p)
        PROVE  Uncontested'
    BY <1>1 DEF Approve, rows, ledger
  <1>2. ASSUME NEW p \in Proposals, GrowOld(p)
        PROVE  Uncontested'
    BY <1>2 DEF GrowOld, rows, ledger
  <1>3. ASSUME NEW t \in Threads, NEW p \in Proposals, Select(t, p)
        PROVE  Uncontested'
    BY <1>3 DEF Select, Goto, rows, ledger
  <1>4. ASSUME NEW t \in Threads, NEW p \in Proposals, ReadEntry(t, p)
        PROVE  Uncontested'
    BY <1>4 DEF ReadEntry, Goto, Reversing, rows, ledger
  <1>5. ASSUME NEW t \in Threads, Claim(t)
        PROVE  Uncontested'
    BY <1>5 DEF Claim, Continue, Goto, ClaimRow, Claimable, rows, ledger
  <1>6. ASSUME NEW t \in Threads, ClaimRefused(t)
        PROVE  Uncontested'
    BY <1>6 DEF ClaimRefused, Return, Goto, Claimable, rows, ledger
  <1>7. ASSUME NEW t \in Threads, ClaimLost(t)
        PROVE  Uncontested'
    BY <1>7 DEF ClaimLost, Return, Goto, ClaimRow, Claimable, Fault, rows, ledger
  <1>8. ASSUME NEW t \in Threads, Check(t)
        PROVE  Uncontested'
    BY <1>8 DEF Check, Continue, Goto, Fault, Verdict, rows, ledger
  <1>9. ASSUME NEW t \in Threads, FillCache(t)
        PROVE  Uncontested'
    BY <1>9 DEF FillCache, Continue, Goto, Verdict, rows, ledger
  <1>10. ASSUME NEW t \in Threads, HandlerSucceeds(t)
        PROVE  Uncontested'
    BY <1>10 DEF HandlerSucceeds, Continue, Goto, rows, ledger
  <1>11. ASSUME NEW t \in Threads, HandlerFails(t)
        PROVE  Uncontested'
    BY <1>11 DEF HandlerFails, Continue, Goto, rows, ledger
  <1>12. ASSUME NEW t \in Threads, WriteAudit(t)
        PROVE  Uncontested'
    BY <1>12 DEF WriteAudit, Continue, Goto, Fault, rows, ledger
  <1>13. ASSUME NEW t \in Threads, MarkDone(t)
        PROVE  Uncontested'
    BY <1>13 DEF MarkDone, Return, Goto, Fault, rows, ledger
  <1>14. ASSUME NEW t \in Threads, FailExecution(t)
        PROVE  Uncontested'
    BY <1>14 DEF FailExecution, Return, Goto, Unclaim, Fault, rows, ledger
  <1>15. ASSUME NEW t \in Threads, MarkReversed(t)
        PROVE  Uncontested'
    BY <1>15 DEF MarkReversed, Return, Goto, Fault, rows, ledger
  <1>16. ASSUME NEW t \in Threads, ReversalFails(t)
        PROVE  Uncontested'
    BY <1>16 DEF ReversalFails, Return, Goto, rows, ledger
  <1>17. CASE Sweep
    BY <1>17 DEF Sweep, Stuck, rows, ledger
  <1>18. CASE Crash
    BY <1>18 DEF Crash, Fault, rows, ledger
  <1>19. CASE ChangePermission
    BY <1>19 DEF ChangePermission, rows, ledger
  <1>20. CASE UNCHANGED vars
    BY <1>20 DEF vars, rows, ledger
  <1> QED
    BY <1>1, <1>2, <1>3, <1>4, <1>5, <1>6, <1>7, <1>8, <1>9, <1>10, <1>11, <1>12, <1>13, <1>14, <1>15, <1>16, <1>17, <1>18, <1>19, <1>20 DEF Next, Execute

-----------------------------------------------------------------------------
(***************************************************************************)
(* The inductive invariant and the theorems.                                *)
(***************************************************************************)
IInv == /\ Typing /\ AttemptsLeft /\ AtWork /\ Ledger /\ EntryIsTrue /\ Uncontested
        /\ PermissionInv

\* The inductive invariant holds initially.
LEMMA IInvInit == Init => IInv
  <1> SUFFICES ASSUME Init PROVE IInv
    OBVIOUS
  <1>1. Typing /\ AttemptsLeft /\ AtWork
    BY DEF Init, Typing, AttemptsLeft, AtWork, Places
  <1>2. Ledger
    BY DEF Init, Ledger, OneRunner, RunnerRow, RowEffect, Runner
  <1>3. EntryIsTrue /\ Uncontested
    BY DEF Init, EntryIsTrue, Uncontested, Runner
  <1>4. PermissionInv
    BY DEF Init, PermissionInit, PermissionInv, PermissionTypeOK, HeldStaleOverlapped, HeldStale,
           StaleOnlyByOverlap, Modes
  <1> QED
    BY <1>1, <1>2, <1>3, <1>4 DEF IInv

\* The inductive invariant is kept by every step.
LEMMA IInvInductive == IInv /\ [Next]_vars => IInv'
  <1> SUFFICES ASSUME IInv, [Next]_vars PROVE IInv'
    OBVIOUS
  <1>1. PermissionTypeOK
    BY DEF IInv, PermissionInv
  <1>2. PermissionInv'
    BY <1>1, PermissionSteps, PermissionInductive DEF IInv
  <1> QED
    BY <1>2, AtWorkInductive, TypingInductive, LedgerInductive, EntryIsTrueInductive,
       UncontestedInductive DEF IInv

\* The inductive invariant holds always.
LEMMA Invariance == Spec => []IInv
  BY IInvInit, IInvInductive, PTL DEF Spec

(* Types of all variables; in particular no row fails more often than it may. *)
THEOREM TypeCorrect == Spec => []TypeOK
  <1>1. IInv => TypeOK
    BY DEF IInv, Typing, PermissionInv, TypeOK
  <1> QED
    BY <1>1, Invariance, PTL

(* No action of a proposal has its effect twice (_RESET_STUCK_DEAD_SQL and   *)
(* _FAIL_SQL of proposal_queue.py against _finish_claim).                    *)
THEOREM AtMostOnce == Spec => []RunsAtMostOnce
  <1>1. IInv => RunsAtMostOnce
    BY DEF IInv, Ledger, RowEffect, RunsAtMostOnce
  <1> QED
    BY <1>1, Invariance, PTL

(* The status of a row says whether its action ran, but for swept rows.      *)
THEOREM TrueStatus == Spec => []StatusIsTrue
  <1>1. IInv => StatusIsTrue
    BY DEF IInv, Ledger, RowEffect, Typing, StatusIsTrue
  <1> QED
    BY <1>1, Invariance, PTL

(* A reversal follows its action and, of an uncontested entry, happens once. *)
THEOREM ReversalOnce == Spec => []ReversedOnce
  <1>1. IInv => ReversedOnce
    BY DEF IInv, Typing, EntryIsTrue, Uncontested, ReversedOnce
  <1> QED
    BY <1>1, Invariance, PTL

(* A cached mode is out of date only during a change, or after one that      *)
(* overlapped a read (_load_perm against set_connector_mode).                *)
THEOREM CacheIsFresh == Spec => []StaleOnlyByOverlap
  <1>1. IInv => StaleOnlyByOverlap
    BY DEF IInv, PermissionInv
  <1> QED
    BY <1>1, Invariance, PTL

-----------------------------------------------------------------------------
(***************************************************************************)
(* The queue implements ProposalLedger.                                     *)
(***************************************************************************)
\* The sweep gives up on rows that have attempts left.
SweptEarly == \A p \in swept : attempt[p] < MaxAttempts

\* What one step does to one proposal is a step of the ledger, or nothing.
LedgerStep(p) ==
    \/ Promise!Approve(p) \/ Promise!Claim(p) \/ Promise!Act(p)
    \/ Promise!Settle(p) \/ Promise!Retry(p) \/ Promise!Exhaust(p) \/ Promise!Abandon(p)
    \/ Promise!Reverse(p) \/ Promise!Stay(p)

\* A proposal whose row and effects are left alone stays.
LEMMA UntouchedStays ==
    ASSUME Typing, NEW p \in Proposals, status'[p] = status[p], attempt'[p] = attempt[p],
           effects'[p] = effects[p], undone'[p] = undone[p]
    PROVE  LedgerStep(p)
  <1>1. effects[p] \in Nat /\ undone[p] \in Nat
    BY DEF Typing
  <1> QED
    BY <1>1 DEF LedgerStep, Promise!Stay, Promise!Happens

\* The two ways a row is claimed.
LEMMA ClaimSteps ==
    ASSUME Typing, AtWork, NEW t \in Threads, NEW p \in Proposals,
           at[t] = "selected", ClaimRow(job[t]), UNCHANGED <<effects, undone>>
    PROVE  LedgerStep(p)
  <1>1. job[t] \in Proposals
    BY DEF Typing, AtWork
  <1>2. CASE p = job[t]
    <2>1. status[p] = "approved" /\ status'[p] = "executing" /\ attempt'[p] = attempt[p] /\ attempt[p] \in Nat
      BY <1>1, <1>2 DEF ClaimRow, Claimable, Typing
    <2>2. effects'[p] = effects[p] /\ undone'[p] = undone[p] /\ effects[p] \in Nat /\ undone[p] \in Nat
      BY DEF Typing
    <2> QED
      BY <2>1, <2>2 DEF LedgerStep, Promise!Claim, Promise!Moves
  <1>3. CASE p # job[t]
    BY <1>1, <1>3, UntouchedStays DEF ClaimRow, Typing
  <1> QED
    BY <1>2, <1>3

\* A failed execution, or one whose answer is lost.
LEMMA FailureSteps ==
    ASSUME Typing, AtWork, AttemptsLeft, Ledger, NEW t \in Threads, NEW p \in Proposals,
           at[t] = "failed", t \notin undoing, Unclaim(job[t]), UNCHANGED <<effects, undone>>
    PROVE  LedgerStep(p)
  <1>1. job[t] \in Proposals /\ Runner(t)
    BY DEF Typing, AtWork, Runner
  <1>2. CASE p = job[t] /\ status[p] = "executing"
    <2>1. effects[p] = 0
      BY <1>1, <1>2 DEF Ledger, RunnerRow
    <2>2. /\ attempt[p] \in Nat /\ attempt[p] < MaxAttempts /\ attempt'[p] = attempt[p] + 1
          /\ status'[p] = IF attempt[p] + 1 < MaxAttempts THEN "approved" ELSE "dead"
          /\ effects'[p] = effects[p] /\ undone'[p] = undone[p]
      BY <1>2 DEF Unclaim, Typing, AttemptsLeft
    <2> QED
      BY <1>2, <2>1, <2>2 DEF LedgerStep, Promise!Retry, Promise!Exhaust, Promise!Moves
  <1>3. CASE ~(p = job[t] /\ status[p] = "executing")
    BY <1>1, <1>3, UntouchedStays DEF Unclaim, Typing
  <1> QED
    BY <1>2, <1>3

\* An action, or its reverse, has its effect.
LEMMA EffectSteps ==
    ASSUME Typing, AtWork, AttemptsLeft, Ledger, EntryIsTrue, SweptEarly,
           NEW t \in Threads, NEW p \in Proposals, HandlerSucceeds(t)
    PROVE  LedgerStep(p)
  <1>1. job[t] \in Proposals /\ at[t] = "allowed" /\ UNCHANGED <<status, attempt>>
    BY DEF HandlerSucceeds, Typing, AtWork, rows
  <1>2. CASE p = job[t] /\ t \in undoing
    <2>1. effects[p] = 1
      BY <1>2 DEF EntryIsTrue, Ledger, RowEffect, Typing
    <2>2. undone'[p] = undone[p] + 1 /\ effects'[p] = effects[p] + 0
      BY <1>2, <2>1 DEF HandlerSucceeds, Typing
    <2> QED
      BY <1>1, <2>1, <2>2 DEF LedgerStep, Promise!Reverse, Promise!Happens
  <1>3. CASE p = job[t] /\ t \notin undoing
    <2>1. effects[p] = 0 /\ (status[p] = "executing" \/ p \in swept) /\ Runner(t)
      BY <1>1, <1>3 DEF Ledger, RunnerRow, Runner
    <2>2. p \in swept => status[p] = "dead" /\ attempt[p] < MaxAttempts
      BY DEF Ledger, RowEffect, SweptEarly
    <2>3. effects'[p] = effects[p] + 1 /\ undone'[p] = undone[p] + 0
      BY <1>3 DEF HandlerSucceeds, Typing
    <2> QED
      BY <1>1, <2>1, <2>2, <2>3 DEF LedgerStep, Promise!Act, Promise!Happens
  <1>4. CASE p # job[t]
    BY <1>1, <1>4, UntouchedStays DEF HandlerSucceeds, Typing
  <1> QED
    BY <1>2, <1>3, <1>4

\* The sweep gives up on old claims.
LEMMA SweepSteps ==
    ASSUME Typing, AttemptsLeft, NEW p \in Proposals, Sweep
    PROVE  LedgerStep(p)
  <1>1. UNCHANGED <<attempt, effects, undone>>
    BY DEF Sweep, ledger
  <1>2. CASE p \in Stuck
    <2>1. status[p] = "executing" /\ status'[p] = "dead" /\ attempt[p] < MaxAttempts
      BY <1>2 DEF Sweep, Stuck, AttemptsLeft
    <2>2. attempt[p] \in Nat
      BY DEF Typing
    <2> QED
      BY <1>1, <2>1, <2>2 DEF LedgerStep, Promise!Abandon, Promise!Moves, Typing
  <1>3. CASE p \notin Stuck
    BY <1>1, <1>3, UntouchedStays DEF Sweep
  <1> QED
    BY <1>2, <1>3

\* An execution that succeeded is recorded, if the row is still its own.
LEMMA DoneSteps ==
    ASSUME Typing, AtWork, Ledger, NEW t \in Threads, NEW p \in Proposals, MarkDone(t)
    PROVE  LedgerStep(p)
  <1>1. /\ job[t] \in Proposals /\ Runner(t) /\ at[t] = "succeeded"
        /\ UNCHANGED <<attempt, effects, undone>>
    BY DEF MarkDone, Typing, AtWork, Runner, ledger
  <1>2. CASE status'[p] # status[p]
    <2>1. p = job[t] /\ status[p] = "executing" /\ status'[p] = "done"
      BY <1>1, <1>2 DEF MarkDone, Typing
    <2>2. effects[p] = 1
      BY <1>1, <2>1 DEF Ledger, RunnerRow
    <2> QED
      BY <1>1, <2>1, <2>2 DEF LedgerStep, Promise!Settle, Promise!Moves, Typing
  <1>3. CASE status'[p] = status[p]
    BY <1>1, <1>3, UntouchedStays
  <1> QED
    BY <1>2, <1>3

\* Every step of the system moves each proposal as the ledger allows.
LEMMA LedgerSteps ==
    ASSUME Typing, AtWork, AttemptsLeft, Ledger, EntryIsTrue, SweptEarly, [Next]_vars,
           NEW p \in Proposals
    PROVE  LedgerStep(p)
  <1>1. ASSUME UNCHANGED <<status, attempt, effects, undone>>
        PROVE  LedgerStep(p)
    BY <1>1, UntouchedStays
  <1>2. ASSUME NEW q \in Proposals, Approve(q)
        PROVE  LedgerStep(p)
    <2>1. UNCHANGED <<attempt, effects, undone>>
      BY <1>2 DEF Approve, ledger
    <2>2. CASE p = q
      <3>1. status[p] = "pending" /\ status'[p] = "approved"
        BY <1>2, <2>2 DEF Approve, Typing
      <3> QED
        BY <2>1, <3>1 DEF LedgerStep, Promise!Approve, Promise!Moves, Typing
    <2>3. CASE p # q
      BY <1>2, <2>1, <2>3, UntouchedStays DEF Approve, Typing
    <2> QED
      BY <2>2, <2>3
  <1>3. ASSUME NEW t \in Threads, Claim(t) \/ ClaimLost(t)
        PROVE  LedgerStep(p)
    BY <1>3, ClaimSteps DEF Claim, ClaimLost, ledger
  <1>4. ASSUME NEW t \in Threads, FailExecution(t)
        PROVE  LedgerStep(p)
    <2>1. UNCHANGED <<effects, undone>>
      BY <1>4 DEF FailExecution, ledger
    <2> QED
      BY <1>1, <1>4, <2>1, FailureSteps DEF FailExecution
  <1>5. ASSUME NEW q \in Proposals, GrowOld(q)
        PROVE  LedgerStep(p)
    BY <1>1, <1>5 DEF GrowOld, ledger
  <1>6. ASSUME NEW t \in Threads, NEW q \in Proposals, Select(t, q) \/ ReadEntry(t, q)
        PROVE  LedgerStep(p)
    BY <1>1, <1>6 DEF Select, ReadEntry, rows, ledger
  <1>7. ASSUME NEW t \in Threads,
               \/ ClaimRefused(t) \/ Check(t) \/ FillCache(t) \/ HandlerFails(t) \/ WriteAudit(t)
               \/ MarkReversed(t) \/ ReversalFails(t)
        PROVE  LedgerStep(p)
    BY <1>1, <1>7 DEF ClaimRefused, Check, FillCache, HandlerFails, WriteAudit, MarkReversed,
       ReversalFails, rows, ledger
  <1>8. CASE Crash \/ ChangePermission \/ UNCHANGED vars
    BY <1>1, <1>8 DEF Crash, ChangePermission, vars, rows, ledger
  <1> QED
    BY <1>2, <1>3, <1>4, <1>5, <1>6, <1>7, <1>8, EffectSteps, SweepSteps, DoneSteps DEF Next, Execute

\* A sweep takes rows with attempts left, and a row it took never fails again.
LEMMA SweptEarlyInductive ==
    ASSUME Typing, AttemptsLeft, Ledger, SweptEarly, [Next]_vars
    PROVE  SweptEarly'
  <1> SUFFICES ASSUME NEW p \in swept' PROVE attempt'[p] < MaxAttempts
    BY DEF SweptEarly
  <1>1. CASE Sweep
    BY <1>1 DEF Sweep, Stuck, AttemptsLeft, SweptEarly, Typing
  <1>2. CASE swept' = swept
    <2>1. p \in swept /\ p \in Proposals /\ status[p] = "dead" /\ attempt[p] < MaxAttempts
      BY <1>2 DEF SweptEarly, Ledger, RowEffect, Typing
    <2>2. attempt'[p] = attempt[p] \/ status[p] = "executing"
      BY <2>1 DEF Next, vars, rows, Approve, GrowOld, Select, ReadEntry, Claim, ClaimRefused, ClaimLost,
         ClaimRow, Execute, Check, FillCache, HandlerSucceeds, HandlerFails, WriteAudit, MarkDone,
         FailExecution, Unclaim, MarkReversed, ReversalFails, Sweep, Crash, ChangePermission, Typing
    <2> QED
      BY <2>1, <2>2
  <1>3. swept' = swept \/ Sweep
    BY DEF Next, vars, rows, Approve, GrowOld, Select, ReadEntry, Claim, ClaimRefused, ClaimLost,
       ClaimRow, Execute, Check, FillCache, HandlerSucceeds, HandlerFails, WriteAudit, MarkDone,
       FailExecution, MarkReversed, ReversalFails, Crash, ChangePermission
  <1> QED
    BY <1>1, <1>2, <1>3

(* The queue of approved actions refines ProposalLedger: over every claim,   *)
(* retry, sweep, lost answer and crash, a settled row is final, no retry     *)
(* follows an effect, and an exhausted row has had none.                     *)
THEOREM QueueImplementsProposalLedger == Spec => ImplementsProposalLedger
  <1>1. Init => Promise!Init /\ SweptEarly
    BY DEF Init, Promise!Init, SweptEarly
  <1>2. IInv /\ SweptEarly /\ [Next]_vars => SweptEarly'
    BY SweptEarlyInductive DEF IInv
  <1>3. IInv /\ SweptEarly /\ [Next]_vars => [Promise!Next]_(Promise!vars)
    BY LedgerSteps DEF IInv, Promise!Next, LedgerStep
  <1> QED
    BY <1>1, <1>2, <1>3, Invariance, PTL DEF Spec, ImplementsProposalLedger, Promise!Spec

=============================================================================
