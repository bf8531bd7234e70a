--------------------------- MODULE ProposalLedger ----------------------------
(***************************************************************************)
(* What the queue of approved actions promises of each proposal, without   *)
(* dispatchers, claims, permissions, sweeps or lost answers.  A proposal is *)
(* approved once; its action has its effect at most once, and only from an  *)
(* execution; it is tried again only while it has had none; it settles as   *)
(* done only after its effect, and as dead when its attempts are spent      *)
(* without one, or when its execution is given up on - then the action may  *)
(* still have its effect, late, and the row stays dead.  A settled proposal *)
(* never moves again.  The effect is reversed only after it happened.       *)
(*                                                                         *)
(* One step may move several proposals: a sweep gives up on every old claim *)
(* in one UPDATE statement.                                                 *)
(***************************************************************************)
EXTENDS Naturals

CONSTANTS Proposals,    \* identities of proposals
          MaxAttempts   \* failed executions after which a proposal is dead

VARIABLES status,       \* where each proposal stands
          attempt,      \* its failed executions
          effects,      \* how often its action had its effect
          undone        \* how often its reverse action had

vars == <<status, attempt, effects, undone>>

Init == /\ status  = [p \in Proposals |-> "pending"]
        /\ attempt = [p \in Proposals |-> 0]
        /\ effects = [p \in Proposals |-> 0]
        /\ undone  = [p \in Proposals |-> 0]

\* A row moves, and has failed that many times more; nothing happens outside.
Moves(p, from, to, failures) ==
  /\ status[p] = from /\ status'[p] = to
  /\ attempt'[p] = attempt[p] + failures
  /\ effects'[p] = effects[p] /\ undone'[p] = undone[p]

\* Something happens outside, and no row moves.
Happens(p, done, reversed) ==
  /\ status'[p] = status[p] /\ attempt'[p] = attempt[p]
  /\ effects'[p] = effects[p] + done /\ undone'[p] = undone[p] + reversed

Approve(p) == Moves(p, "pending", "approved", 0)

Claim(p)   == Moves(p, "approved", "executing", 0)

\* From an execution that is running, or that was given up on too early.
Act(p)     == /\ \/ status[p] = "executing"
                 \/ status[p] = "dead" /\ attempt[p] < MaxAttempts
              /\ effects[p] = 0
              /\ Happens(p, 1, 0)

Settle(p)  == effects[p] = 1 /\ Moves(p, "executing", "done", 0)

Retry(p)   == /\ effects[p] = 0 /\ attempt[p] + 1 < MaxAttempts
              /\ Moves(p, "executing", "approved", 1)

Exhaust(p) == /\ effects[p] = 0 /\ attempt[p] + 1 = MaxAttempts
              /\ Moves(p, "executing", "dead", 1)

Abandon(p) == attempt[p] < MaxAttempts /\ Moves(p, "executing", "dead", 0)

Reverse(p) == effects[p] = 1 /\ Happens(p, 0, 1)

Stay(p)    == Happens(p, 0, 0)

Next == \A p \in Proposals :
          \/ Approve(p) \/ Claim(p) \/ Act(p)
          \/ Settle(p) \/ Retry(p) \/ Exhaust(p) \/ Abandon(p)
          \/ Reverse(p) \/ Stay(p)

Spec == Init /\ [][Next]_vars
=============================================================================
