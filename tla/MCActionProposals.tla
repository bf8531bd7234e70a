-------------------------- MODULE MCActionProposals --------------------------
(***************************************************************************)
(* A small instance of ActionProposals for TLC: one row, the target of all  *)
(* threads.  Its action is not hard-limited: the refusal of a hard-limited  *)
(* one only removes behaviours, and no fairness is asked of dispatchers, so *)
(* what holds here holds of a hard-limited row too.                         *)
(***************************************************************************)
EXTENDS ActionProposals

CONSTANTS proposal, slot

MCProposals == {proposal}
MCHardLimited == {}
MCSlots == {slot}
MCSlotOf == [p \in MCProposals |-> slot]
=============================================================================
