------------------------- MODULE MCConversationPurge -------------------------
(* Model-checking instance of ConversationPurge. *)
EXTENDS ConversationPurge, TLC

ProcessSymmetry == Permutations(Threads) \cup Permutations(Handlers)
==============================================================================
