-------------------------- MODULE MCStoreConnection --------------------------
(* Instances of StoreConnection for TLC.                                    *)
EXTENDS StoreConnection, TLC

Everything == Uses

StatementsAndMerges == {"execute", "merge"}

\* The threads do the same things.
Symmetry == Permutations(Threads)
=============================================================================
