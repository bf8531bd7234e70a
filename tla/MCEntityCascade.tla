-------------------------- MODULE MCEntityCascade --------------------------
(***************************************************************************)
(* Instance: two documents that first mention one entity together and a    *)
(* second entity that only one of them mentions and that other evidence    *)
(* relates too; the worker and two request threads.                        *)
(***************************************************************************)
EXTENDS EntityCascade, TLC

CONSTANTS d1, d2, e1, e2

MCMentioned == (d1 :> {e1}) @@ (d2 :> {e1, e2})

\* The request threads are interchangeable.
MCSymmetry == Permutations(Threads)
=============================================================================
