-------------------------- MODULE MCDocumentSharing --------------------------
(* Model-checking instance of DocumentSharing: two versions of a file, the   *)
(* first with two chunks and the second with one, so that a re-ingest has    *)
(* fewer chunks than the shared copy it replaces.                            *)
EXTENDS DocumentSharing, TLC

MCIx       == {0, 1}
MCVersions == {1, 2}
MCChunks   == [v \in MCVersions |-> IF v = 1 THEN {0, 1} ELSE {0}]

\* Instances in which the second version has no text at all.
MCChunksEmpty == [v \in MCVersions |-> IF v = 1 THEN {0, 1} ELSE {}]

ThreadSymmetry == Permutations(Threads)
==============================================================================
