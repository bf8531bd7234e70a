----------------------------- MODULE MCCaptures -----------------------------
(* Two requests at a time on one capture, two recordings, two notes. *)
EXTENDS Captures, TLC
CONSTANTS r1, r2, a1, a2, n1, n2, w1, w2
Symmetry == Permutations({r1, r2}) \cup Permutations({a1, a2}) \cup Permutations({n1, n2})
=============================================================================
