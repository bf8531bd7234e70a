--------------------------- MODULE MCCaptureOutbox ---------------------------
(* Two tabs, a note and a recording. *)
EXTENDS CaptureOutbox, TLC
CONSTANTS t1, t2, note, clip
Symmetry == Permutations({t1, t2})
=============================================================================
