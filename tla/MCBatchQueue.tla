---------------------------- MODULE MCBatchQueue ----------------------------
(* Model-checking instance of BatchQueue: the constants are in the .cfg      *)
(* files. Jobs are numbers because the claim is in the order of their ids.   *)
EXTENDS BatchQueue, TLC

UserSymmetry == Permutations(Users)
=============================================================================
