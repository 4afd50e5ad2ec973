----------------------------- MODULE MCSubJobs -----------------------------
(* Values for the constants of SubJobs that a .cfg cannot write.            *)
EXTENDS SubJobs, TLC

JobSymmetry == Permutations(Jobs)
=============================================================================
