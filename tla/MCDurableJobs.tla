--------------------------- MODULE MCDurableJobs ---------------------------
(* TLC instances of DurableJobs. *)
EXTENDS DurableJobs, TLC

ClientSymmetry == Permutations(Launchers)
=============================================================================
