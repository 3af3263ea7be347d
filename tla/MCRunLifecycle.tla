--------------------------- MODULE MCRunLifecycle ---------------------------
(* Instances of RunLifecycle. *)
EXTENDS RunLifecycle, TLC

ThreadSymmetry == Permutations(Threads)
=============================================================================
