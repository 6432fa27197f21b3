------------------------------ MODULE MCRollups ------------------------------
(* Values of Rollups's constants for TLC. *)
EXTENDS Rollups, TLC

\* No action names a pod.  (Not for liveness.)
PodSymmetry == Permutations(Pods)
=============================================================================
