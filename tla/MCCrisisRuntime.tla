--------------------------- MODULE MCCrisisRuntime ---------------------------
(* CrisisRuntime on small instances: pods are interchangeable. *)
EXTENDS CrisisRuntime, TLC

AnyPod == Permutations(Pods)
==============================================================================
