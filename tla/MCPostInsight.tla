---------------------------- MODULE MCPostInsight ----------------------------
(* PostInsight on small instances: pods are interchangeable. *)
EXTENDS PostInsight, TLC

AnyPod == Permutations(Pods)
==============================================================================
