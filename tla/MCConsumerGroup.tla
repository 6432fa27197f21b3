--------------------------- MODULE MCConsumerGroup ---------------------------
(* ConsumerGroup on small instances. *)
EXTENDS ConsumerGroup, TLC

PodSymmetry == Permutations(Pods)
==============================================================================
