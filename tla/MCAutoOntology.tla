---------------------------- MODULE MCAutoOntology ----------------------------
(* Instances of AutoOntology for TLC; phrases and pods are interchangeable. *)
EXTENDS AutoOntology, TLC

Symmetry == Permutations(Phrases) \cup Permutations(Sweepers)
=============================================================================
