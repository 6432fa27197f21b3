--------------------------- MODULE MCConsumerServer ---------------------------
(* ConsumerServer on small instances. *)
EXTENDS ConsumerServer, TLC

CONSTANTS p1, p2

\* Records of two projects, interleaved in the topic.
TwoProjects == [r \in 1 .. LastRecord |-> IF r % 2 = 1 THEN p1 ELSE p2]
==============================================================================
