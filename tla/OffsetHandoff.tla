---------------------------- MODULE OffsetHandoff ----------------------------
(***************************************************************************)
(* What the consumer group promises about the input topic, without pods,   *)
(* batches, rebalances or shutdowns: a record's handling may end any       *)
(* number of times and in any order, the committed offset of a partition   *)
(* only grows, and it never passes a record whose handling has not ended.  *)
(* ConsumerGroup is shown to implement this.                               *)
(***************************************************************************)
EXTENDS Naturals

CONSTANTS Partitions,   \* partitions of the input topic
          End           \* records per partition: offsets 0 .. End - 1

VARIABLES ended,        \* records whose handling has ended at least once
          committed     \* per partition, the first offset not committed

vars == <<ended, committed>>

Records == Partitions \X (0 .. End - 1)

Init == /\ ended = {}
        /\ committed = [p \in Partitions |-> 0]

EndHandling(S) == /\ ended' = ended \cup S
                  /\ UNCHANGED committed

Advance(to) == /\ \A p \in Partitions : committed[p] <= to[p]
               /\ \A r \in Records : r[2] < to[r[1]] => r \in ended
               /\ committed' = to
               /\ UNCHANGED ended

Next == \/ \E S \in SUBSET Records : EndHandling(S)
        \/ \E to \in [Partitions -> 0 .. End] : Advance(to)

Spec == Init /\ [][Next]_vars
==============================================================================
