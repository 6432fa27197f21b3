---------------------------- MODULE ConsumerGroup ----------------------------
(***************************************************************************)
(* The consumer pods and the offsets of the input topic.                   *)
(*                                                                         *)
(* KafkaConsumer.consume_batch (pkg/kafka/consumer.py) fetches a batch,    *)
(* hands it to the batch handler and commits whatever way the handler      *)
(* ended; ConsumerServer (internal/consumer/server.py) runs that loop in a *)
(* task which shutdown cancels.  Several pods share one Kafka group: the   *)
(* group coordinator and the fetch positions of aiokafka are external and  *)
(* modelled from how the loop uses them.  The handler itself is one step   *)
(* here; ContractPublisher and ConsumerServer open it.                     *)
(***************************************************************************)
EXTENDS Naturals, FiniteSets

CONSTANTS Pods,            \* consumer processes
          Partitions,      \* partitions of the input topic
          End,             \* records per partition: offsets 0 .. End - 1
          MaxPollRecords,  \* batch_size of consume_batch
          MaxFaults,       \* bound on crashes, expulsions, failures, signals
          NoPod            \* a partition nobody owns

ASSUME ConsumerGroupAssumption ==
    /\ NoPod \notin Pods
    /\ End \in Nat
    /\ MaxPollRecords \in Nat \ {0}
    /\ MaxFaults \in Nat

VARIABLES phase,       \* phase[c]: where pod c's consumer task is
          batch,       \* batch[c]: records handed to c's handler, not yet committed
          members,     \* pods in the Kafka group
          owner,       \* owner[p]: the member partition p is assigned to
          position,    \* position[p]: fetch position of p's owner
          committed,   \* committed[p]: committed offset of p
          rebalancing, \* a membership change awaits a new assignment
          rebalances,  \* history: assignments made so far
          attempts,    \* history: times each record was handed to a handler
          fate,        \* history: ways the handling of each record has ended
          faults       \* faults so far, capped by MaxFaults

vars == <<phase, batch, members, owner, position, committed, rebalancing,
          rebalances, attempts, fate, faults>>

Records == Partitions \X (0 .. End - 1)

Phases == {"down", "polling", "handling", "committing", "stopping", "drained"}

(***************************************************************************)
(* "ok": the record's group went through the pipeline; "failed": its group *)
(* or the whole batch raised and the exception was logged; "interrupted":  *)
(* the consumer task was cancelled while its handler was running.          *)
(***************************************************************************)
Fates == {"ok", "failed", "interrupted"}

Init ==
    /\ phase = [c \in Pods |-> "down"]
    /\ batch = [c \in Pods |-> {}]
    /\ members = {}
    /\ owner = [p \in Partitions |-> NoPod]
    /\ position = [p \in Partitions |-> 0]
    /\ committed = [p \in Partitions |-> 0]
    /\ rebalancing = FALSE
    /\ rebalances = 0
    /\ attempts = [r \in Records |-> 0]
    /\ fate = [r \in Records |-> {}]
    /\ faults = 0

history == <<rebalances, attempts, fate>>
group == <<members, owner, position, rebalancing>>

Fault == faults < MaxFaults /\ faults' = faults + 1

EndWith(S, f) == fate' = [r \in Records |-> IF r \in S THEN fate[r] \cup {f}
                                                       ELSE fate[r]]

\* Pod c leaves the group, or is put out of it.
Leave(c) ==
    /\ members' = members \ {c}
    /\ owner' = [p \in Partitions |-> IF owner[p] = c THEN NoPod ELSE owner[p]]
    /\ rebalancing' = (rebalancing \/ c \in members)

\* Mutant: commit the offsets of the batch instead of the assigned positions.
CommitBatchOffsets(c) ==
    committed' = [p \in Partitions |->
                    IF \E r \in batch[c] : r[1] = p
                    THEN CHOOSE o \in 1 .. End :
                           /\ <<p, o - 1>> \in batch[c]
                           /\ <<p, o>> \notin batch[c]
                    ELSE committed[p]]

\* commit() without arguments: the positions of the partitions c is assigned.
CommitPositions(c) ==
    committed' = [p \in Partitions |-> IF owner[p] = c THEN position[p]
                                                       ELSE committed[p]]

------------------------------------------------------------------------------
(***************************************************************************)
(* The group coordinator and the life of a process.                        *)
(***************************************************************************)
Start(c) ==
    /\ phase[c] = "down"
    /\ phase' = [phase EXCEPT ![c] = "polling"]
    /\ members' = members \cup {c}
    /\ rebalancing' = TRUE
    /\ UNCHANGED <<batch, owner, position, committed, history, faults>>

\* A pod put out of the group joins again when it next polls.
Rejoin(c) ==
    /\ phase[c] = "polling"
    /\ c \notin members
    /\ members' = members \cup {c}
    /\ rebalancing' = TRUE
    /\ UNCHANGED <<phase, batch, owner, position, committed, history, faults>>

\* Every partition gets an owner, whose position is the committed offset.
Rebalance ==
    /\ rebalancing
    /\ owner' \in [Partitions -> members]
    /\ position' = committed
    /\ rebalancing' = FALSE
    /\ rebalances' = rebalances + 1
    /\ UNCHANGED <<phase, batch, members, committed, attempts, fate, faults>>

\* Session timeout, or max_poll_interval_ms exceeded by a slow batch.
Expel(c) ==
    /\ Fault
    /\ c \in members
    /\ Leave(c)
    /\ UNCHANGED <<phase, batch, position, committed, history>>

Crash(c) ==
    /\ Fault
    /\ phase[c] # "down"
    /\ phase' = [phase EXCEPT ![c] = "down"]
    /\ batch' = [batch EXCEPT ![c] = {}]
    /\ Leave(c)
    /\ UNCHANGED <<position, committed, history>>

------------------------------------------------------------------------------
(***************************************************************************)
(* consume_batch: getmany returns and the handler is called, with no await *)
(* in between.                                                             *)
(***************************************************************************)
Fetched(c, upto) == {r \in Records : /\ owner[r[1]] = c
                                     /\ position[r[1]] <= r[2]
                                     /\ r[2] < upto[r[1]]}

\* Mutant: the last record fetched is dropped, to keep a batch small.
PollDropsExcess(c) ==
    /\ phase[c] = "polling"
    /\ \E upto \in [Partitions -> 0 .. End] :
         /\ \A p \in Partitions : IF owner[p] = c THEN position[p] <= upto[p]
                                                  ELSE upto[p] = position[p]
         /\ Cardinality(Fetched(c, upto)) \in 1 .. MaxPollRecords
         /\ position' = upto
         /\ batch' = [batch EXCEPT ![c] = {r \in Fetched(c, upto) :
                                            r[2] + 1 < upto[r[1]] \/ r[2] = 0}]
         /\ attempts' = [r \in Records |-> IF r \in batch'[c]
                                           THEN attempts[r] + 1 ELSE attempts[r]]
    /\ phase' = [phase EXCEPT ![c] = "handling"]
    /\ UNCHANGED <<members, owner, committed, rebalancing, rebalances, fate, faults>>

Poll(c) ==
    /\ phase[c] = "polling"
    /\ \E upto \in [Partitions -> 0 .. End] :
         /\ \A p \in Partitions : IF owner[p] = c THEN position[p] <= upto[p]
                                                  ELSE upto[p] = position[p]
         /\ Cardinality(Fetched(c, upto)) \in 1 .. MaxPollRecords
         /\ position' = upto
         /\ batch' = [batch EXCEPT ![c] = Fetched(c, upto)]
         /\ attempts' = [r \in Records |-> IF r \in Fetched(c, upto)
                                           THEN attempts[r] + 1 ELSE attempts[r]]
    /\ phase' = [phase EXCEPT ![c] = "handling"]
    /\ UNCHANGED <<members, owner, committed, rebalancing, rebalances, fate, faults>>

\* Nothing fetched: sleep 50 ms and poll again, without a commit.
PollEmpty(c) ==
    /\ phase[c] = "polling"
    /\ UNCHANGED vars

\* getmany raises: the loop ends with KafkaConsumerError and main exits.
PollFails(c) ==
    /\ Fault
    /\ phase[c] = "polling"
    /\ phase' = [phase EXCEPT ![c] = "drained"]
    /\ UNCHANGED <<batch, group, committed, history>>

\* Mutant: a batch is retried until no record fails; the first one always does.
HandlerRetriesBatch(c) ==
    /\ phase[c] = "handling"
    /\ IF \E r \in batch[c] : r[2] = 0
       THEN UNCHANGED <<phase, fate>>
       ELSE EndWith(batch[c], "ok") /\ phase' = [phase EXCEPT ![c] = "committing"]
    /\ UNCHANGED <<batch, group, committed, rebalances, attempts, faults>>

\* The handler returns; the groups that failed were logged and left out.
HandlerReturns(c) ==
    /\ phase[c] = "handling"
    /\ \E failed \in SUBSET batch[c] :
         fate' = [r \in Records |->
                    IF r \in failed THEN fate[r] \cup {"failed"}
                    ELSE IF r \in batch[c] THEN fate[r] \cup {"ok"}
                    ELSE fate[r]]
    /\ phase' = [phase EXCEPT ![c] = "committing"]
    /\ UNCHANGED <<batch, group, committed, rebalances, attempts, faults>>

\* The finally block: one commit per batch, whether the handler raised or not.
Commit(c) ==
    /\ phase[c] = "committing"
    /\ CommitPositions(c)
    /\ batch' = [batch EXCEPT ![c] = {}]
    /\ phase' = [phase EXCEPT ![c] = "polling"]
    /\ UNCHANGED <<group, history, faults>>

\* Mutant: a failed commit seeks back to the committed offsets.
CommitFailsRewinds(c) ==
    /\ Fault
    /\ phase[c] = "committing"
    /\ batch' = [batch EXCEPT ![c] = {}]
    /\ phase' = [phase EXCEPT ![c] = "polling"]
    /\ position' = [p \in Partitions |-> IF owner[p] = c THEN committed[p]
                                                         ELSE position[p]]
    /\ UNCHANGED <<members, owner, rebalancing, committed, history>>

\* Mutant: a failed commit seeks to the beginning of the partition.
CommitFailsSeeksStart(c) ==
    /\ Fault
    /\ phase[c] = "committing"
    /\ batch' = [batch EXCEPT ![c] = {}]
    /\ phase' = [phase EXCEPT ![c] = "polling"]
    /\ position' = [p \in Partitions |-> IF owner[p] = c THEN 0 ELSE position[p]]
    /\ UNCHANGED <<members, owner, rebalancing, committed, history>>

\* A failed commit is logged; the loop goes on from its position.
CommitFails(c) ==
    /\ Fault
    /\ phase[c] = "committing"
    /\ batch' = [batch EXCEPT ![c] = {}]
    /\ phase' = [phase EXCEPT ![c] = "polling"]
    /\ UNCHANGED <<group, committed, history>>

------------------------------------------------------------------------------
(***************************************************************************)
(* shutdown cancels the consumer task.  CancelledError is not an Exception *)
(* for the loop, yet the finally block still commits.                      *)
(***************************************************************************)
CancelPolling(c) ==
    /\ Fault
    /\ phase[c] = "polling"
    /\ phase' = [phase EXCEPT ![c] = "drained"]
    /\ UNCHANGED <<batch, group, committed, history>>

CancelHandler(c) ==
    /\ Fault
    /\ phase[c] = "handling"
    /\ EndWith(batch[c], "interrupted")
    /\ phase' = [phase EXCEPT ![c] = "stopping"]
    /\ UNCHANGED <<batch, group, committed, rebalances, attempts>>

\* A cancel, or a second one, reaches the commit: the broker may have it or not.
CancelCommit(c) ==
    /\ Fault
    /\ phase[c] \in {"committing", "stopping"}
    /\ CommitPositions(c) \/ UNCHANGED committed
    /\ batch' = [batch EXCEPT ![c] = {}]
    /\ phase' = [phase EXCEPT ![c] = "drained"]
    /\ UNCHANGED <<group, history>>

\* The commit of a cancelled batch; a failure is logged.
StopCommit(c) ==
    /\ phase[c] = "stopping"
    /\ CommitPositions(c) \/ UNCHANGED committed
    /\ batch' = [batch EXCEPT ![c] = {}]
    /\ phase' = [phase EXCEPT ![c] = "drained"]
    /\ UNCHANGED <<group, history, faults>>

\* consumer.stop() leaves the group and the process exits.
Stop(c) ==
    /\ phase[c] = "drained"
    /\ phase' = [phase EXCEPT ![c] = "down"]
    /\ Leave(c)
    /\ UNCHANGED <<batch, position, committed, history, faults>>

------------------------------------------------------------------------------
ConsumeLoop(c) == \/ Poll(c) \/ PollEmpty(c) \/ PollFails(c)
                  \/ HandlerReturns(c)
                  \/ Commit(c) \/ CommitFails(c)

Shutdown(c) == \/ CancelPolling(c) \/ CancelHandler(c) \/ CancelCommit(c)
               \/ StopCommit(c) \/ Stop(c)

Next == \/ Rebalance
        \/ \E c \in Pods : \/ Start(c) \/ Rejoin(c) \/ Expel(c) \/ Crash(c)
                           \/ ConsumeLoop(c) \/ Shutdown(c)

Spec == Init /\ [][Next]_vars

(***************************************************************************)
(* A live event loop runs its tasks, Kubernetes restarts an exited pod and *)
(* the coordinator completes a rebalance.  Faults and signals are not fair.*)
(***************************************************************************)
Fairness == /\ WF_vars(Rebalance)
            /\ \A c \in Pods : /\ WF_vars(Start(c))
                               /\ WF_vars(Rejoin(c))
                               /\ WF_vars(Poll(c))
                               /\ WF_vars(HandlerReturns(c))
                               /\ WF_vars(Commit(c))
                               /\ WF_vars(StopCommit(c))
                               /\ WF_vars(Stop(c))

FairSpec == Spec /\ Fairness

------------------------------------------------------------------------------
(***************************************************************************)
(* Types of the state of the pods (consumer.py, server.py) and the group.  *)
(***************************************************************************)
TypeOK ==
    /\ phase \in [Pods -> Phases]
    /\ batch \in [Pods -> SUBSET Records]
    /\ members \in SUBSET Pods
    /\ owner \in [Partitions -> members \cup {NoPod}]
    /\ position \in [Partitions -> 0 .. End]
    /\ committed \in [Partitions -> 0 .. End]
    /\ rebalancing \in BOOLEAN
    /\ rebalances \in Nat
    /\ attempts \in [Records -> Nat]
    /\ fate \in [Records -> SUBSET Fates]
    /\ faults \in 0 .. MaxFaults

(***************************************************************************)
(* The owner of a partition is never behind its committed offset, and each *)
(* record between the two is in the owner's hands or its handling has      *)
(* ended: the one thing commit() relies on when it commits positions that  *)
(* were moved by getmany, before the handler ran.                          *)
(***************************************************************************)
PositionsBacked ==
    \A p \in Partitions : owner[p] # NoPod =>
        /\ committed[p] <= position[p]
        /\ \A o \in committed[p] .. position[p] - 1 :
             \/ fate[<<p, o>>] # {}
             \/ <<p, o>> \in batch[owner[p]] /\ phase[owner[p]] = "handling"

(***************************************************************************)
(* A committed record is a record whose handler has ended, in some way,    *)
(* on some pod: no commit of consume_batch covers a record that was only   *)
(* fetched, whatever rebalances, cancellations and failures came between.  *)
(***************************************************************************)
AccountedBeforeCommit ==
    \A r \in Records : r[2] < committed[r[1]] => fate[r] # {}

(***************************************************************************)
(* Only a rebalance rewinds a position, so a record is handed out at most  *)
(* once per assignment: a handler that raises and a commit that fails in   *)
(* consume_batch never cause a redelivery by themselves.                   *)
(***************************************************************************)
OneAttemptPerAssignment == \A r \in Records : attempts[r] <= rebalances

(***************************************************************************)
(* A committed record is never handed to a handler again, by any pod: what *)
(* the comment in consume() wants of its finally block ("poison messages   *)
(* don't cause infinite replay on restart").                               *)
(***************************************************************************)
NeverReplaysCommitted ==
    [][\A r \in Records : attempts'[r] # attempts[r] => r[2] >= committed[r[1]]]_vars

(***************************************************************************)
(* The group implements the hand-off protocol: committed offsets only grow *)
(* and stay behind the handling of the records.                            *)
(***************************************************************************)
Handoff == INSTANCE OffsetHandoff WITH ended <- {r \in Records : fate[r] # {}}

ImplementsHandoff == Handoff!Spec

(***************************************************************************)
(* Every record of the topic is eventually handled to an end: no record    *)
(* that fails, and no finite number of faults and shutdowns, stalls a      *)
(* partition.                                                              *)
(***************************************************************************)
EveryRecordHandled == \A r \in Records : <>(fate[r] # {})
==============================================================================
