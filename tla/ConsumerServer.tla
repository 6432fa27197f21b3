---------------------------- MODULE ConsumerServer ----------------------------
(***************************************************************************)
(* The consumer task of one pod, opened: ConsumerServer                    *)
(* (internal/consumer/server.py) under consume_batch, with the contract    *)
(* publisher it feeds.  A batch is parsed and grouped by project; a group  *)
(* goes through the pipeline in a thread, its facts are persisted and      *)
(* published one by one, the publisher is flushed after the group, and the *)
(* offsets are committed after the batch.  Documents are the records of    *)
(* the one partition, named by their offsets.                              *)
(*                                                                         *)
(* The crisis steps of a group are in CrisisRuntime; one domain per        *)
(* project stands for the (project, domain) key of a group.                *)
(***************************************************************************)
EXTENDS ContractPublisher

CONSTANTS LastRecord,      \* the records are 1 .. LastRecord
          MaxPollRecords,  \* batch_size of consume_batch
          MaxTrouble       \* bound on errors and the publisher's faults together

ASSUME ServerAssumption ==
    /\ LastRecord \in Nat
    /\ Documents = 1 .. LastRecord
    /\ MaxPollRecords \in Nat \ {0}
    /\ MaxTrouble \in Nat

VARIABLES at,         \* the await the consumer task is at
          position,   \* next record to fetch
          committed,  \* next record after the committed offset
          todo,       \* groups of the batch that have not been run: sets of records
          facts,      \* facts of the running group still to be handled
          rows,       \* records with a row in post_insight
          unsaved,    \* history: records whose row could not be written
          left,       \* history: records left out, or cut off by a shutdown
          errors      \* row writes and commits that failed

serverVars == <<at, position, committed, todo, facts, rows, unsaved, left, errors>>
allVars == <<vars, serverVars>>

ServerInit ==
    /\ Init
    /\ at = "poll"
    /\ position = 1
    /\ committed = 1
    /\ todo = {}
    /\ facts = {}
    /\ rows = {}
    /\ unsaved = {}
    /\ left = {}
    /\ errors = 0

Error == errors + faults < MaxTrouble /\ errors' = errors + 1
Bounded == errors + faults' <= MaxTrouble

\* The consumer task takes its next step only when publish_one or flush is over.
Running(where) == working /\ at = where /\ ~ Flying(Worker)

\* Mutant: a project's entry is overwritten by its later records.
GroupsOverwritten(S) ==
    {{r \in S : ProjectOf[r] = x /\ \A q \in S : ProjectOf[q] = x => q <= r} :
        x \in {ProjectOf[r] : r \in S}}

\* A dict keyed by project.
Groups(S) == {{r \in S : ProjectOf[r] = x} : x \in {ProjectOf[r] : r \in S}}

\* Records are handled in the order of the partition, and groups in that of
\* their first records, the order in which a dict was filled.
First(r, S) == r \in S /\ \A q \in S : r <= q
FirstGroup(g) == g \in todo /\ \E r \in g : First(r, UNION todo)

------------------------------------------------------------------------------
(***************************************************************************)
(* getmany, parsing and grouping: no await after the fetch.                *)
(***************************************************************************)
FetchBatch ==
    /\ Running("poll")
    /\ \E n \in 1 .. MaxPollRecords :
         LET fetched == position .. position + n - 1
         IN  /\ position + n <= LastRecord + 1
             /\ \E parsed \in SUBSET fetched :
                  /\ todo' = Groups(parsed)
                  /\ left' = left \cup (fetched \ parsed)
             /\ position' = position + n
    /\ at' = "groups"
    /\ UNCHANGED <<vars, committed, facts, rows, unsaved, errors>>

\* The pipeline runs the group in a thread; it may filter records, or raise.
RunGroup ==
    /\ Running("groups")
    /\ \E group \in todo : \E kept \in SUBSET group :
         /\ FirstGroup(group)
         /\ todo' = todo \ {group}
         /\ facts' = kept
         /\ left' = left \cup (group \ kept)
         /\ at' = IF kept = {} THEN "groups" ELSE "facts"
    /\ UNCHANGED <<vars, position, committed, rows, unsaved, errors>>

(***************************************************************************)
(* _persist_and_publish: the quality gate skips a fact altogether; a row   *)
(* that cannot be written is logged, and its document is still published.  *)
(***************************************************************************)
SkipFact ==
    /\ Running("facts")
    /\ \E r \in facts : /\ First(r, facts)
                       /\ left' = left \cup {r}
                       /\ facts' = facts \ {r}
    /\ UNCHANGED <<vars, at, position, committed, todo, rows, unsaved, errors>>

PersistFact ==
    /\ Running("facts")
    /\ \E r \in facts : First(r, facts) /\ rows' = rows \cup {r}
    /\ at' = "publish"
    /\ UNCHANGED <<vars, position, committed, todo, facts, unsaved, left, errors>>

PersistFails ==
    /\ Running("facts")
    /\ Error
    /\ \E r \in facts : First(r, facts) /\ unsaved' = unsaved \cup {r}
    /\ at' = "publish"
    /\ UNCHANGED <<vars, position, committed, todo, facts, rows, left>>

PublishFact ==
    /\ Running("publish")
    /\ \E r \in facts : /\ First(r, facts)
                       /\ PublishOne(r) /\ Bounded
                       /\ facts' = facts \ {r}
    /\ at' = "facts"
    /\ UNCHANGED <<position, committed, todo, rows, unsaved, left, errors>>

\* Mutant: the explicit flush is removed.
FlushGroupNever ==
    /\ Running("facts") /\ facts = {}
    /\ at' = "groups"
    /\ UNCHANGED <<vars, position, committed, todo, facts, rows, unsaved, left, errors>>

\* The explicit flush after the last fact of a group.
FlushGroup ==
    /\ Running("facts") /\ facts = {}
    /\ Flush \/ (buffer = <<>> /\ UNCHANGED vars)
    /\ Bounded
    /\ at' = "groups"
    /\ UNCHANGED <<position, committed, todo, facts, rows, unsaved, left, errors>>

BatchHandled ==
    /\ Running("groups")
    /\ todo = {}
    /\ at' = "commit"
    /\ UNCHANGED <<vars, position, committed, todo, facts, rows, unsaved, left, errors>>

Commit ==
    /\ Running("commit")
    /\ committed' = position
    /\ at' = "poll"
    /\ UNCHANGED <<vars, position, todo, facts, rows, unsaved, left, errors>>

CommitFails ==
    /\ Running("commit")
    /\ Error
    /\ at' = "poll"
    /\ UNCHANGED <<vars, position, committed, todo, facts, rows, unsaved, left>>

------------------------------------------------------------------------------
(***************************************************************************)
(* shutdown cancels the consumer task where it is: what is left of the     *)
(* batch is cut off, a row being written may or may not be there, and the  *)
(* finally block of consume_batch commits the batch all the same.          *)
(***************************************************************************)
CutOff == (UNION todo) \cup facts

\* Where a cancel can reach the task inside a batch: in a send of a flush, in
\* the pipeline's thread or the steps around it, in the row of the next fact,
\* in the commit.  Between two facts and before the flush nothing is awaited.
Suspended == \/ Flying(Worker)
             \/ at = "groups" /\ todo # {}
             \/ at = "facts" /\ facts # {}
             \/ at = "commit"

Cancel ==
    /\ Suspended
    /\ CancelWorker /\ Bounded
    /\ left' = left \cup CutOff
    /\ \/ UNCHANGED rows
       \/ Running("facts") /\ \E r \in facts : First(r, facts) /\ rows' = rows \cup {r}
    /\ todo' = {} /\ facts' = {}
    /\ at' = "stopping"
    /\ UNCHANGED <<position, committed, unsaved, errors>>

\* Mutant: the error of the loop is swallowed and main goes on waiting.
EndPollingUnseen ==
    /\ at = "poll"
    /\ CancelWorker /\ Bounded
    /\ UNCHANGED serverVars

\* Cancelled between batches, or getmany raised and the loop is over.
EndPolling ==
    /\ at = "poll"
    /\ CancelWorker /\ Bounded
    /\ at' = "stopped"
    /\ UNCHANGED <<position, committed, todo, facts, rows, unsaved, left, errors>>

StopCommit ==
    /\ at = "stopping"
    /\ committed' \in {committed, position}
    /\ at' = "stopped"
    /\ UNCHANGED <<vars, position, todo, facts, rows, unsaved, left, errors>>

\* registry.shutdown creates a close() task; main then stops the producer.
ClosePublisher ==
    /\ at = "stopped"
    /\ \E t \in Closers : Close(t)
    /\ Bounded
    /\ UNCHANGED serverVars

StopServer ==
    /\ at = "stopped"
    /\ StopProducer
    /\ UNCHANGED serverVars

\* The next process resumes at the committed offset with empty memory.
RestartServer ==
    /\ Restart /\ Bounded
    /\ at' = "poll"
    /\ position' = committed
    /\ todo' = {} /\ facts' = {}
    /\ UNCHANGED <<committed, rows, unsaved, left, errors>>

Publishing ==
    /\ \/ \E t \in Tasks : \/ SendBatch(t) \/ SendDigest(t)
                           \/ SendFails(t) \/ MessageTooLarge(t)
       \/ Tick \/ Broker
    /\ Bounded
    /\ UNCHANGED serverVars

ServerNext ==
    \/ FetchBatch \/ RunGroup
    \/ SkipFact \/ PersistFact \/ PersistFails \/ PublishFact \/ FlushGroup
    \/ BatchHandled \/ Commit \/ CommitFails
    \/ Cancel \/ EndPolling \/ StopCommit
    \/ ClosePublisher \/ StopServer \/ RestartServer
    \/ Publishing

ServerSpec == ServerInit /\ [][ServerNext]_allVars

(***************************************************************************)
(* The event loop runs every task that is ready, shutdown runs to its end, *)
(* and an exited process is started again.                                 *)
(***************************************************************************)
ServerFairness ==
    /\ WF_allVars(FetchBatch) /\ WF_allVars(RunGroup)
    /\ WF_allVars(SkipFact \/ PersistFact)
    /\ WF_allVars(PublishFact) /\ WF_allVars(FlushGroup)
    /\ WF_allVars(BatchHandled) /\ WF_allVars(Commit)
    /\ WF_allVars(StopCommit) /\ WF_allVars(StopServer)
    /\ WF_allVars(~ open /\ RestartServer)
    /\ WF_allVars(Deliver /\ Publishing)
    /\ \A t \in Tasks :
         /\ WF_allVars(SendBatch(t) /\ Publishing)
         /\ WF_allVars(SendDigest(t) /\ Publishing)
         /\ WF_allVars(~ open /\ SendFails(t) /\ Publishing)
         /\ WF_allVars(MessageTooLarge(t) /\ Publishing)

FairServerSpec == ServerSpec /\ ServerFairness

------------------------------------------------------------------------------
RecordsOf(S) == {handed[n] : n \in S}

(***************************************************************************)
(* Types of the consumer task's state; the offset of a batch is committed  *)
(* as a whole, so the position is never behind it.                         *)
(***************************************************************************)
ServerTypeOK ==
    /\ TypeOK
    /\ at \in {"poll", "groups", "facts", "publish", "commit", "stopping", "stopped"}
    /\ position \in 1 .. LastRecord + 1
    /\ committed \in 1 .. position
    /\ todo \in SUBSET SUBSET Documents /\ facts \in SUBSET Documents
    /\ rows \in SUBSET Documents /\ unsaved \in SUBSET Documents
    /\ left \in SUBSET Documents
    /\ errors \in 0 .. MaxTrouble

(***************************************************************************)
(* Every record behind the position is with the running batch, was left    *)
(* out or cut off, or was handed to the publisher: no record disappears    *)
(* between fetch, grouping, pipeline, row and publisher.                   *)
(***************************************************************************)
NoRecordSkipped ==
    1 .. position - 1 \subseteq left \cup RecordsOf(Ids) \cup facts \cup UNION todo

(***************************************************************************)
(* While nothing has failed, a batch message holds documents of the one    *)
(* project it is published under: what the explicit flush after each group *)
(* is there for ("do NOT remove", AGENT.md).                               *)
(***************************************************************************)
OwnProjectUntilFailure ==
    faults = 0 =>
        \A i \in DOMAIN sent : \A n \in Range(sent[i].docs) :
            ProjectOf[handed[n]] = sent[i].project

(***************************************************************************)
(* In the end every record has been handled and the consumer task is back  *)
(* in getmany: no failing row, send or commit, no oversized message, no    *)
(* cancelled task and no slow close() stops the pod for good.              *)
(***************************************************************************)
ReachesEnd == <>[](position = LastRecord + 1 /\ at = "poll" /\ working)

(***************************************************************************)
(* What registry.shutdown is for ("Flush contract publisher on shutdown"): *)
(* once the producer is stopped no document is left in the publisher.      *)
(***************************************************************************)
ShutdownFlushes == ~ open => Held = {}
==============================================================================
