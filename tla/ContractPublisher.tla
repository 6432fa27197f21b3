-------------------------- MODULE ContractPublisher --------------------------
(***************************************************************************)
(* ContractPublisherUseCase (internal/contract_publisher): documents are   *)
(* buffered and flushed as one batch.completed message followed by one     *)
(* report.digest message; insights.published has no cards in this phase.   *)
(*                                                                         *)
(* A flush takes the buffer before its first await and puts it back when a *)
(* send fails.  There is no lock: the tasks of the event loop that call it *)
(* are the consumer task (publish_one, flush) and, once that task is done, *)
(* the tasks that registry.shutdown creates to run close().  A document is *)
(* named by its place in handed, the order in which publish_one got it.    *)
(* The publisher is enabled, its default; disabled it buffers nothing.     *)
(***************************************************************************)
EXTENDS KafkaProducer

CONSTANTS Documents,        \* what the pipeline hands over
          Projects, NoProject,
          ProjectOf,        \* the project each document was ingested for
          BatchSize,        \* contract_publisher.batch_size
          MaxMessage,       \* documents that fit the producer's max_request_size
          Worker, Closers,  \* the consumer task, the tasks running close()
          MaxHanded,        \* bound on calls of publish_one
          MaxFaults,        \* bound on failed sends, payload errors, cancellations
          MaxClock          \* bound on seconds

ASSUME PublisherAssumption ==
    /\ ProjectOf \in [Documents -> Projects]
    /\ NoProject \notin Projects
    /\ BatchSize \in Nat \ {0}
    /\ MaxMessage \in Nat
    /\ Worker \notin Closers
    /\ MaxHanded \in Nat /\ MaxFaults \in Nat /\ MaxClock \in Nat

VARIABLES handed,    \* history: documents publish_one was given
          buffer,    \* _buffer
          flight,    \* flight[t]: the flush task t is in
          dropped,   \* history: documents thrown away with their flush
          working,   \* the consumer task is not done
          now,       \* seconds of the clock run ids are made of
          faults     \* faults so far, capped by MaxFaults

publisherVars == <<handed, buffer, flight, dropped, working, now, faults>>
vars == <<kafkaVars, publisherVars>>

Tasks == {Worker} \cup Closers
Ids == 1 .. Len(handed)

Idle == [stage |-> "idle", docs |-> <<>>, project |-> NoProject, run |-> 0]

\* The consumer task may flush again; a task that ran close() has ended.
Ended(t) == IF t = Worker THEN Idle ELSE [Idle EXCEPT !.stage = "ended"]
Flying(t) == flight[t].stage \in {"batch", "digest"}

Published == {n \in Ids : \E i \in DOMAIN sent : /\ sent[i].topic = "batch"
                                                 /\ n \in Range(sent[i].docs)}
Held == Range(buffer) \cup UNION {Range(flight[t].docs) : t \in Tasks}

Init ==
    /\ KafkaInit
    /\ handed = <<>>
    /\ buffer = <<>>
    /\ flight = [t \in Tasks |-> Idle]
    /\ dropped = {}
    /\ working = TRUE
    /\ now = 0
    /\ faults = 0

Fault == faults < MaxFaults /\ faults' = faults + 1

------------------------------------------------------------------------------
\* Mutant: the buffer is copied for the flush and not cleared.
TakeCopy(t, docs, h) ==
    /\ flight' = [flight EXCEPT ![t] = [stage |-> "batch", docs |-> docs,
                                        project |-> ProjectOf[h[docs[1]]],
                                        run |-> now]]
    /\ buffer' = docs
    /\ UNCHANGED <<dropped, faults>>

\* Mutant: a flush takes the newest document and leaves the others.
TakeNewest(t, docs, h) ==
    /\ flight' = [flight EXCEPT ![t] = [stage |-> "batch",
                                        docs |-> <<docs[Len(docs)]>>,
                                        project |-> ProjectOf[h[docs[1]]],
                                        run |-> now]]
    /\ buffer' = SubSeq(docs, 1, Len(docs) - 1)
    /\ UNCHANGED <<dropped, faults>>

(***************************************************************************)
(* A flush up to its first await: the buffer is copied and cleared, the    *)
(* context is built (project of the first document, run id from the clock) *)
(* and so are the payloads.  h is handed as it is at that moment.          *)
(***************************************************************************)
Take(t, docs, h) ==
    /\ flight' = [flight EXCEPT ![t] = [stage |-> "batch", docs |-> docs,
                                        project |-> ProjectOf[h[docs[1]]],
                                        run |-> now]]
    /\ buffer' = <<>>
    /\ UNCHANGED <<dropped, faults>>

\* A payload cannot be built: the error is logged and the documents are gone.
PayloadFails(docs) ==
    /\ Fault
    /\ buffer' = <<>>
    /\ dropped' = dropped \cup Range(docs)
    /\ UNCHANGED flight

Drain(t, docs, h) == Take(t, docs, h) \/ PayloadFails(docs)

\* publish_one: append, and flush in the same call when the buffer is full.
PublishOne(d) ==
    /\ working /\ ~ Flying(Worker)
    /\ Len(handed) < MaxHanded
    /\ handed' = Append(handed, d)
    /\ LET docs == Append(buffer, Len(handed) + 1)
       IN  \/ /\ Len(docs) < BatchSize
              /\ buffer' = docs
              /\ UNCHANGED <<flight, dropped, faults>>
          \/ /\ Len(docs) >= BatchSize
              /\ Drain(Worker, docs, handed')
    /\ UNCHANGED <<kafkaVars, working, now>>

\* Mutant: no explicit flush, only a full buffer goes out.
FlushWhenFull ==
    /\ working /\ ~ Flying(Worker)
    /\ Len(buffer) >= BatchSize
    /\ Drain(Worker, buffer, handed)
    /\ UNCHANGED <<kafkaVars, handed, working, now>>

\* flush() of the consumer task, after the last fact of a group.
Flush ==
    /\ working /\ ~ Flying(Worker)
    /\ buffer # <<>>
    /\ Drain(Worker, buffer, handed)
    /\ UNCHANGED <<kafkaVars, handed, working, now>>

\* close(): registry.shutdown creates its task once the consumer task is done.
Close(t) ==
    /\ ~ working /\ flight[t].stage = "idle"
    /\ buffer # <<>>
    /\ Drain(t, buffer, handed)
    /\ UNCHANGED <<kafkaVars, handed, working, now>>

------------------------------------------------------------------------------
(***************************************************************************)
(* The awaits of publish_in_required_order.                                *)
(***************************************************************************)
BatchMessage(f) == [topic |-> "batch", key |-> f.project, docs |-> f.docs,
                    project |-> f.project, run |-> f.run]
DigestMessage(f) == [topic |-> "digest", key |-> f.run, docs |-> f.docs,
                     project |-> f.project, run |-> f.run]

SendBatch(t) ==
    /\ flight[t].stage = "batch"
    /\ Len(flight[t].docs) <= MaxMessage
    /\ Send(BatchMessage(flight[t]))
    /\ flight' = [flight EXCEPT ![t].stage = "digest"]
    /\ UNCHANGED <<handed, buffer, dropped, working, now, faults>>

SendDigest(t) ==
    /\ flight[t].stage = "digest"
    /\ Send(DigestMessage(flight[t]))
    /\ flight' = [flight EXCEPT ![t] = Ended(t)]
    /\ UNCHANGED <<handed, buffer, dropped, working, now, faults>>

\* Mutant: the documents of a failed flush are not kept.
RequeueNothing(t) ==
    /\ buffer' = buffer
    /\ flight' = [flight EXCEPT ![t] = Ended(t)]

\* KafkaPublishError: the flush is over and its documents are put back first.
Requeue(t) ==
    /\ buffer' = flight[t].docs \o buffer
    /\ flight' = [flight EXCEPT ![t] = Ended(t)]

\* Mutant: a failed batch message is logged and the digest goes out.
SendFailsQuietly(t) ==
    /\ Flying(t)
    /\ IF open THEN Fault ELSE UNCHANGED faults
    /\ IF flight[t].stage = "batch"
       THEN /\ flight' = [flight EXCEPT ![t].stage = "digest"]
            /\ UNCHANGED buffer
       ELSE Requeue(t)
    /\ UNCHANGED <<kafkaVars, handed, dropped, working, now>>

\* A send raises: broker trouble, or the producer is closed.
SendFails(t) ==
    /\ Flying(t)
    /\ IF open THEN Fault ELSE UNCHANGED faults
    /\ Requeue(t)
    /\ UNCHANGED <<kafkaVars, handed, dropped, working, now>>

\* The batch message is larger than aiokafka's max_request_size.
MessageTooLarge(t) ==
    /\ open
    /\ flight[t].stage = "batch"
    /\ Len(flight[t].docs) > MaxMessage
    /\ Requeue(t)
    /\ UNCHANGED <<kafkaVars, handed, dropped, working, now, faults>>

\* The consumer task ends; a cancel leaves flush() without meeting a handler.
CancelWorker ==
    /\ working
    /\ Fault
    /\ working' = FALSE
    /\ dropped' = dropped \cup Range(flight[Worker].docs)
    /\ flight' = [flight EXCEPT ![Worker] = Idle]
    /\ UNCHANGED <<kafkaVars, handed, buffer, now>>

\* main stops the producer without waiting for the tasks that run close().
StopProducer ==
    /\ ~ working
    /\ CloseProducer
    /\ UNCHANGED publisherVars

\* The process exits or is killed, and Kubernetes starts the next one.
Restart ==
    /\ IF open THEN Fault ELSE UNCHANGED faults
    /\ RestartProducer
    /\ dropped' = dropped \cup Held
    /\ buffer' = <<>>
    /\ flight' = [t \in Tasks |-> Idle]
    /\ working' = TRUE
    /\ UNCHANGED <<handed, now>>

Tick ==
    /\ now < MaxClock
    /\ now' = now + 1
    /\ UNCHANGED <<kafkaVars, handed, buffer, flight, dropped, working, faults>>

Broker == (Deliver \/ Lose) /\ UNCHANGED publisherVars

Next == \/ \E d \in Documents : PublishOne(d)
        \/ Flush
        \/ \E t \in Closers : Close(t)
        \/ \E t \in Tasks : \/ SendBatch(t) \/ SendDigest(t)
                            \/ SendFails(t) \/ MessageTooLarge(t)
        \/ CancelWorker \/ StopProducer \/ Restart
        \/ Tick \/ Broker

Spec == Init /\ [][Next]_vars

(***************************************************************************)
(* A task of a live event loop goes on after its await.  Nothing promises  *)
(* another publish_one or flush: both come with the topic's records.       *)
(***************************************************************************)
Fairness == \A t \in Tasks : /\ WF_vars(SendBatch(t)) /\ WF_vars(SendDigest(t))
                            /\ WF_vars(MessageTooLarge(t))
                            /\ WF_vars(~ open /\ SendFails(t))

FairSpec == Spec /\ Fairness

------------------------------------------------------------------------------
Ascending(s) == \A i, j \in DOMAIN s : i < j => s[i] < s[j]
Batches == {s \in Seq(Ids) : Ascending(s)}

Topics == {"batch", "digest"}
Sendable == Projects \cup {NoProject}

Flights == [stage : {"idle", "batch", "digest", "ended"}, docs : Batches,
            project : Sendable, run : Nat]

Messages == [topic : Topics, key : Sendable \cup Nat, docs : Batches,
             project : Sendable, run : Nat]

(***************************************************************************)
(* Types of the publisher's state (usecase.py, publish_order.py); the      *)
(* buffer and every flush hold documents in the order they were handed in. *)
(***************************************************************************)
TypeOK ==
    /\ handed \in Seq(Documents)
    /\ buffer \in Batches
    /\ flight \in [Tasks -> Flights]
    /\ dropped \in SUBSET Ids
    /\ now \in Nat /\ faults \in Nat
    /\ working \in BOOLEAN /\ open \in BOOLEAN
    /\ sent \in Seq(Messages)
    /\ arrived \in Seq(DOMAIN sent)
    /\ lost \in SUBSET DOMAIN sent

(***************************************************************************)
(* Two flushes never overlap, and nothing is appended during one, though   *)
(* every shutdown creates a close() task of its own and nobody awaits it:  *)
(* what lets the use case do without a lock, and `batch + self._buffer`    *)
(* put the documents of a failed flush back in front of nothing.           *)
(***************************************************************************)
FlushesAlone ==
    \A t \in Tasks : Flying(t) =>
        buffer = <<>> /\ \A u \in Tasks \ {t} : ~ Flying(u)

(***************************************************************************)
(* A document handed to publish_one is in the buffer, in a flush, in a     *)
(* batch message, or went with a flush that was cancelled, could not build *)
(* its payload or died with the process: a failed send never loses one.    *)
(***************************************************************************)
NothingVanishes == Ids \subseteq Held \cup Published \cup dropped

(***************************************************************************)
(* Documents are first published in the order they were handed over: a     *)
(* later one never overtakes one that a failed send put back.              *)
(***************************************************************************)
PublishedInOrder ==
    \A n \in Published : \A e \in 1 .. n : e \in Published \cup dropped

(***************************************************************************)
(* knowledge-srv reads a digest as "run complete", and a batch message has *)
(* no run id: the message sent right before a digest is the batch of the   *)
(* same flush, with the documents the digest counts.                       *)
(***************************************************************************)
DigestFollowsItsBatch ==
    \A i \in DOMAIN sent : sent[i].topic = "digest" =>
        /\ i > 1
        /\ sent[i - 1].topic = "batch"
        /\ sent[i - 1].run = sent[i].run
        /\ sent[i - 1].docs = sent[i].docs

(***************************************************************************)
(* Once the digest of a run was sent its documents are not published again *)
(* by the publisher: only a flush that failed half-way repeats its batch.  *)
(***************************************************************************)
NoReplayAfterDigest ==
    \A i, j \in DOMAIN sent :
        (i < j /\ sent[i].topic = "digest" /\ sent[j].topic = "batch") =>
            Range(sent[i].docs) \cap Range(sent[j].docs) = {}

\* The documents of a flush no longer fit into one message.
Outgrown == \E t \in Tasks : Len(flight[t].docs) > MaxMessage

\* Groups that yield facts keep coming, and flush() is called after each.
FlushesKeepComing == WF_vars(Flush)

(***************************************************************************)
(* As long as groups with facts keep coming to a consumer task that lives, *)
(* a document handed over is at last published, or thrown away with its    *)
(* flush: "Re-add to buffer for retry on next flush" (usecase.py) keeps    *)
(* its promise.  On an idle topic no flush is next, and the document       *)
(* waits; so it does once retries have made the message too large for the  *)
(* producer, which it then stays.                                          *)
(***************************************************************************)
RetriesSettle ==
    FlushesKeepComing =>
        \A n \in 1 .. MaxHanded :
            n \in Ids ~> (n \in Published \cup dropped \/ ~ working \/ Outgrown)
==============================================================================
