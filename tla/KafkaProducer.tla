---------------------------- MODULE KafkaProducer ----------------------------
(***************************************************************************)
(* The Kafka producer of a consumer pod.  send() (pkg/kafka/producer.py)   *)
(* awaits aiokafka's send, which returns once the message is in the record *)
(* accumulator; the future of its delivery is never awaited.  Delivery is  *)
(* external: aiokafka's sender drains each topic partition in order, and   *)
(* drops a message whose retries are exhausted.  Messages with one topic   *)
(* and key share a partition; those of two topics are not ordered.         *)
(***************************************************************************)
EXTENDS Naturals, Sequences, FiniteSets, Functions

CONSTANTS MaxLost            \* bound on messages lost after send() returned

ASSUME KafkaProducerAssumption == MaxLost \in Nat

VARIABLES open,      \* _running, and aiokafka's accumulator is not closed
          sent,      \* messages accepted by send(), in order
          arrived,   \* indices into sent, in the order the broker appended them
          lost       \* indices into sent that never reached the broker

kafkaVars == <<open, sent, arrived, lost>>

KafkaInit == /\ open = TRUE
             /\ sent = <<>>
             /\ arrived = <<>>
             /\ lost = {}

Pending == (1 .. Len(sent)) \ (Range(arrived) \cup lost)

\* send() puts a message into the accumulator; closed, it raises.
Send(m) ==
    /\ open
    /\ sent' = Append(sent, m)
    /\ UNCHANGED <<open, arrived, lost>>

SamePartition(i, j) == /\ sent[i].topic = sent[j].topic
                       /\ sent[i].key = sent[j].key

\* The broker appends a message: none before it in its partition is pending.
Deliver ==
    /\ \E i \in Pending :
         /\ \A j \in Pending : j < i => ~ SamePartition(i, j)
         /\ arrived' = Append(arrived, i)
    /\ UNCHANGED <<open, sent, lost>>

\* Retries are exhausted: the future fails and nobody looks at it.
Lose ==
    /\ Cardinality(lost) < MaxLost
    /\ \E i \in Pending : lost' = lost \cup {i}
    /\ UNCHANGED <<open, sent, arrived>>

\* stop(): flush() waits for every pending message, then the producer closes.
CloseProducer ==
    /\ open
    /\ Pending = {}
    /\ open' = FALSE
    /\ UNCHANGED <<sent, arrived, lost>>

\* The process dies with the messages in its accumulator; the next one starts.
RestartProducer ==
    /\ open' = TRUE
    /\ lost' = lost \cup Pending
    /\ UNCHANGED <<sent, arrived>>
==============================================================================
