------------------------- MODULE ConsumerServerProofs -------------------------
(***************************************************************************)
(* Proofs about ContractPublisher and about ConsumerServer, which extends  *)
(* it, for every buffer and message size and any number of records,        *)
(* projects, faults and closing tasks.                                     *)
(*                                                                         *)
(* First the publisher: flushes never overlap, no document vanishes, none  *)
(* overtakes another, and none is replayed after its digest.  Then the     *)
(* server: its steps are steps of the publisher, so what is proved of the  *)
(* publisher holds in the server; no record is skipped; and messages stay  *)
(* within a project until something fails.                                 *)
(***************************************************************************)
EXTENDS ConsumerServer, TLAPS

USE KafkaProducerAssumption, PublisherAssumption

------------------------------------------------------------------------------
(***************************************************************************)
(* Sequences of documents.                                                 *)
(***************************************************************************)
LEMMA RangeOfAppend ==
  ASSUME NEW S, NEW s \in Seq(S), NEW e \in S
  PROVE  Range(Append(s, e)) = Range(s) \cup {e}
<1> DEFINE t == Append(s, e)
<1>1. DOMAIN t = 1 .. Len(s) + 1 /\ DOMAIN s = 1 .. Len(s) /\ Len(s) \in Nat
  OBVIOUS
<1>2. t[Len(s) + 1] = e /\ \A i \in 1 .. Len(s) : t[i] = s[i]
  OBVIOUS
<1>3. \A i \in 1 .. Len(s) + 1 : i \in 1 .. Len(s) \/ i = Len(s) + 1
  BY <1>1
<1>4. ASSUME NEW x \in Range(t) PROVE x \in Range(s) \cup {e}
  BY <1>1, <1>2, <1>3 DEF Range
<1>5. ASSUME NEW x \in Range(s) \cup {e} PROVE x \in Range(t)
  <2>1. CASE x = e
    <3>1. Len(s) + 1 \in DOMAIN t
      BY <1>1
    <3> QED
      BY <3>1, <2>1, <1>2 DEF Range
  <2>2. CASE x \in Range(s)
    <3>1. PICK i \in DOMAIN s : x = s[i]
      BY <2>2 DEF Range
    <3>2. i \in DOMAIN t /\ t[i] = x
      BY <3>1, <1>1, <1>2
    <3> QED
      BY <3>2 DEF Range
  <2> QED
    BY <2>1, <2>2
<1> QED
  BY <1>4, <1>5

(* Joining nothing changes nothing.                                        *)
LEMMA ConcatEmpty ==
  ASSUME NEW S, NEW s \in Seq(S)
  PROVE  s \o <<>> = s
  OBVIOUS

\* One more document is handed over: the batches there were are still batches.
LEMMA BatchesGrow ==
  ASSUME handed \in Seq(Documents), NEW d \in Documents,
         handed' = Append(handed, d)
  PROVE  /\ Ids' = Ids \cup {Len(handed) + 1}
         /\ Len(handed) + 1 \notin Ids
         /\ Batches \subseteq Batches'
         /\ Flights \subseteq Flights'
         /\ Messages \subseteq Messages'
<1>1. handed' \in Seq(Documents) /\ Len(handed') = Len(handed) + 1
  OBVIOUS
<1>2. Ids' = Ids \cup {Len(handed) + 1} /\ Len(handed) + 1 \notin Ids
  BY <1>1 DEF Ids
<1>3. Batches \subseteq Batches'
  BY <1>2 DEF Batches, Ascending
<1>4. Flights \subseteq Flights'
  BY <1>3 DEF Flights, Sendable
<1>5. Messages \subseteq Messages'
  BY <1>3 DEF Messages, Sendable
<1> QED
  BY <1>2, <1>3, <1>4, <1>5

\* A new document is the last of a batch that it joins.
LEMMA BatchAppend ==
  ASSUME handed \in Seq(Documents), NEW d \in Documents,
         handed' = Append(handed, d), NEW s \in Batches
  PROVE  Append(s, Len(handed) + 1) \in Batches'
<1>1. Ids' = Ids \cup {Len(handed) + 1}
  BY BatchesGrow
<1>2. s \in Seq(Nat) /\ \A i \in DOMAIN s : s[i] \in 1 .. Len(handed)
  BY DEF Batches, Ids
<1> DEFINE t == Append(s, Len(handed) + 1)
<1>3. t \in Seq(Ids')
  BY <1>1 DEF Batches
<1>4. Ascending(t)
  <2> SUFFICES ASSUME NEW i \in DOMAIN t, NEW j \in DOMAIN t, i < j
               PROVE  t[i] < t[j]
    BY DEF Ascending
  <2>1. CASE j = Len(s) + 1
    BY <2>1, <1>2
  <2>2. CASE j # Len(s) + 1
    <3>1. j \in DOMAIN s /\ i \in DOMAIN s
      BY <2>2, <1>2
    <3> QED
      BY <3>1, <1>2 DEF Batches, Ascending
  <2> QED
    BY <2>1, <2>2
<1> QED
  BY <1>3, <1>4 DEF Batches

------------------------------------------------------------------------------
(***************************************************************************)
(* What makes FlushesAlone inductive: a task is in a flush exactly when it *)
(* holds documents, and the tasks running close() wait for the consumer    *)
(* task.                                                                   *)
(***************************************************************************)
FlightShape == \A t \in Tasks : Flying(t) <=> flight[t].docs # <<>>

ClosersWait == working => \A t \in Closers : ~ Flying(t)

Alone == TypeOK /\ FlightShape /\ ClosersWait /\ FlushesAlone

\* The buffer is drained: by a flush of task t, or into the void.
LEMMA DrainAlone ==
  ASSUME Alone, NEW t \in Tasks, NEW docs,
         \A u \in Tasks : ~ Flying(u),
         t \in Closers => ~ working,
         handed' \in Seq(Documents),
         Flights \subseteq Flights',
         Ids \subseteq Ids',
         docs \in Batches', docs # <<>>,
         Drain(t, docs, handed'),
         UNCHANGED <<working, now>>
  PROVE  /\ flight' \in [Tasks -> Flights']
         /\ buffer' \in Batches'
         /\ dropped' \in SUBSET Ids'
         /\ faults' \in Nat
         /\ FlightShape' /\ ClosersWait' /\ FlushesAlone'
<1>1. docs \in Seq(Ids') /\ docs[1] \in Ids'
  BY DEF Batches
<1>2. <<>> \in Batches'
  BY DEF Batches, Ascending
<1>3. CASE Take(t, docs, handed')
  <2> DEFINE f == [stage |-> "batch", docs |-> docs,
                   project |-> ProjectOf[handed'[docs[1]]], run |-> now]
  <2>1. handed'[docs[1]] \in Documents
    BY <1>1 DEF Ids
  <2>2. f \in Flights'
    BY <2>1 DEF Flights, Sendable, Alone, TypeOK
  <2>3. flight' = [flight EXCEPT ![t] = f] /\ buffer' = <<>>
    BY <1>3 DEF Take
  <2>4. flight \in [Tasks -> Flights]
    BY DEF Alone, TypeOK
  <2>5. flight' \in [Tasks -> Flights']
    BY <2>2, <2>3, <2>4
  <2>6. \A u \in Tasks : flight'[u] = IF u = t THEN f ELSE flight[u]
    BY <2>3, <2>4
  <2>7. FlightShape' /\ FlushesAlone' /\ ClosersWait'
    BY <2>3, <2>6 DEF FlightShape, FlushesAlone, ClosersWait, Alone, Flying, Tasks
  <2> QED
    BY <1>2, <1>3, <2>3, <2>5, <2>7 DEF Take, Alone, TypeOK
<1>4. CASE PayloadFails(docs)
  <2>1. UNCHANGED flight /\ buffer' = <<>>
    BY <1>4 DEF PayloadFails
  <2>2. FlightShape' /\ FlushesAlone' /\ ClosersWait'
    BY <2>1 DEF FlightShape, FlushesAlone, ClosersWait, Alone, Flying
  <2>3. Range(docs) \subseteq Ids'
    BY <1>1 DEF Range
  <2>4. dropped' \in SUBSET Ids'
    BY <1>4, <2>3 DEF PayloadFails, Alone, TypeOK
  <2>5. faults' \in Nat
    BY <1>4 DEF PayloadFails, Fault, Alone, TypeOK
  <2> QED
    BY <1>2, <2>1, <2>2, <2>4, <2>5 DEF Alone, TypeOK
<1> QED
  BY <1>3, <1>4 DEF Drain

(* The publisher's calls leave one task at work at a time.                 *)
LEMMA AloneStep == Alone /\ [Next]_vars => Alone'
<1> SUFFICES ASSUME Alone, [Next]_vars PROVE Alone'
  OBVIOUS
<1> USE DEF vars, kafkaVars, publisherVars
<1>a. /\ TypeOK /\ FlightShape /\ ClosersWait /\ FlushesAlone
      /\ Worker \in Tasks /\ <<>> \in Batches
  BY DEF Alone, Tasks, Batches, Ascending
<1>1. ASSUME NEW d \in Documents, PublishOne(d) PROVE Alone'
  <2>1. handed' = Append(handed, d) /\ handed \in Seq(Documents)
        /\ UNCHANGED <<open, sent, arrived, lost, working, now>>
    BY <1>1, <1>a DEF PublishOne, TypeOK
  <2>2. handed' \in Seq(Documents)
    BY <2>1
  <2>3. /\ Ids' = Ids \cup {Len(handed) + 1}
        /\ Batches \subseteq Batches' /\ Flights \subseteq Flights'
        /\ Messages \subseteq Messages'
    BY <2>1, BatchesGrow
  <2>4. \A u \in Tasks : ~ Flying(u)
    BY <1>1, <1>a DEF PublishOne, ClosersWait, Tasks
  <2> DEFINE docs == Append(buffer, Len(handed) + 1)
  <2>5. docs \in Batches' /\ docs # <<>>
    <3>1. buffer \in Batches
      BY <1>a DEF TypeOK
    <3>2. docs \in Batches'
      BY <2>1, <3>1, BatchAppend
    <3>3. Len(docs) = Len(buffer) + 1 /\ Len(buffer) \in Nat
      BY <3>1 DEF Batches
    <3> QED
      BY <3>2, <3>3
  <2>6. /\ flight' \in [Tasks -> Flights'] /\ buffer' \in Batches'
        /\ dropped' \in SUBSET Ids' /\ faults' \in Nat
        /\ FlightShape' /\ ClosersWait' /\ FlushesAlone'
    <3>1. CASE buffer' = docs /\ UNCHANGED <<flight, dropped, faults>>
      <4>1. flight' \in [Tasks -> Flights']
        BY <3>1, <1>a, <2>3 DEF TypeOK
      <4>2. dropped' \in SUBSET Ids' /\ faults' \in Nat
        BY <3>1, <1>a, <2>3 DEF TypeOK
      <4>3. FlightShape' /\ ClosersWait' /\ FlushesAlone'
        BY <3>1, <1>a, <2>1, <2>4 DEF FlightShape, ClosersWait, FlushesAlone, Flying
      <4> QED
        BY <3>1, <2>5, <4>1, <4>2, <4>3
    <3>2. CASE Drain(Worker, docs, handed')
      BY <3>2, <1>a, <2>1, <2>2, <2>3, <2>4, <2>5, DrainAlone DEF Alone, Tasks
    <3> QED
      BY <3>1, <3>2, <1>1 DEF PublishOne
  <2>7. sent' \in Seq(Messages') /\ arrived' \in Seq(DOMAIN sent')
        /\ lost' \in SUBSET DOMAIN sent' /\ now' \in Nat
        /\ working' \in BOOLEAN /\ open' \in BOOLEAN
    BY <1>a, <2>1, <2>3 DEF TypeOK
  <2> QED
    BY <2>2, <2>6, <2>7 DEF Alone, TypeOK
<1>2. CASE Flush
  <2>1. /\ \A u \in Tasks : ~ Flying(u)
        /\ buffer \in Batches /\ buffer # <<>> /\ handed' = handed
        /\ UNCHANGED <<open, sent, arrived, lost, working, now>>
    BY <1>2, <1>a DEF Flush, ClosersWait, Tasks, TypeOK
  <2>2. Ids' = Ids /\ Batches' = Batches /\ Flights' = Flights /\ Messages' = Messages
    BY <2>1 DEF Ids, Batches, Flights, Messages
  <2>3. handed' \in Seq(Documents)
    BY <2>1, <1>a DEF TypeOK
  <2>4. Drain(Worker, buffer, handed')
    BY <1>2, <2>1 DEF Flush
  <2>5. /\ flight' \in [Tasks -> Flights'] /\ buffer' \in Batches'
        /\ dropped' \in SUBSET Ids' /\ faults' \in Nat
        /\ FlightShape' /\ ClosersWait' /\ FlushesAlone'
    BY <2>1, <2>2, <2>3, <2>4, <1>a, DrainAlone
  <2> QED
    BY <2>1, <2>2, <2>3, <2>5, <1>a DEF Alone, TypeOK
<1>3. ASSUME NEW t \in Closers, Close(t) PROVE Alone'
  <2>1. buffer \in Batches /\ buffer # <<>> /\ handed' = handed /\ ~ working
        /\ t \in Tasks /\ UNCHANGED <<open, sent, arrived, lost, working, now>>
    BY <1>3, <1>a DEF Close, Tasks, TypeOK
  <2>a. \A u \in Tasks : ~ Flying(u)
    BY <2>1, <1>a DEF FlushesAlone
  <2>2. Ids' = Ids /\ Batches' = Batches /\ Flights' = Flights /\ Messages' = Messages
    BY <2>1 DEF Ids, Batches, Flights, Messages
  <2>3. handed' \in Seq(Documents)
    BY <2>1, <1>a DEF TypeOK
  <2>4. Drain(t, buffer, handed')
    BY <1>3, <2>1 DEF Close
  <2>5. /\ flight' \in [Tasks -> Flights'] /\ buffer' \in Batches'
        /\ dropped' \in SUBSET Ids' /\ faults' \in Nat
        /\ FlightShape' /\ ClosersWait' /\ FlushesAlone'
    BY <2>1, <2>a, <2>2, <2>3, <2>4, <1>a, DrainAlone
  <2> QED
    BY <2>1, <2>2, <2>3, <2>5, <1>a DEF Alone, TypeOK
<1>b. ASSUME UNCHANGED handed
      PROVE  /\ Ids' = Ids /\ Batches' = Batches
             /\ Flights' = Flights /\ Messages' = Messages
  BY <1>b DEF Ids, Batches, Flights, Messages
<1>4. ASSUME NEW t \in Tasks, SendBatch(t) PROVE Alone'
  <2>1. /\ flight[t] \in Flights /\ flight[t].stage = "batch"
        /\ sent' = Append(sent, BatchMessage(flight[t]))
        /\ flight' = [flight EXCEPT ![t].stage = "digest"]
        /\ UNCHANGED <<handed, buffer, dropped, working, now, faults, open, arrived, lost>>
    BY <1>4, <1>a DEF SendBatch, Send, TypeOK
  <2>2. BatchMessage(flight[t]) \in Messages
    BY <2>1 DEF BatchMessage, Flights, Messages, Topics
  <2>3. sent' \in Seq(Messages) /\ DOMAIN sent \subseteq DOMAIN sent'
    BY <2>1, <2>2, <1>a DEF TypeOK
  <2>4. flight' \in [Tasks -> Flights]
    BY <2>1, <1>a DEF TypeOK, Flights
  <2>5. \A u \in Tasks : flight'[u].docs = flight[u].docs /\ (Flying(u)' <=> Flying(u))
    BY <2>1, <1>a DEF TypeOK, Flights, Flying
  <2>6. FlightShape' /\ ClosersWait' /\ FlushesAlone'
    BY <2>1, <2>5, <1>a DEF FlightShape, ClosersWait, FlushesAlone, Tasks
  <2> QED
    BY <2>1, <2>3, <2>4, <2>6, <1>a, <1>b DEF Alone, TypeOK
<1>c. ASSUME NEW t \in Tasks, Flying(t), flight' = [flight EXCEPT ![t] = Ended(t)],
             UNCHANGED <<handed, working>>
      PROVE  /\ flight' \in [Tasks -> Flights']
             /\ FlightShape' /\ ClosersWait' /\ FlushesAlone'
             /\ \A u \in Tasks : ~ Flying(u)'
  <2>1. Ended(t) \in Flights /\ Ended(t).docs = <<>>
        /\ Ended(t).stage \in {"idle", "ended"}
    BY <1>a DEF Ended, Idle, Flights, Sendable
  <2>2. \A u \in Tasks : flight'[u] = IF u = t THEN Ended(t) ELSE flight[u]
    BY <1>c, <1>a DEF TypeOK
  <2>3. flight' \in [Tasks -> Flights']
    BY <2>1, <1>b, <1>c, <1>a DEF TypeOK
  <2>4. \A u \in Tasks : ~ Flying(u)'
    BY <2>1, <2>2, <1>c, <1>a DEF FlushesAlone, Flying
  <2>5. FlightShape' /\ ClosersWait' /\ FlushesAlone'
    BY <2>1, <2>2, <2>4, <1>c, <1>a DEF FlightShape, ClosersWait, FlushesAlone, Tasks, Flying
  <2> QED
    BY <2>3, <2>4, <2>5
<1>5. ASSUME NEW t \in Tasks, SendDigest(t) PROVE Alone'
  <2>1. /\ flight[t] \in Flights /\ Flying(t)
        /\ sent' = Append(sent, DigestMessage(flight[t]))
        /\ flight' = [flight EXCEPT ![t] = Ended(t)]
        /\ UNCHANGED <<handed, buffer, dropped, working, now, faults, open, arrived, lost>>
    BY <1>5, <1>a DEF SendDigest, Send, TypeOK, Flying
  <2>2. DigestMessage(flight[t]) \in Messages
    BY <2>1 DEF DigestMessage, Flights, Messages, Topics
  <2>3. sent' \in Seq(Messages) /\ DOMAIN sent \subseteq DOMAIN sent'
    BY <2>1, <2>2, <1>a DEF TypeOK
  <2>4. flight' \in [Tasks -> Flights'] /\ FlightShape' /\ ClosersWait' /\ FlushesAlone'
    BY <2>1, <1>c
  <2>5. arrived' \in Seq(DOMAIN sent') /\ lost' \in SUBSET DOMAIN sent'
    BY <2>1, <2>3, <1>a DEF TypeOK
  <2> QED
    BY <2>1, <2>3, <2>4, <2>5, <1>a, <1>b DEF Alone, TypeOK
<1>6. ASSUME NEW t \in Tasks, SendFails(t) \/ MessageTooLarge(t) PROVE Alone'
  <2>1. Flying(t) /\ Requeue(t)
        /\ UNCHANGED <<open, sent, arrived, lost, handed, dropped, working, now>>
    BY <1>6 DEF SendFails, MessageTooLarge, Flying
  <2>2. faults' \in Nat
    BY <1>6, <1>a DEF SendFails, MessageTooLarge, Fault, TypeOK
  <2>3. flight[t].docs \in Batches /\ buffer = <<>>
    BY <2>1, <1>a DEF TypeOK, Flights, FlushesAlone
  <2>4. buffer' = flight[t].docs
    BY <2>1, <2>3, ConcatEmpty DEF Requeue, Batches
  <2>5. flight' = [flight EXCEPT ![t] = Ended(t)]
    BY <2>1 DEF Requeue
  <2> QED
    BY <2>1, <2>2, <2>3, <2>4, <2>5, <1>a, <1>b, <1>c DEF Alone, TypeOK
<1>7. CASE CancelWorker
  <2>1. /\ working' = FALSE /\ faults' \in Nat
        /\ dropped' = dropped \cup Range(flight[Worker].docs)
        /\ flight' = [flight EXCEPT ![Worker] = Idle]
        /\ UNCHANGED <<open, sent, arrived, lost, handed, buffer, now>>
    BY <1>7, <1>a DEF CancelWorker, Fault, TypeOK
  <2>2. Idle \in Flights /\ Idle.docs = <<>> /\ Idle.stage = "idle"
    BY <1>a DEF Idle, Flights, Sendable
  <2>3. \A u \in Tasks : flight'[u] = IF u = Worker THEN Idle ELSE flight[u]
    BY <2>1, <1>a DEF TypeOK
  <2>4. flight' \in [Tasks -> Flights]
    BY <2>1, <2>2, <1>a DEF TypeOK
  <2>5. FlightShape' /\ ClosersWait' /\ FlushesAlone'
    BY <2>1, <2>2, <2>3, <1>a DEF FlightShape, ClosersWait, FlushesAlone, Flying
  <2>6. flight[Worker].docs \in Seq(Ids)
    BY <1>a DEF TypeOK, Flights, Batches
  <2>7. dropped' \in SUBSET Ids
    BY <2>1, <2>6, <1>a DEF Range, TypeOK
  <2>8. working' \in BOOLEAN
    BY <2>1
  <2> QED
    BY <2>1, <2>4, <2>5, <2>7, <2>8, <1>a, <1>b DEF Alone, TypeOK
<1>8. CASE StopProducer
  <2>1. UNCHANGED <<publisherVars, sent, arrived, lost>> /\ open' = FALSE
    BY <1>8 DEF StopProducer, CloseProducer
  <2>2. FlightShape' /\ ClosersWait' /\ FlushesAlone'
    BY <2>1, <1>a DEF FlightShape, ClosersWait, FlushesAlone, Flying
  <2>3. open' \in BOOLEAN
    BY <2>1
  <2> QED
    BY <2>1, <2>2, <2>3, <1>a, <1>b DEF Alone, TypeOK
<1>9. CASE Restart
  <2>1. /\ open' = TRUE /\ working' = TRUE /\ buffer' = <<>>
        /\ lost' = lost \cup Pending /\ dropped' = dropped \cup Held
        /\ flight' = [t \in Tasks |-> Idle]
        /\ UNCHANGED <<sent, arrived, handed, now>>
    BY <1>9 DEF Restart, RestartProducer
  <2>2. faults' \in Nat
    BY <1>9, <1>a DEF Restart, Fault, TypeOK
  <2>3. lost' \in SUBSET DOMAIN sent'
    BY <2>1, <1>a DEF TypeOK, Pending
  <2>4. Held \subseteq Ids
    BY <1>a DEF Held, TypeOK, Flights, Batches, Range
  <2>5. Idle \in Flights /\ Idle.docs = <<>> /\ Idle.stage = "idle"
    BY <1>a DEF Idle, Flights, Sendable
  <2>6. flight' \in [Tasks -> Flights] /\ \A t \in Tasks : flight'[t] = Idle
    BY <2>1, <2>5
  <2>7. FlightShape' /\ ClosersWait' /\ FlushesAlone'
    BY <2>5, <2>6 DEF FlightShape, ClosersWait, FlushesAlone, Flying, Tasks
  <2>8. open' \in BOOLEAN /\ working' \in BOOLEAN
    BY <2>1
  <2> QED
    BY <2>1, <2>2, <2>3, <2>4, <2>6, <2>7, <2>8, <1>a, <1>b DEF Alone, TypeOK
<1>10. CASE Tick
  <2>1. /\ now' = now + 1
        /\ UNCHANGED <<open, sent, arrived, lost, handed, buffer, flight, dropped, working, faults>>
    BY <1>10 DEF Tick
  <2>2. FlightShape' /\ ClosersWait' /\ FlushesAlone'
    BY <2>1, <1>a DEF FlightShape, ClosersWait, FlushesAlone, Flying
  <2> QED
    BY <2>1, <2>2, <1>a, <1>b DEF Alone, TypeOK
<1>11. CASE Broker
  <2>1. UNCHANGED <<publisherVars, open, sent>>
    BY <1>11 DEF Broker, Deliver, Lose
  <2>2. arrived' \in Seq(DOMAIN sent) /\ lost' \in SUBSET DOMAIN sent
    <3>1. Pending \subseteq DOMAIN sent
      BY <1>a DEF Pending, TypeOK
    <3>2. CASE Deliver
      BY <3>1, <3>2, <1>a DEF Deliver, TypeOK
    <3>3. CASE Lose
      BY <3>1, <3>3, <1>a DEF Lose, TypeOK
    <3> QED
      BY <3>2, <3>3, <1>11 DEF Broker
  <2>3. FlightShape' /\ ClosersWait' /\ FlushesAlone'
    BY <2>1, <1>a DEF FlightShape, ClosersWait, FlushesAlone, Flying
  <2> QED
    BY <2>1, <2>2, <2>3, <1>a, <1>b DEF Alone, TypeOK
<1>12. CASE UNCHANGED vars
  <2>1. FlightShape' /\ ClosersWait' /\ FlushesAlone'
    BY <1>12, <1>a DEF FlightShape, ClosersWait, FlushesAlone, Flying
  <2> QED
    BY <1>12, <2>1, <1>a, <1>b DEF Alone, TypeOK
<1> QED
  BY <1>1, <1>2, <1>3, <1>4, <1>5, <1>6, <1>7, <1>8, <1>9, <1>10, <1>11, <1>12
  DEF Next

(* At the start no task is at work.                                        *)
LEMMA AloneInit == Init => Alone
<1> SUFFICES ASSUME Init PROVE Alone
  OBVIOUS
<1> USE DEF Init, KafkaInit
<1>1. Idle \in Flights /\ Idle.docs = <<>> /\ Idle.stage = "idle" /\ <<>> \in Batches
  BY DEF Idle, Flights, Sendable, Batches, Ascending
<1>2. TypeOK
  BY <1>1 DEF TypeOK
<1>3. \A t \in Tasks : flight[t] = Idle
  OBVIOUS
<1>4. FlightShape /\ ClosersWait /\ FlushesAlone
  BY <1>1, <1>3 DEF FlightShape, ClosersWait, FlushesAlone, Flying, Tasks
<1> QED
  BY <1>2, <1>4 DEF Alone

(* One task at a time is at work in every state, though nothing locks: flush and publish await each other. *)
THEOREM AlwaysAlone == Spec => []Alone
<1>1. Init => Alone
  BY AloneInit
<1>2. Alone /\ [Next]_vars => Alone'
  BY AloneStep
<1> QED
  BY <1>1, <1>2, PTL DEF Spec

(***************************************************************************)
(* The publisher's state keeps its types, and buffer and flushes keep the  *)
(* order of hand-over (usecase.py).                                        *)
(***************************************************************************)
THEOREM TypeCorrect == Spec => []TypeOK
<1>1. Alone => TypeOK
  BY DEF Alone
<1> QED
  BY <1>1, AlwaysAlone, PTL

(***************************************************************************)
(* No two flushes overlap and nothing is buffered during one (usecase.py,  *)
(* server.py, registry.py).                                                *)
(***************************************************************************)
THEOREM FlushesNeverOverlap == Spec => []FlushesAlone
<1>1. Alone => FlushesAlone
  BY DEF Alone
<1> QED
  BY <1>1, AlwaysAlone, PTL

------------------------------------------------------------------------------
(***************************************************************************)
(* A flush in its digest stage has just sent its batch: no other task can  *)
(* send in between.                                                        *)
(***************************************************************************)
AfterBatch ==
    \A t \in Tasks : flight[t].stage = "digest" =>
        sent # <<>> /\ sent[Len(sent)] = BatchMessage(flight[t])

Paired == Alone /\ AfterBatch /\ DigestFollowsItsBatch

(* At the start nothing was sent.                                          *)
LEMMA PairedInit == Init => Paired
  BY AloneInit
  DEF Init, KafkaInit, Paired, AfterBatch, DigestFollowsItsBatch, Idle

\* Nothing is sent and no flush reaches its digest stage.
LEMMA PairedQuiet ==
  ASSUME Paired, UNCHANGED sent,
         \A t \in Tasks : flight'[t].stage = "digest" => flight'[t] = flight[t]
  PROVE  AfterBatch' /\ DigestFollowsItsBatch'
  BY DEF Paired, AfterBatch, DigestFollowsItsBatch, BatchMessage

(* Each step sends a digest only after its batch.                          *)
LEMMA PairedStep == Paired /\ [Next]_vars => Paired'
<1> SUFFICES ASSUME Paired, [Next]_vars PROVE AfterBatch' /\ DigestFollowsItsBatch'
  BY AloneStep DEF Paired
<1> USE DEF vars, kafkaVars, publisherVars
<1>a. /\ Alone /\ TypeOK /\ AfterBatch /\ DigestFollowsItsBatch
      /\ flight \in [Tasks -> Flights] /\ sent \in Seq(Messages)
  BY DEF Paired, Alone, TypeOK
<1>1. ASSUME NEW t \in Tasks, NEW docs, NEW h, Drain(t, docs, h)
      PROVE  \A u \in Tasks : flight'[u].stage = "digest" => flight'[u] = flight[u]
  BY <1>1, <1>a DEF Drain, Take, PayloadFails
<1>2. ASSUME NEW t \in Tasks, flight' = [flight EXCEPT ![t] = Ended(t)]
      PROVE  \A u \in Tasks : flight'[u].stage = "digest" => flight'[u] = flight[u]
  BY <1>2, <1>a DEF Ended, Idle
<1>3. ASSUME NEW d \in Documents, PublishOne(d)
      PROVE  AfterBatch' /\ DigestFollowsItsBatch'
  <2>1. \/ UNCHANGED flight
        \/ Drain(Worker, Append(buffer, Len(handed) + 1), handed')
    BY <1>3 DEF PublishOne
  <2>2. \A u \in Tasks : flight'[u].stage = "digest" => flight'[u] = flight[u]
    BY <2>1, <1>1 DEF Tasks
  <2> QED
    BY <1>3, <2>2, PairedQuiet DEF PublishOne
<1>4. CASE Flush \/ \E t \in Closers : Close(t)
  <2>1. \A u \in Tasks : flight'[u].stage = "digest" => flight'[u] = flight[u]
    BY <1>4, <1>1 DEF Flush, Close, Tasks
  <2> QED
    BY <1>4, <2>1, PairedQuiet DEF Flush, Close
<1>5. ASSUME NEW t \in Tasks, SendBatch(t)
      PROVE  AfterBatch' /\ DigestFollowsItsBatch'
  <2> DEFINE m == BatchMessage(flight[t])
  <2>1. /\ flight[t] \in Flights /\ flight[t].stage = "batch"
        /\ sent' = Append(sent, m)
        /\ flight' = [flight EXCEPT ![t].stage = "digest"]
    BY <1>5, <1>a DEF SendBatch, Send
  <2>2. m \in Messages /\ m.topic = "batch"
    BY <2>1 DEF BatchMessage, Flights, Messages, Topics
  <2>3. /\ Len(sent') = Len(sent) + 1 /\ sent' # <<>>
        /\ sent'[Len(sent) + 1] = m
        /\ DOMAIN sent' = DOMAIN sent \cup {Len(sent) + 1}
        /\ \A i \in DOMAIN sent : sent'[i] = sent[i]
    BY <2>1, <2>2, <1>a
  <2>4. BatchMessage(flight'[t]) = m
    BY <2>1, <1>a DEF BatchMessage, Flights
  <2>5. \A u \in Tasks \ {t} : flight'[u].stage # "digest"
    BY <2>1, <1>a DEF Alone, FlushesAlone, Flying
  <2>6. AfterBatch'
    <3>1. sent'[Len(sent')] = m
      BY <2>3
    <3> QED
      BY <2>3, <2>4, <2>5, <3>1 DEF AfterBatch, BatchMessage
  <2>7. \A i \in DOMAIN sent : i > 1 => i - 1 \in DOMAIN sent
    BY <1>a
  <2> QED
    BY <2>2, <2>3, <2>6, <2>7, <1>a DEF DigestFollowsItsBatch
<1>6. ASSUME NEW t \in Tasks, SendDigest(t)
      PROVE  AfterBatch' /\ DigestFollowsItsBatch'
  <2> DEFINE m == DigestMessage(flight[t])
  <2>1. /\ flight[t] \in Flights /\ flight[t].stage = "digest"
        /\ sent' = Append(sent, m)
        /\ flight' = [flight EXCEPT ![t] = Ended(t)]
    BY <1>6, <1>a DEF SendDigest, Send
  <2>2. sent # <<>> /\ sent[Len(sent)] = BatchMessage(flight[t])
    BY <2>1, <1>a DEF AfterBatch
  <2>3. m \in Messages
    BY <2>1 DEF DigestMessage, Flights, Messages, Topics
  <2>4. /\ Len(sent) \in Nat /\ Len(sent) > 0
        /\ sent'[Len(sent) + 1] = m
        /\ DOMAIN sent' = DOMAIN sent \cup {Len(sent) + 1}
        /\ \A i \in DOMAIN sent : sent'[i] = sent[i]
    BY <2>1, <2>2, <2>3, <1>a
  <2>5. \A u \in Tasks : flight'[u].stage # "digest"
    BY <2>1, <1>a DEF Alone, FlushesAlone, Flying, Ended, Idle
  <2>6. AfterBatch'
    BY <2>5 DEF AfterBatch
  <2>7. \A i \in DOMAIN sent : i > 1 => i - 1 \in DOMAIN sent
    BY <1>a
  <2>8. ASSUME NEW i \in DOMAIN sent', sent'[i].topic = "digest"
        PROVE  /\ i > 1
               /\ sent'[i - 1].topic = "batch"
               /\ sent'[i - 1].run = sent'[i].run
               /\ sent'[i - 1].docs = sent'[i].docs
    <3>1. CASE i \in DOMAIN sent
      BY <3>1, <2>4, <2>7, <2>8, <1>a DEF DigestFollowsItsBatch
    <3>2. CASE i = Len(sent) + 1
      <4>1. i - 1 = Len(sent) /\ i - 1 \in DOMAIN sent /\ i > 1
        BY <3>2, <2>4, <1>a
      <4>2. sent'[i - 1] = BatchMessage(flight[t]) /\ sent'[i] = m
        BY <4>1, <3>2, <2>2, <2>4
      <4> QED
        BY <4>1, <4>2 DEF BatchMessage, DigestMessage
    <3> QED
      BY <3>1, <3>2, <2>4
  <2> QED
    BY <2>6, <2>8 DEF DigestFollowsItsBatch
<1>7. ASSUME NEW t \in Tasks, SendFails(t) \/ MessageTooLarge(t)
      PROVE  AfterBatch' /\ DigestFollowsItsBatch'
  <2>1. flight' = [flight EXCEPT ![t] = Ended(t)] /\ UNCHANGED sent
    BY <1>7 DEF SendFails, MessageTooLarge, Requeue
  <2> QED
    BY <2>1, <1>2, PairedQuiet
<1>8. CASE CancelWorker \/ Restart
  <2>1. \A u \in Tasks : flight'[u].stage = "digest" => flight'[u] = flight[u]
    BY <1>8, <1>a DEF CancelWorker, Restart, Idle
  <2> QED
    BY <1>8, <2>1, PairedQuiet DEF CancelWorker, Restart, RestartProducer
<1>9. CASE StopProducer \/ Tick \/ Broker \/ UNCHANGED vars
  <2>1. UNCHANGED <<sent, flight>>
    BY <1>9 DEF StopProducer, CloseProducer, Tick, Broker, Deliver, Lose
  <2> QED
    BY <2>1, PairedQuiet
<1> QED
  BY <1>3, <1>4, <1>5, <1>6, <1>7, <1>8, <1>9 DEF Next

(* Digests and batches go in pairs in every state.                         *)
LEMMA AlwaysPaired == Spec => []Paired
<1>1. Init => Paired
  BY PairedInit
<1>2. Paired /\ [Next]_vars => Paired'
  BY PairedStep
<1> QED
  BY <1>1, <1>2, PTL DEF Spec

(***************************************************************************)
(* The message before a digest is the batch of the same flush, whatever    *)
(* fails in between (publish_order.py).                                    *)
(***************************************************************************)
THEOREM DigestRightAfterBatch == Spec => []DigestFollowsItsBatch
<1>1. Paired => DigestFollowsItsBatch
  BY DEF Paired
<1> QED
  BY <1>1, AlwaysPaired, PTL

------------------------------------------------------------------------------
(***************************************************************************)
(* Where documents are: a flush takes and gives back all that is held.     *)
(***************************************************************************)
Safe == Paired /\ NothingVanishes /\ PublishedInOrder

\* What a send adds to the messages, and where.
LEMMA AppendedTo ==
    ASSUME NEW R, NEW s \in Seq(R), NEW m \in R
    PROVE  /\ DOMAIN Append(s, m) = DOMAIN s \cup {Len(s) + 1}
           /\ Append(s, m)[Len(s) + 1] = m
           /\ \A i \in DOMAIN s : Append(s, m)[i] = s[i] /\ i < Len(s) + 1
  OBVIOUS

\* Only one task holds documents, and not while the buffer does.
LEMMA HeldByFlight ==
  ASSUME Alone, NEW t \in Tasks, Flying(t)
  PROVE  Held = Range(flight[t].docs)
<1>1. \A u \in Tasks \ {t} : flight[u].docs = <<>>
  BY DEF Alone, FlightShape, FlushesAlone
<1>2. buffer = <<>>
  BY DEF Alone, FlushesAlone
<1>3. Range(<<>>) = {}
  BY DEF Range
<1> QED
  BY <1>1, <1>2, <1>3 DEF Held

(* When no task flies, what is held is what is buffered.                   *)
LEMMA HeldByBuffer ==
  ASSUME Alone, \A u \in Tasks : ~ Flying(u)
  PROVE  Held = Range(buffer)
<1>1. \A u \in Tasks : flight[u].docs = <<>>
  BY DEF Alone, FlightShape
<1>2. Range(<<>>) = {}
  BY DEF Range
<1> QED
  BY <1>1, <1>2 DEF Held

\* Nothing new is sent: the published documents stay the same.
LEMMA PublishedStays ==
  ASSUME TypeOK, UNCHANGED sent, Ids \subseteq Ids'
  PROVE  Published' = Published
<1>1. ASSUME NEW i \in DOMAIN sent PROVE Range(sent[i].docs) \subseteq Ids
  <2>1. sent[i] \in Messages
    BY DEF TypeOK
  <2>2. sent[i].docs \in Seq(Ids)
    BY <2>1 DEF Messages, Batches
  <2> QED
    BY <2>2 DEF Range
<1>2. Published = {n \in Ids' : \E i \in DOMAIN sent : /\ sent[i].topic = "batch"
                                                       /\ n \in Range(sent[i].docs)}
  BY <1>1 DEF Published
<1> QED
  BY <1>2 DEF Published

\* One more message: its documents are published when it is a batch.
LEMMA PublishedGrows ==
  ASSUME TypeOK, UNCHANGED handed, NEW m \in Messages, sent' = Append(sent, m)
  PROVE  Published' = Published \cup (IF m.topic = "batch" THEN Range(m.docs) ELSE {})
<1>1. Ids' = Ids
  BY DEF Ids
<1>2. /\ DOMAIN sent' = DOMAIN sent \cup {Len(sent) + 1}
      /\ sent'[Len(sent) + 1] = m
      /\ \A i \in DOMAIN sent : sent'[i] = sent[i]
  BY DEF TypeOK
<1>3. Range(m.docs) \subseteq Ids
  BY DEF Messages, Batches, Range
<1> QED
  BY <1>1, <1>2, <1>3 DEF Published

(***************************************************************************)
(* A step that publishes nothing, and moves what it takes out of Held to   *)
(* dropped, loses nothing and changes no order.                            *)
(***************************************************************************)
LEMMA QuietStep ==
  ASSUME Safe, UNCHANGED <<sent, handed>>, dropped \subseteq dropped',
         Held \subseteq Held' \cup dropped'
  PROVE  NothingVanishes' /\ PublishedInOrder'
<1>1. Ids' = Ids
  BY DEF Ids
<1>2. Published' = Published
  BY <1>1, PublishedStays DEF Safe, Paired, Alone
<1> QED
  BY <1>1, <1>2 DEF Safe, NothingVanishes, PublishedInOrder

(* No step drops a document that was handed over.                          *)
LEMMA SafeStep == Safe /\ [Next]_vars => Safe'
<1> SUFFICES ASSUME Safe, [Next]_vars PROVE NothingVanishes' /\ PublishedInOrder'
  BY PairedStep DEF Safe
<1> USE DEF vars, kafkaVars, publisherVars
<1>a. /\ Alone /\ Alone' /\ TypeOK /\ TypeOK' /\ Worker \in Tasks
      /\ NothingVanishes /\ PublishedInOrder /\ AfterBatch
  BY PairedStep DEF Safe, Paired, Alone, Tasks
<1>b. ASSUME NEW t \in Tasks, NEW docs, Drain(t, docs, handed'),
             \A u \in Tasks : ~ Flying(u)
      PROVE  Range(docs) \subseteq Held' \cup dropped' /\ dropped \subseteq dropped'
  <2>1. CASE Take(t, docs, handed')
    <3>1. flight'[t].docs = docs
      BY <2>1, <1>a DEF Take, TypeOK
    <3> QED
      BY <2>1, <3>1 DEF Take, Held
  <2>2. CASE PayloadFails(docs)
    BY <2>2 DEF PayloadFails
  <2> QED
    BY <1>b, <2>1, <2>2 DEF Drain
<1>1. ASSUME NEW d \in Documents, PublishOne(d)
      PROVE NothingVanishes' /\ PublishedInOrder'
  <2> DEFINE n == Len(handed) + 1
             docs == Append(buffer, n)
  <2>1. handed' = Append(handed, d) /\ handed \in Seq(Documents) /\ UNCHANGED sent
    BY <1>1, <1>a DEF PublishOne, TypeOK
  <2>2. Ids' = Ids \cup {n} /\ n \notin Ids
    BY <2>1, BatchesGrow
  <2>3. Published' = Published
    BY <2>1, <2>2, <1>a, PublishedStays
  <2>4. \A u \in Tasks : ~ Flying(u)
    BY <1>1, <1>a DEF PublishOne, Alone, ClosersWait, Tasks
  <2>5. Held = Range(buffer)
    BY <2>4, <1>a, HeldByBuffer
  <2>6. Range(docs) = Range(buffer) \cup {n}
    <3>1. buffer \in Seq(Nat) /\ n \in Nat
      BY <2>1, <1>a DEF TypeOK, Batches, Ids
    <3> QED
      BY <3>1, RangeOfAppend
  <2>7. Range(docs) \subseteq Held' \cup dropped' /\ dropped \subseteq dropped'
    <3>1. CASE buffer' = docs /\ UNCHANGED dropped
      BY <3>1 DEF Held
    <3>2. CASE Drain(Worker, docs, handed')
      BY <3>2, <2>4, <1>a, <1>b
    <3> QED
      BY <3>1, <3>2, <1>1 DEF PublishOne
  <2>8. NothingVanishes'
    BY <2>2, <2>3, <2>5, <2>6, <2>7, <1>a DEF NothingVanishes
  <2>9. PublishedInOrder'
    BY <2>3, <2>7, <1>a DEF PublishedInOrder
  <2> QED
    BY <2>8, <2>9
<1>2. CASE Flush \/ \E t \in Closers : Close(t)
  <2>1. UNCHANGED <<sent, handed>> /\ \A u \in Tasks : ~ Flying(u)
    BY <1>2, <1>a DEF Flush, Close, Alone, ClosersWait, FlushesAlone, Tasks
  <2>2. PICK t \in Tasks : Drain(t, buffer, handed')
    BY <1>2, <2>1 DEF Flush, Close, Tasks
  <2>3. Held = Range(buffer)
    BY <2>1, <1>a, HeldByBuffer
  <2> QED
    BY <2>1, <2>2, <2>3, <1>b, QuietStep
<1>3. ASSUME NEW t \in Tasks, SendBatch(t)
      PROVE NothingVanishes' /\ PublishedInOrder'
  <2> DEFINE docs == flight[t].docs
  <2>1. /\ Flying(t) /\ flight[t] \in Flights
        /\ sent' = Append(sent, BatchMessage(flight[t]))
        /\ flight' = [flight EXCEPT ![t].stage = "digest"]
        /\ UNCHANGED <<handed, buffer, dropped>>
    BY <1>3, <1>a DEF SendBatch, Send, TypeOK, Flying
  <2>2. Held = Range(docs)
    BY <2>1, <1>a, HeldByFlight
  <2>3. BatchMessage(flight[t]) \in Messages
    BY <2>1 DEF BatchMessage, Flights, Messages, Topics
  <2>4. Published' = Published \cup Range(docs)
    BY <2>1, <2>3, <1>a, PublishedGrows DEF BatchMessage
  <2>5. Ids \subseteq Published' \cup dropped'
    BY <2>1, <2>2, <2>4, <1>a DEF NothingVanishes
  <2>6. Ids' = Ids /\ Published' \subseteq Ids
    BY <2>1 DEF Ids, Published
  <2>7. \A k \in Ids : 1 .. k \subseteq Ids
    BY <1>a DEF Ids, TypeOK
  <2> QED
    BY <2>5, <2>6, <2>7 DEF NothingVanishes, PublishedInOrder
<1>4. ASSUME NEW t \in Tasks, SendDigest(t)
      PROVE NothingVanishes' /\ PublishedInOrder'
  <2> DEFINE docs == flight[t].docs
  <2>1. /\ Flying(t) /\ flight[t] \in Flights /\ flight[t].stage = "digest"
        /\ sent' = Append(sent, DigestMessage(flight[t]))
        /\ UNCHANGED <<handed, buffer, dropped>>
    BY <1>4, <1>a DEF SendDigest, Send, TypeOK, Flying
  <2>2. Held = Range(docs)
    BY <2>1, <1>a, HeldByFlight
  <2>3. Range(docs) \subseteq Published
    <3>1. sent # <<>> /\ sent[Len(sent)] = BatchMessage(flight[t])
      BY <2>1, <1>a DEF AfterBatch
    <3>2. Len(sent) \in DOMAIN sent
      BY <3>1, <1>a DEF TypeOK
    <3>3. Range(docs) \subseteq Ids
      BY <2>1 DEF Flights, Batches, Range
    <3> QED
      BY <3>1, <3>2, <3>3 DEF Published, BatchMessage
  <2>4. DigestMessage(flight[t]) \in Messages
    BY <2>1 DEF DigestMessage, Flights, Messages, Topics
  <2>5. Published' = Published /\ Ids' = Ids
    BY <2>1, <2>4, <1>a, PublishedGrows DEF DigestMessage, Ids
  <2> QED
    BY <2>1, <2>2, <2>3, <2>5, <1>a DEF NothingVanishes, PublishedInOrder
<1>5. ASSUME NEW t \in Tasks, SendFails(t) \/ MessageTooLarge(t)
      PROVE NothingVanishes' /\ PublishedInOrder'
  <2>1. Flying(t) /\ buffer' = flight[t].docs \o buffer
        /\ UNCHANGED <<sent, handed, dropped>>
    BY <1>5 DEF SendFails, MessageTooLarge, Flying, Requeue
  <2>2. buffer' = flight[t].docs
    <3>1. flight[t].docs \in Seq(Ids) /\ buffer = <<>>
      BY <2>1, <1>a DEF TypeOK, Flights, Batches, Alone, FlushesAlone
    <3> QED
      BY <2>1, <3>1, ConcatEmpty
  <2>3. Held = Range(flight[t].docs)
    BY <2>1, <1>a, HeldByFlight
  <2> QED
    BY <2>1, <2>2, <2>3, QuietStep DEF Held
<1>6. CASE CancelWorker
  <2>1. UNCHANGED <<sent, handed, buffer>>
        /\ dropped' = dropped \cup Range(flight[Worker].docs)
        /\ flight' = [flight EXCEPT ![Worker] = Idle]
    BY <1>6 DEF CancelWorker
  <2>2. \A u \in Tasks \ {Worker} : flight'[u] = flight[u]
    BY <2>1, <1>a DEF TypeOK
  <2>3. Held \subseteq Held' \cup dropped'
    BY <2>1, <2>2 DEF Held
  <2> QED
    BY <2>1, <2>3, QuietStep
<1>7. CASE Restart
  <2>1. UNCHANGED <<sent, handed>> /\ dropped' = dropped \cup Held
    BY <1>7 DEF Restart, RestartProducer
  <2> QED
    BY <2>1, QuietStep
<1>8. CASE StopProducer \/ Tick \/ Broker \/ UNCHANGED vars
  <2>1. UNCHANGED <<sent, handed, dropped, buffer, flight>>
    BY <1>8 DEF StopProducer, CloseProducer, Tick, Broker, Deliver, Lose
  <2>2. Held' = Held
    BY <2>1 DEF Held
  <2> QED
    BY <2>1, <2>2, QuietStep
<1> QED
  BY <1>1, <1>2, <1>3, <1>4, <1>5, <1>6, <1>7, <1>8 DEF Next

(* At the start nothing can have been dropped.                             *)
LEMMA SafeInit == Init => Safe
<1> SUFFICES ASSUME Init PROVE NothingVanishes /\ PublishedInOrder
  BY PairedInit DEF Safe
<1>1. Ids = {}
  BY DEF Ids, Init
<1> QED
  BY <1>1 DEF NothingVanishes, PublishedInOrder, Published

(* Documents are buffered, flying or sent in every state.                  *)
LEMMA AlwaysSafe == Spec => []Safe
<1>1. Init => Safe
  BY SafeInit
<1>2. Safe /\ [Next]_vars => Safe'
  BY SafeStep
<1> QED
  BY <1>1, <1>2, PTL DEF Spec

(***************************************************************************)
(* No document handed to publish_one is lost by a failed send, whatever    *)
(* the batch size and the order of failures (usecase.py: flush).           *)
(***************************************************************************)
THEOREM NoDocumentVanishes == Spec => []NothingVanishes
<1>1. Safe => NothingVanishes
  BY DEF Safe
<1> QED
  BY <1>1, AlwaysSafe, PTL

(***************************************************************************)
(* No document is published before an older one that is still waiting      *)
(* (usecase.py: `batch + self._buffer`).                                   *)
(***************************************************************************)
THEOREM NoOvertaking == Spec => []PublishedInOrder
<1>1. Safe => PublishedInOrder
  BY DEF Safe
<1> QED
  BY <1>1, AlwaysSafe, PTL

------------------------------------------------------------------------------
(***************************************************************************)
(* Once its digest is sent a document is neither in the buffer nor in a    *)
(* flush: what a failed flush puts back has no digest, and a new document  *)
(* is in no message.                                                       *)
(***************************************************************************)
Digests == {i \in DOMAIN sent : sent[i].topic = "digest"}
Digested == UNION {Range(sent[i].docs) : i \in Digests}

DigestedAreGone == Digested \cap Held = {}

Unrepeated == Paired /\ DigestedAreGone /\ NoReplayAfterDigest

\* Nothing is sent: only a document that is new, or was held, is held now.
LEMMA UnrepeatedQuiet ==
  ASSUME Unrepeated, UNCHANGED sent,
         \A n \in Held' : n \in Held \/ n \notin Ids
  PROVE  DigestedAreGone' /\ NoReplayAfterDigest'
<1>1. Digested' = Digested
  BY DEF Digested, Digests
<1>2. Digested \subseteq Ids
  <2>1. ASSUME NEW i \in DOMAIN sent PROVE Range(sent[i].docs) \subseteq Ids
    <3>1. sent[i] \in Messages
      BY DEF Unrepeated, Paired, Alone, TypeOK
    <3>2. sent[i].docs \in Seq(Ids)
      BY <3>1 DEF Messages, Batches
    <3> QED
      BY <3>2 DEF Range
  <2> QED
    BY <2>1 DEF Digested, Digests
<1>3. DigestedAreGone'
  BY <1>1, <1>2 DEF Unrepeated, DigestedAreGone
<1>4. NoReplayAfterDigest'
  BY DEF Unrepeated, NoReplayAfterDigest
<1> QED
  BY <1>3, <1>4

\* A drained buffer goes to the flush, or nowhere.
LEMMA DrainHolds ==
  ASSUME Alone, \A u \in Tasks : ~ Flying(u),
         NEW t \in Tasks, NEW docs, Drain(t, docs, handed')
  PROVE  Held' \subseteq Range(docs)
<1>1. flight \in [Tasks -> Flights] /\ \A u \in Tasks : flight[u].docs = <<>>
  BY DEF Alone, TypeOK, FlightShape
<1>2. Range(<<>>) = {}
  BY DEF Range
<1>3. buffer' = <<>>
  BY DEF Drain, Take, PayloadFails
<1>4. CASE Take(t, docs, handed')
  <2>1. \A u \in Tasks : flight'[u].docs = IF u = t THEN docs ELSE <<>>
    BY <1>1, <1>4 DEF Take
  <2> QED
    BY <1>2, <1>3, <2>1 DEF Held
<1>5. CASE PayloadFails(docs)
  BY <1>1, <1>2, <1>3, <1>5 DEF PayloadFails, Held
<1> QED
  BY <1>4, <1>5 DEF Drain

(* No step sends again what a digest has told of.                          *)
LEMMA UnrepeatedStep == Unrepeated /\ [Next]_vars => Unrepeated'
<1> SUFFICES ASSUME Unrepeated, [Next]_vars
             PROVE  DigestedAreGone' /\ NoReplayAfterDigest'
  BY PairedStep DEF Unrepeated
<1> USE DEF vars, kafkaVars, publisherVars
<1>a. /\ Alone /\ Alone' /\ TypeOK /\ TypeOK' /\ Worker \in Tasks
      /\ DigestedAreGone /\ NoReplayAfterDigest
  BY PairedStep DEF Unrepeated, Paired, Alone, Tasks
<1>b. Range(<<>>) = {}
  BY DEF Range
<1>1. ASSUME NEW d \in Documents, PublishOne(d)
      PROVE  DigestedAreGone' /\ NoReplayAfterDigest'
  <2> DEFINE n == Len(handed) + 1
             docs == Append(buffer, n)
  <2>1. handed' = Append(handed, d) /\ handed \in Seq(Documents) /\ UNCHANGED sent
    BY <1>1, <1>a DEF PublishOne, TypeOK
  <2>2. n \notin Ids
    BY <2>1, BatchesGrow
  <2>3. \A u \in Tasks : ~ Flying(u)
    BY <1>1, <1>a DEF PublishOne, Alone, ClosersWait, Tasks
  <2>4. Held = Range(buffer)
    BY <2>3, <1>a, HeldByBuffer
  <2>5. Range(docs) = Range(buffer) \cup {n}
    <3>1. buffer \in Seq(Nat) /\ n \in Nat
      BY <2>1, <1>a DEF TypeOK, Batches, Ids
    <3> QED
      BY <3>1, RangeOfAppend
  <2>6. Held' \subseteq Range(docs)
    <3>1. CASE buffer' = docs /\ UNCHANGED flight
      <4>1. \A u \in Tasks : flight'[u].docs = <<>>
        BY <3>1, <2>3, <1>a DEF Alone, FlightShape
      <4> QED
        BY <3>1, <4>1, <1>b DEF Held
    <3>2. CASE Drain(Worker, docs, handed')
      BY <3>2, <2>3, <1>a, DrainHolds
    <3> QED
      BY <3>1, <3>2, <1>1 DEF PublishOne
  <2>7. \A k \in Held' : k \in Held \/ k \notin Ids
    BY <2>2, <2>4, <2>5, <2>6
  <2> QED
    BY <2>1, <2>7, UnrepeatedQuiet
<1>2. CASE Flush \/ \E t \in Closers : Close(t)
  <2>1. UNCHANGED sent /\ \A u \in Tasks : ~ Flying(u)
    BY <1>2, <1>a DEF Flush, Close, Alone, ClosersWait, FlushesAlone, Tasks
  <2>2. PICK t \in Tasks : Drain(t, buffer, handed')
    BY <1>2, <2>1 DEF Flush, Close, Tasks
  <2>3. Held = Range(buffer) /\ Held' \subseteq Range(buffer)
    BY <2>1, <2>2, <1>a, HeldByBuffer, DrainHolds
  <2> QED
    BY <2>1, <2>3, UnrepeatedQuiet
<1>3. ASSUME NEW t \in Tasks, SendBatch(t)
      PROVE  DigestedAreGone' /\ NoReplayAfterDigest'
  <2> DEFINE m == BatchMessage(flight[t])
  <2>1. /\ Flying(t) /\ flight[t] \in Flights
        /\ sent' = Append(sent, m)
        /\ flight' = [flight EXCEPT ![t].stage = "digest"]
        /\ UNCHANGED buffer
    BY <1>3, <1>a DEF SendBatch, Send, TypeOK, Flying
  <2>2. m \in Messages /\ m.topic = "batch" /\ m.docs = flight[t].docs
    BY <2>1 DEF BatchMessage, Flights, Messages, Topics
  <2>3. /\ DOMAIN sent' = DOMAIN sent \cup {Len(sent) + 1}
        /\ sent'[Len(sent) + 1] = m
        /\ \A i \in DOMAIN sent : sent'[i] = sent[i] /\ i < Len(sent) + 1
    <3>1. sent \in Seq(Messages)
      BY <1>a DEF TypeOK
    <3> HIDE DEF m
    <3>2. QED BY ONLY <2>1, <2>2, <3>1, AppendedTo
  <2>4. Held = Range(m.docs)
    BY <2>1, <2>2, <1>a, HeldByFlight
  <2>5. \A u \in Tasks : flight'[u].docs = flight[u].docs
    BY <2>1, <1>a DEF TypeOK, Flights
  <2>6. Held' = Held
    BY <2>1, <2>5 DEF Held
  <2>7. Digests' = Digests
    BY <2>2, <2>3 DEF Digests
  <2>8. Digested' = Digested
    BY <2>3, <2>7 DEF Digested, Digests
  <2>9. NoReplayAfterDigest'
    <3> SUFFICES ASSUME NEW i \in DOMAIN sent', NEW j \in DOMAIN sent',
                        i < j, sent'[i].topic = "digest", sent'[j].topic = "batch"
                 PROVE  Range(sent'[i].docs) \cap Range(sent'[j].docs) = {}
      BY DEF NoReplayAfterDigest
    <3>1. i \in DOMAIN sent
      BY <2>2, <2>3
    <3>2. CASE j \in DOMAIN sent
      BY <3>1, <3>2, <2>3, <1>a DEF NoReplayAfterDigest
    <3>3. CASE j = Len(sent) + 1
      <4>1. Range(sent[i].docs) \subseteq Digested
        BY <3>1, <2>3 DEF Digested, Digests
      <4> QED
        BY <3>1, <3>3, <4>1, <2>3, <2>4, <1>a DEF DigestedAreGone
    <3> QED
      BY <3>2, <3>3, <2>3
  <2> QED
    BY <2>6, <2>8, <2>9, <1>a DEF DigestedAreGone
<1>4. ASSUME NEW t \in Tasks, SendDigest(t)
      PROVE  DigestedAreGone' /\ NoReplayAfterDigest'
  <2> DEFINE m == DigestMessage(flight[t])
  <2>1. /\ Flying(t) /\ flight[t] \in Flights
        /\ sent' = Append(sent, m)
        /\ flight' = [flight EXCEPT ![t] = Ended(t)]
        /\ UNCHANGED buffer
    BY <1>4, <1>a DEF SendDigest, Send, TypeOK, Flying
  <2>2. m \in Messages /\ m.topic = "digest"
    BY <2>1 DEF DigestMessage, Flights, Messages, Topics
  <2>3. /\ DOMAIN sent' = DOMAIN sent \cup {Len(sent) + 1}
        /\ sent'[Len(sent) + 1] = m
        /\ \A i \in DOMAIN sent : sent'[i] = sent[i] /\ i < Len(sent) + 1
    <3>1. sent \in Seq(Messages)
      BY <1>a DEF TypeOK
    <3> HIDE DEF m
    <3>2. QED BY ONLY <2>1, <2>2, <3>1, AppendedTo
  <2>4. Held' = {}
    <3>1. \A u \in Tasks : ~ Flying(u)'
      BY <2>1, <1>a DEF Alone, FlushesAlone, Flying, Ended, Idle, TypeOK
    <3>2. \A u \in Tasks : flight'[u].docs = <<>>
      BY <3>1, <1>a DEF Alone, FlightShape
    <3>3. buffer' = <<>>
      BY <2>1, <1>a DEF Alone, FlushesAlone
    <3> QED
      BY <3>2, <3>3, <1>b DEF Held
  <2>5. NoReplayAfterDigest'
    <3> SUFFICES ASSUME NEW i \in DOMAIN sent', NEW j \in DOMAIN sent',
                        i < j, sent'[i].topic = "digest", sent'[j].topic = "batch"
                 PROVE  Range(sent'[i].docs) \cap Range(sent'[j].docs) = {}
      BY DEF NoReplayAfterDigest
    <3>1. j \in DOMAIN sent
      BY <2>2, <2>3
    <3>2. i \in DOMAIN sent
      BY <3>1, <2>3, <1>a DEF TypeOK
    <3> QED
      BY <3>1, <3>2, <2>3, <1>a DEF NoReplayAfterDigest
  <2> QED
    BY <2>4, <2>5 DEF DigestedAreGone
<1>5. ASSUME NEW t \in Tasks, SendFails(t) \/ MessageTooLarge(t)
      PROVE  DigestedAreGone' /\ NoReplayAfterDigest'
  <2>1. /\ Flying(t) /\ buffer' = flight[t].docs \o buffer
        /\ flight' = [flight EXCEPT ![t] = Ended(t)] /\ UNCHANGED sent
    BY <1>5 DEF SendFails, MessageTooLarge, Flying, Requeue
  <2>2. buffer' = flight[t].docs
    <3>1. flight[t].docs \in Seq(Ids) /\ buffer = <<>>
      BY <2>1, <1>a DEF TypeOK, Flights, Batches, Alone, FlushesAlone
    <3> QED
      BY <2>1, <3>1, ConcatEmpty
  <2>3. \A u \in Tasks : ~ Flying(u)'
    BY <2>1, <1>a DEF Alone, FlushesAlone, Flying, Ended, Idle, TypeOK
  <2>4. \A u \in Tasks : flight'[u].docs = <<>>
    BY <2>3, <1>a DEF Alone, FlightShape
  <2>5. Held = Range(flight[t].docs)
    BY <2>1, <1>a, HeldByFlight
  <2>6. Held' = Held
    BY <2>2, <2>4, <2>5, <1>b DEF Held
  <2> QED
    BY <2>1, <2>6, UnrepeatedQuiet
<1>6. CASE CancelWorker \/ Restart
  <2>1. UNCHANGED sent
    BY <1>6 DEF CancelWorker, Restart, RestartProducer
  <2>2. Held' \subseteq Held
    <3>1. \A u \in Tasks : flight'[u].docs = flight[u].docs \/ flight'[u].docs = <<>>
      <4>1. Idle.docs = <<>>
        BY DEF Idle
      <4>2. flight' = [flight EXCEPT ![Worker] = Idle] \/ flight' = [t \in Tasks |-> Idle]
        BY <1>6 DEF CancelWorker, Restart
      <4>3. flight \in [Tasks -> Flights]
        BY <1>a DEF TypeOK
      <4>4. QED BY ONLY <4>1, <4>2, <4>3
    <3>2. buffer' = buffer \/ buffer' = <<>>
      BY <1>6 DEF CancelWorker, Restart
    <3>3. Range(buffer') \subseteq Range(buffer)
      BY <3>2, <1>b
    <3>4. \A u \in Tasks : Range(flight'[u].docs) \subseteq Range(flight[u].docs)
      BY <3>1, <1>b
    <3> QED
      BY <3>3, <3>4 DEF Held
  <2> QED
    BY <2>1, <2>2, UnrepeatedQuiet
<1>7. CASE StopProducer \/ Tick \/ Broker \/ UNCHANGED vars
  <2>1. UNCHANGED <<sent, buffer, flight>>
    BY <1>7 DEF StopProducer, CloseProducer, Tick, Broker, Deliver, Lose
  <2>2. Held' = Held
    BY <2>1 DEF Held
  <2> QED
    BY <2>1, <2>2, UnrepeatedQuiet
<1> QED
  BY <1>1, <1>2, <1>3, <1>4, <1>5, <1>6, <1>7 DEF Next

(***************************************************************************)
(* A document is not published again once the digest of its run was sent,  *)
(* whatever fails, is cancelled or restarts after it (publish_order.py).   *)
(***************************************************************************)
THEOREM NeverReplayed == Spec => []NoReplayAfterDigest
<1>1. Init => Unrepeated
  BY PairedInit DEF Init, KafkaInit, Unrepeated, DigestedAreGone, Digested, Digests,
     NoReplayAfterDigest
<1>2. Unrepeated /\ [Next]_vars => Unrepeated'
  BY UnrepeatedStep
<1>3. Unrepeated => NoReplayAfterDigest
  BY DEF Unrepeated
<1> QED
  BY <1>1, <1>2, <1>3, PTL DEF Spec

------------------------------------------------------------------------------
(***************************************************************************)
(* The server.                                                             *)
(***************************************************************************)
USE ServerAssumption

\* The task's own state; what the publisher's is follows from the refinement.
ServerTypes ==
    /\ at \in {"poll", "groups", "facts", "publish", "commit", "stopping", "stopped"}
    /\ position \in 1 .. LastRecord + 1
    /\ committed \in 1 .. position
    /\ todo \in SUBSET SUBSET Documents /\ facts \in SUBSET Documents
    /\ rows \in SUBSET Documents /\ unsaved \in SUBSET Documents
    /\ left \in SUBSET Documents
    /\ errors \in 0 .. MaxTrouble

(* The server's types hold at the start.                                   *)
LEMMA ServerTypesInit == ServerInit => ServerTypes
  BY DEF ServerInit, ServerTypes

\* Steps that leave the publisher alone.
Aside ==
    \/ FetchBatch \/ RunGroup \/ SkipFact \/ PersistFact \/ PersistFails
    \/ BatchHandled \/ Commit \/ CommitFails \/ StopCommit

(* Steps of the server that do not call the publisher leave it as it is.   *)
LEMMA AsideStutters == Aside => UNCHANGED vars
  BY DEF Aside, FetchBatch, RunGroup, SkipFact, PersistFact, PersistFails,
         BatchHandled, Commit, CommitFails, StopCommit

(* Each step of the server is one of the publisher's, or none.             *)
LEMMA ServerStepsPublisher ==
    ASSUME ServerTypes, [ServerNext]_allVars
    PROVE  [Next]_vars
  <1>1. CASE Aside
    BY <1>1, AsideStutters
  <1>2. CASE PublishFact
    <2>1. PICK r \in facts : PublishOne(r)
      BY <1>2 DEF PublishFact
    <2>2. r \in Documents
      BY DEF ServerTypes
    <2>3. QED BY <2>1, <2>2 DEF Next
  <1>3. CASE FlushGroup
    BY <1>3 DEF FlushGroup, Next
  <1>4. CASE Cancel \/ EndPolling
    BY <1>4 DEF Cancel, EndPolling, Next
  <1>5. CASE ClosePublisher \/ StopServer \/ RestartServer
    BY <1>5 DEF ClosePublisher, StopServer, RestartServer, Next
  <1>6. CASE Publishing
    BY <1>6 DEF Publishing, Next
  <1>7. CASE UNCHANGED allVars
    BY <1>7 DEF allVars
  <1>8. QED
    BY <1>1, <1>2, <1>3, <1>4, <1>5, <1>6, <1>7 DEF ServerNext, Aside

(* Groups by project hold each document once, of one project each.         *)
LEMMA GroupsOf ==
    ASSUME NEW S \in SUBSET Documents
    PROVE  /\ Groups(S) \in SUBSET SUBSET Documents
           /\ UNION Groups(S) = S
           /\ \A g \in Groups(S) : \A q, r \in g : ProjectOf[q] = ProjectOf[r]
  <1> DEFINE of(x) == {r \in S : ProjectOf[r] = x}
  <1>1. \A g : g \in Groups(S) <=> \E q \in S : g = of(ProjectOf[q])
    BY DEF Groups
  <1>2. \A q \in S : of(ProjectOf[q]) \in Groups(S) /\ q \in of(ProjectOf[q])
    BY <1>1
  <1>3. \A g \in Groups(S) : g \subseteq S
    BY <1>1
  <1>4. UNION Groups(S) = S
    BY <1>2, <1>3
  <1>5. \A g \in Groups(S) : \A q, r \in g : ProjectOf[q] = ProjectOf[r]
    BY <1>1
  <1>6. QED BY <1>3, <1>4, <1>5

(* Parts of a set joined are a part of it.                                 *)
LEMMA AllWithin ==
    ASSUME NEW D, NEW a \in SUBSET D, NEW t \in SUBSET SUBSET D, NEW f \in SUBSET D
    PROVE  a \cup ((UNION t) \cup f) \in SUBSET D
  OBVIOUS

(* Every step of the server keeps its types.                               *)
LEMMA ServerTypesStep ==
    ASSUME ServerTypes, faults \in Nat, [ServerNext]_allVars
    PROVE  ServerTypes'
  <1> USE DEF ServerTypes
  <1>1. CASE FetchBatch
    <2>1. PICK n \in 1 .. MaxPollRecords : \E parsed \in SUBSET (position .. position + n - 1) :
             /\ position + n <= LastRecord + 1
             /\ todo' = Groups(parsed)
             /\ left' = left \cup ((position .. position + n - 1) \ parsed)
             /\ position' = position + n
      BY <1>1 DEF FetchBatch
    <2>2. position .. position + n - 1 \subseteq Documents
      BY <2>1
    <2>3. position' \in 1 .. LastRecord + 1 /\ committed' \in 1 .. position'
      BY <1>1, <2>1 DEF FetchBatch
    <2>4. todo' \in SUBSET SUBSET Documents /\ left' \in SUBSET Documents
      BY <2>1, <2>2, GroupsOf
    <2>5. QED BY <1>1, <2>3, <2>4 DEF FetchBatch
  <1>2. CASE RunGroup
    BY <1>2 DEF RunGroup
  <1>3. CASE SkipFact
    BY <1>3 DEF SkipFact
  <1>4. CASE PersistFact
    BY <1>4 DEF PersistFact
  <1>5. CASE PersistFails
    BY <1>5 DEF PersistFails, Error
  <1>6. CASE PublishFact
    BY <1>6 DEF PublishFact
  <1>7. CASE FlushGroup
    BY <1>7 DEF FlushGroup
  <1>8. CASE BatchHandled \/ Commit \/ StopCommit
    <2>1. position' = position /\ committed' \in {committed, position} /\ at' \in {"commit", "poll", "stopped"}
      BY <1>8 DEF BatchHandled, Commit, StopCommit
    <2>2. UNCHANGED <<todo, facts, rows, unsaved, left, errors>>
      BY <1>8 DEF BatchHandled, Commit, StopCommit
    <2>3. QED BY <2>1, <2>2
  <1>9. CASE CommitFails
    BY <1>9 DEF CommitFails, Error
  <1>10. CASE Cancel
    <2>1. left' \in SUBSET Documents
      <3>1. left' = left \cup ((UNION todo) \cup facts)
        BY <1>10 DEF Cancel, CutOff
      <3>2. QED BY <3>1, AllWithin
    <2>2. rows' \in SUBSET Documents
      <3>1. CASE UNCHANGED rows
        BY <3>1
      <3>2. CASE \E r \in facts : rows' = rows \cup {r}
        <4>1. PICK r \in facts : rows' = rows \cup {r}
          BY <3>2
        <4>2. r \in Documents
          OBVIOUS
        <4>3. QED BY <4>1, <4>2
      <3>3. QED BY <1>10, <3>1, <3>2 DEF Cancel
    <2>3. todo' = {} /\ facts' = {} /\ at' = "stopping" /\ UNCHANGED <<position, committed, unsaved, errors>>
      BY <1>10 DEF Cancel
    <2>4. QED BY <2>1, <2>2, <2>3
  <1>11. CASE EndPolling
    BY <1>11 DEF EndPolling
  <1>12. CASE ClosePublisher \/ StopServer \/ Publishing
    BY <1>12 DEF ClosePublisher, StopServer, Publishing, serverVars
  <1>13. CASE RestartServer
    BY <1>13 DEF RestartServer
  <1>14. CASE UNCHANGED allVars
    BY <1>14 DEF allVars, serverVars
  <1>15. QED
    BY <1>1, <1>2, <1>3, <1>4, <1>5, <1>6, <1>7, <1>8, <1>9, <1>10, <1>11, <1>12, <1>13, <1>14
       DEF ServerNext

(* The server's types, and that one task works at a time, hold in every state. *)
LEMMA ServerInvariant == ServerSpec => [](ServerTypes /\ Alone)
  <1>1. ServerInit => ServerTypes /\ Alone
    BY ServerTypesInit, AloneInit DEF ServerInit
  <1>2. ServerTypes /\ Alone /\ [ServerNext]_allVars => (ServerTypes /\ Alone)'
    BY ServerTypesStep, ServerStepsPublisher, AloneStep DEF Alone, TypeOK
  <1>3. QED BY <1>1, <1>2, PTL DEF ServerSpec

(***************************************************************************)
(* The consumer task's and the publisher's variables keep their types.     *)
(***************************************************************************)
THEOREM ServerTypeCorrect == ServerSpec => []ServerTypeOK
  <1>1. ServerTypes /\ Alone => ServerTypeOK
    BY DEF ServerTypes, Alone, ServerTypeOK
  <1>2. QED BY ServerInvariant, <1>1, PTL

(* The server's steps are written with those of the publisher, so what is  *)
(* proved of the publisher by itself can be used here.                     *)
LEMMA ServerRunsPublisher == ServerSpec => Spec
  <1>1. ServerInit => Init
    BY DEF ServerInit
  <1>2. ServerTypes /\ Alone /\ [ServerNext]_allVars => [Next]_vars
    BY ServerStepsPublisher
  <1>3. QED BY ServerInvariant, <1>1, <1>2, PTL DEF ServerSpec, Spec

(***************************************************************************)
(* What the publisher promises its callers holds in the server: its        *)
(* flushes never overlap, no document vanishes, overtakes or is replayed.  *)
(***************************************************************************)
THEOREM ServerKeepsPromises ==
    ServerSpec => [](/\ FlushesAlone /\ NothingVanishes /\ PublishedInOrder
                     /\ DigestFollowsItsBatch /\ NoReplayAfterDigest)
  BY ServerRunsPublisher, FlushesNeverOverlap, NoDocumentVanishes, NoOvertaking,
     DigestRightAfterBatch, NeverReplayed, PTL

------------------------------------------------------------------------------
\* Where the task is tells what it still has in hand.
Calm == /\ at \in {"poll", "commit", "stopping", "stopped"} => todo = {}
        /\ at \notin {"facts", "publish"} => facts = {}

Accounted == left \cup RecordsOf(Ids)

\* Offsets are committed once the batch is accounted for.
CommittedAccounted == 1 .. committed - 1 \subseteq Accounted

Skipless == Calm /\ NoRecordSkipped /\ CommittedAccounted

(* A document handed over adds its record to those handed over.            *)
LEMMA RecordsGrow ==
    ASSUME Alone, NEW r \in Documents, handed' = Append(handed, r)
    PROVE  RecordsOf(Ids)' = RecordsOf(Ids) \cup {r}
  <1>1. handed \in Seq(Documents) /\ Len(handed) \in Nat
    BY DEF Alone, TypeOK
  <1>2. /\ Ids' = Ids \cup {Len(handed) + 1}
        /\ \A n \in Ids : handed'[n] = handed[n]
        /\ handed'[Len(handed) + 1] = r
    BY <1>1 DEF Ids
  <1>3. QED BY <1>2 DEF RecordsOf

(* Without a document handed over, the records are the same.               *)
LEMMA RecordsStay == UNCHANGED handed => UNCHANGED RecordsOf(Ids)
  BY DEF RecordsOf, Ids

(* Every step but publish_one leaves what was handed over as it is.        *)
LEMMA HandedStays ==
    ASSUME [ServerNext]_allVars, ~ PublishFact
    PROVE  UNCHANGED handed
  <1>1. CASE Aside
    BY <1>1, AsideStutters DEF vars, publisherVars
  <1>2. CASE FlushGroup
    BY <1>2 DEF FlushGroup, Flush, vars, publisherVars
  <1>3. CASE Cancel \/ EndPolling
    BY <1>3 DEF Cancel, EndPolling, CancelWorker
  <1>4. CASE ClosePublisher \/ StopServer \/ RestartServer
    BY <1>4 DEF ClosePublisher, StopServer, RestartServer, Close, StopProducer, Restart,
                publisherVars
  <1>5. CASE Publishing
    BY <1>5 DEF Publishing, SendBatch, SendDigest, SendFails, MessageTooLarge, Tick, Broker,
                publisherVars
  <1>6. CASE UNCHANGED allVars
    BY <1>6 DEF allVars, vars, publisherVars
  <1>7. QED
    BY <1>1, <1>2, <1>3, <1>4, <1>5, <1>6 DEF ServerNext, Aside

(* At the start no record was skipped.                                     *)
LEMMA SkiplessInit == ServerInit => Skipless
  BY DEF ServerInit, Init, Skipless, Calm, NoRecordSkipped, CommittedAccounted

(* A calm step of the server skips no record.                              *)
LEMMA SkiplessStep ==
    ASSUME ServerTypes, Alone, Skipless, [ServerNext]_allVars
    PROVE  Skipless'
  <1> DEFINE known == RecordsOf(Ids)
  <1> USE DEF Skipless, Calm, NoRecordSkipped, CommittedAccounted, Accounted
  <1>0. position \in Nat /\ committed \in Nat
    BY DEF ServerTypes
  <1>1. CASE FetchBatch
    <2>1. todo = {} /\ facts = {} /\ at' = "groups" /\ facts' = {} /\ committed' = committed
          /\ UNCHANGED known
      BY <1>1, AsideStutters, RecordsStay DEF FetchBatch, Running, Aside, vars, publisherVars
    <2>2. PICK n \in 1 .. MaxPollRecords : \E parsed \in SUBSET (position .. position + n - 1) :
             /\ position + n <= LastRecord + 1
             /\ todo' = Groups(parsed)
             /\ left' = left \cup ((position .. position + n - 1) \ parsed)
             /\ position' = position + n
      BY <1>1 DEF FetchBatch
    <2>3. position .. position + n - 1 \subseteq Documents
      BY <2>2 DEF ServerTypes
    <2>4. position .. position + n - 1 \subseteq left' \cup UNION todo'
      BY <2>2, <2>3, GroupsOf
    <2>5. 1 .. position' - 1 = (1 .. position - 1) \cup (position .. position + n - 1)
      BY <2>2 DEF ServerTypes
    <2>6. left \subseteq left'
      BY <2>2
    <2> HIDE DEF known
    <2>7. QED BY <2>1, <2>4, <2>5, <2>6 DEF known
  <1>2. CASE RunGroup
    <2>1. facts = {} /\ UNCHANGED <<known, position, committed>>
      BY <1>2, AsideStutters, RecordsStay DEF RunGroup, Running, Aside, vars, publisherVars
    <2>2. PICK group \in todo : \E kept \in SUBSET group :
             /\ todo' = todo \ {group} /\ facts' = kept
             /\ left' = left \cup (group \ kept)
             /\ at' = IF kept = {} THEN "groups" ELSE "facts"
      BY <1>2 DEF RunGroup
    <2>3. left \subseteq left' /\ (UNION todo) \subseteq left' \cup facts' \cup UNION todo'
      BY <2>2
    <2>4. Calm'
      BY <2>2
    <2> HIDE DEF known
    <2>5. QED BY <2>1, <2>3, <2>4 DEF known
  <1>3. CASE SkipFact
    <2>1. UNCHANGED <<known, position, committed, todo, at>> /\ at = "facts"
      BY <1>3, AsideStutters, RecordsStay DEF SkipFact, Running, Aside, vars, publisherVars
    <2>2. left \subseteq left' /\ facts \subseteq left' \cup facts'
      BY <1>3 DEF SkipFact
    <2> HIDE DEF known
    <2>3. QED BY <2>1, <2>2 DEF known
  <1>4. CASE PersistFact \/ PersistFails
    <2>1. UNCHANGED <<known, position, committed, todo, facts, left>> /\ at' = "publish"
      BY <1>4, AsideStutters, RecordsStay
         DEF PersistFact, PersistFails, Running, Aside, vars, publisherVars
    <2> HIDE DEF known
    <2>2. QED BY <2>1 DEF known
  <1>5. CASE PublishFact
    <2>1. PICK r \in facts : PublishOne(r) /\ facts' = facts \ {r}
      BY <1>5 DEF PublishFact
    <2>2. known' = known \cup {r}
      BY <2>1, RecordsGrow DEF PublishOne, ServerTypes
    <2>3. UNCHANGED <<position, committed, todo, left>> /\ at' = "facts"
      BY <1>5 DEF PublishFact
    <2> HIDE DEF known
    <2>4. QED BY <2>1, <2>2, <2>3 DEF known
  <1>6. CASE FlushGroup
    <2>1. UNCHANGED <<known, position, committed, todo, facts, left>> /\ facts = {} /\ at' = "groups"
      BY <1>6, RecordsStay DEF FlushGroup, Flush, vars, publisherVars
    <2> HIDE DEF known
    <2>2. QED BY <2>1 DEF known
  <1>7. CASE BatchHandled
    <2>1. UNCHANGED <<known, position, committed, todo, facts, left>>
          /\ todo = {} /\ facts = {} /\ at' = "commit"
      BY <1>7, AsideStutters, RecordsStay
         DEF BatchHandled, Running, Aside, vars, publisherVars
    <2> HIDE DEF known
    <2>2. QED BY <2>1 DEF known
  <1>8. CASE Commit \/ CommitFails \/ StopCommit
    <2>1. UNCHANGED <<known, position, todo, facts, left>>
          /\ todo = {} /\ facts = {} /\ at' \in {"poll", "stopped"}
          /\ committed' \in {committed, position}
      BY <1>8, AsideStutters, RecordsStay
         DEF Commit, CommitFails, StopCommit, Running, Aside, vars, publisherVars
    <2>2. UNION todo = {}
      BY <2>1
    <2> HIDE DEF known
    <2>3. QED BY <2>1, <2>2 DEF known
  <1>9. CASE Cancel
    <2>1. UNCHANGED <<known, position, committed>> /\ todo' = {} /\ facts' = {}
          /\ at' = "stopping" /\ left' = left \cup ((UNION todo) \cup facts)
      BY <1>9, RecordsStay DEF Cancel, CancelWorker, CutOff
    <2>2. left \cup (UNION todo) \cup facts \subseteq left'
      BY <2>1
    <2> HIDE DEF known
    <2>3. Calm' /\ CommittedAccounted'
      BY <2>1, <2>2 DEF known
    <2>4. NoRecordSkipped'
      BY <2>1, <2>2 DEF known
    <2>5. QED BY <2>3, <2>4
  <1>10. CASE EndPolling
    <2>1. UNCHANGED <<known, position, committed, todo, facts, left>>
          /\ todo = {} /\ facts = {} /\ at' = "stopped"
      BY <1>10, RecordsStay DEF EndPolling, CancelWorker
    <2> HIDE DEF known
    <2>2. QED BY <2>1 DEF known
  <1>11. CASE RestartServer
    <2>1. UNCHANGED <<known, committed, left>> /\ position' = committed
          /\ todo' = {} /\ facts' = {} /\ at' = "poll"
      BY <1>11, RecordsStay DEF RestartServer, Restart
    <2> HIDE DEF known
    <2>2. QED BY <2>1 DEF known
  <1>12. CASE ClosePublisher \/ StopServer \/ Publishing \/ UNCHANGED allVars
    <2>1. UNCHANGED serverVars
      BY <1>12 DEF ClosePublisher, StopServer, Publishing, allVars
    <2>2. ~ PublishFact \/ UNCHANGED handed
      BY <1>12 DEF ClosePublisher, StopServer, Publishing, PublishFact, Close, StopProducer,
                   SendBatch, SendDigest, SendFails, MessageTooLarge, Tick, Broker,
                   allVars, vars, publisherVars
    <2>3. UNCHANGED known
      BY <2>2, HandedStays, RecordsStay
    <2> HIDE DEF known
    <2>4. QED BY <2>1, <2>3 DEF known, serverVars
  <1>13. QED
    BY <1>1, <1>2, <1>3, <1>4, <1>5, <1>6, <1>7, <1>8, <1>9, <1>10, <1>11, <1>12
       DEF ServerNext

(***************************************************************************)
(* Every record behind the position is in the running batch, was left out  *)
(* or cut off, or was handed to the publisher; after a restart too, since  *)
(* what is committed is accounted for.  [kafka/consumer.py:205]            *)
(***************************************************************************)
THEOREM NoRecordIsSkipped == ServerSpec => []NoRecordSkipped
  <1>1. ServerTypes /\ Alone /\ Skipless /\ [ServerNext]_allVars => Skipless'
    BY SkiplessStep
  <1>2. Skipless => NoRecordSkipped
    BY DEF Skipless
  <1>3. QED BY ServerInvariant, SkiplessInit, <1>1, <1>2, PTL DEF ServerSpec

------------------------------------------------------------------------------
Single(S) == \A q, r \in S : ProjectOf[q] = ProjectOf[r]

\* Groups are of one project, and so is what is left of one.
Grouped == (\A g \in todo : Single(g)) /\ Single(facts)

\* The buffer holds documents of the running group, and none between groups.
BufferOwn ==
    /\ at \notin {"facts", "publish"} => buffer = <<>>
    /\ Len(buffer) < BatchSize
    /\ Single(facts \cup RecordsOf(Range(buffer)))

\* Flushes go out under the project of all their documents.
FlightsOwn ==
    \A t \in Tasks : Flying(t) =>
        /\ Len(flight[t].docs) <= BatchSize
        /\ \A n \in Range(flight[t].docs) : ProjectOf[handed[n]] = flight[t].project

MessagesOwn ==
    \A i \in DOMAIN sent : \A n \in Range(sent[i].docs) :
        ProjectOf[handed[n]] = sent[i].project

Own == Grouped /\ (faults = 0 => working /\ open /\ BufferOwn /\ FlightsOwn /\ MessagesOwn)

(* At the start every buffered document is of the project it is sent under.*)
LEMMA OwnInit == ServerInit => Own
  <1> SUFFICES ASSUME ServerInit PROVE Own
    OBVIOUS
  <1>1. /\ buffer = <<>> /\ todo = {} /\ facts = {} /\ sent = <<>> /\ working /\ open
        /\ \A t \in Tasks : ~ Flying(t)
    BY DEF ServerInit, Init, KafkaInit, Flying, Idle
  <1>2. RecordsOf(Range(buffer)) = {} /\ Len(buffer) = 0
    BY <1>1 DEF RecordsOf, Range
  <1>3. BufferOwn
    <2>1. 0 < BatchSize
      BY PublisherAssumption
    <2>2. facts \cup RecordsOf(Range(buffer)) = {}
      BY <1>1, <1>2
    <2>3. QED BY <1>1, <1>2, <2>1, <2>2 DEF BufferOwn, Single
  <1>4. Grouped /\ FlightsOwn /\ MessagesOwn
    BY <1>1 DEF Grouped, Single, FlightsOwn, MessagesOwn
  <1>5. QED
    BY <1>1, <1>3, <1>4 DEF Own

\* An empty buffer leaves the rest of the group alone.
LEMMA EmptyBufferOwn ==
    ASSUME buffer' = <<>>, Single(facts')
    PROVE  BufferOwn'
  <1>1. Len(buffer') = 0 /\ 0 < BatchSize /\ {handed'[n] : n \in Range(buffer')} = {}
    BY PublisherAssumption DEF Range
  <1>2. Len(buffer') < BatchSize
    BY <1>1
  <1>3. facts' \cup {handed'[n] : n \in Range(buffer')} = facts'
    BY <1>1
  <1>4. QED BY <1>2, <1>3 DEF BufferOwn, RecordsOf

(* What is at work at a time is of one group, whatever the step.           *)
LEMMA GroupedStep ==
    ASSUME ServerTypes, Own, [ServerNext]_allVars
    PROVE  Grouped'
  <1> USE DEF Own, Grouped, Single
  <1>1. CASE FetchBatch
    <2>1. PICK n \in 1 .. MaxPollRecords : \E parsed \in SUBSET (position .. position + n - 1) :
             position + n <= LastRecord + 1 /\ todo' = Groups(parsed)
      BY <1>1 DEF FetchBatch
    <2>2. position .. position + n - 1 \subseteq Documents
      BY <2>1 DEF ServerTypes
    <2>3. \A g \in todo' : \A q, r \in g : ProjectOf[q] = ProjectOf[r]
      BY <2>1, <2>2, GroupsOf
    <2>4. QED BY <1>1, <2>3 DEF FetchBatch
  <1>2. CASE RunGroup
    BY <1>2 DEF RunGroup
  <1>3. CASE SkipFact \/ PublishFact
    BY <1>3 DEF SkipFact, PublishFact
  <1>4. CASE PersistFact \/ PersistFails \/ FlushGroup \/ BatchHandled \/ Commit \/ CommitFails
    BY <1>4 DEF PersistFact, PersistFails, FlushGroup, BatchHandled, Commit, CommitFails
  <1>5. CASE Cancel \/ RestartServer
    BY <1>5 DEF Cancel, RestartServer
  <1>6. CASE EndPolling \/ StopCommit
    BY <1>6 DEF EndPolling, StopCommit
  <1>7. CASE ClosePublisher \/ StopServer \/ Publishing \/ UNCHANGED allVars
    BY <1>7 DEF ClosePublisher, StopServer, Publishing, allVars, serverVars
  <1>8. QED
    BY <1>1, <1>2, <1>3, <1>4, <1>5, <1>6, <1>7 DEF ServerNext

(* A step of the publisher after which nothing has failed.                 *)
LEMMA StillWell ==
    ASSUME TypeOK, [Next]_vars, faults' = 0, faults = 0 => working /\ open
    PROVE  faults = 0 /\ working /\ open /\ working' /\ open'
  <1> USE DEF vars, kafkaVars, publisherVars, Fault
  <1>0. faults \in Nat
    BY DEF TypeOK
  <1>1. ASSUME NEW t, NEW docs, NEW h, Drain(t, docs, h) PROVE UNCHANGED faults
    BY <1>0, <1>1 DEF Drain, Take, PayloadFails
  <1>2. CASE \E d \in Documents : PublishOne(d)
    BY <1>1, <1>2 DEF PublishOne
  <1>3. CASE Flush \/ \E t \in Closers : Close(t)
    BY <1>1, <1>3 DEF Flush, Close
  <1>4. CASE \E t \in Tasks : SendBatch(t) \/ SendDigest(t) \/ MessageTooLarge(t)
    BY <1>4 DEF SendBatch, SendDigest, MessageTooLarge, Send
  <1>5. CASE \E t \in Tasks : SendFails(t)
    BY <1>0, <1>5 DEF SendFails
  <1>6. CASE CancelWorker
    BY <1>0, <1>6 DEF CancelWorker
  <1>7. CASE StopProducer
    BY <1>7 DEF StopProducer
  <1>8. CASE Restart
    BY <1>0, <1>8 DEF Restart
  <1>9. CASE Tick \/ Broker \/ UNCHANGED vars
    BY <1>9 DEF Tick, Broker, Deliver, Lose
  <1>10. QED
    BY <1>2, <1>3, <1>4, <1>5, <1>6, <1>7, <1>8, <1>9 DEF Next

(* The drained buffer is of one project and goes out under it.             *)
LEMMA TakesOwn ==
    ASSUME FlightsOwn, flight \in [Tasks -> Flights], faults \in Nat, NEW docs,
           Drain(Worker, docs, handed'), UNCHANGED faults,
           Len(docs) <= BatchSize, 1 \in DOMAIN docs,
           Single({handed'[n] : n \in Range(docs)}),
           \A t \in Tasks : Flying(t) =>
               \A n \in Range(flight[t].docs) : handed'[n] = handed[n]
    PROVE  FlightsOwn' /\ buffer' = <<>>
  <1> DEFINE f == [stage |-> "batch", docs |-> docs,
                   project |-> ProjectOf[handed'[docs[1]]], run |-> now]
  <1>1. Take(Worker, docs, handed') /\ Worker \in Tasks
    BY DEF Drain, PayloadFails, Fault, Tasks
  <1>2. flight' = [flight EXCEPT ![Worker] = f] /\ buffer' = <<>>
    BY <1>1 DEF Take
  <1>3. \A n \in Range(docs) : ProjectOf[handed'[n]] = f.project
    <2>1. docs[1] \in Range(docs)
      BY DEF Range
    <2>2. QED BY <2>1 DEF Single
  <1>4. ASSUME NEW t \in Tasks, Flying(t)'
        PROVE  /\ Len(flight'[t].docs) <= BatchSize
               /\ \A n \in Range(flight'[t].docs) : ProjectOf[handed'[n]] = flight'[t].project
    <2>1. CASE t = Worker
      <3>1. flight'[t] = f
        BY <1>1, <1>2, <2>1
      <3> HIDE DEF f
      <3>2. f.docs = docs
        BY DEF f
      <3>3. QED BY <1>3, <3>1, <3>2
    <2>2. CASE t # Worker
      <3>1. flight'[t] = flight[t] /\ Flying(t)
        BY <1>2, <1>4, <2>2 DEF Flying
      <3>2. QED BY <3>1 DEF FlightsOwn
    <2>3. QED BY <2>1, <2>2
  <1>5. QED BY <1>2, <1>4 DEF FlightsOwn

\* What was handed over before keeps its place.
LEMMA PlacesStay ==
    ASSUME TypeOK, [Next]_vars, NEW n \in Ids
    PROVE  handed'[n] = handed[n]
  <1>1. UNCHANGED handed \/ \E d \in Documents : handed' = Append(handed, d)
    BY DEF Next, PublishOne, Flush, Close, SendBatch, SendDigest, SendFails, MessageTooLarge,
           CancelWorker, StopProducer, Restart, Tick, Broker, vars, publisherVars
  <1>2. handed \in Seq(Documents) /\ n \in 1 .. Len(handed)
    BY DEF TypeOK, Ids
  <1>3. QED BY <1>1, <1>2

(* Whatever the publisher holds or sent was handed over to it.             *)
LEMMA DocsAreIds ==
    ASSUME TypeOK
    PROVE  /\ Range(buffer) \subseteq Ids
           /\ \A t \in Tasks : Range(flight[t].docs) \subseteq Ids
           /\ \A i \in DOMAIN sent : Range(sent[i].docs) \subseteq Ids
  <1>1. \A s \in Batches : Range(s) \subseteq Ids
    BY DEF Batches, Range
  <1>2. /\ \A t \in Tasks : flight[t] \in Flights
        /\ \A i \in DOMAIN sent : sent[i] \in Messages
        /\ buffer \in Batches
    BY DEF TypeOK
  <1>3. QED BY <1>1, <1>2 DEF Flights, Messages

(* A send goes out under the project of its flush.                         *)
LEMMA SendsOwn ==
    ASSUME TypeOK, FlightsOwn, MessagesOwn, NEW t \in Tasks, SendBatch(t) \/ SendDigest(t)
    PROVE  FlightsOwn' /\ MessagesOwn'
  <1>1. flight \in [Tasks -> Flights] /\ sent \in Seq(Messages) /\ UNCHANGED handed
    BY DEF TypeOK, SendBatch, SendDigest
  <1>2. PICK m : /\ sent' = Append(sent, m)
                 /\ m.docs = flight[t].docs /\ m.project = flight[t].project
    BY DEF SendBatch, SendDigest, Send, BatchMessage, DigestMessage
  <1>3. Flying(t)
    BY DEF SendBatch, SendDigest, Flying
  <1>4. MessagesOwn'
    <2>1. /\ DOMAIN sent' = DOMAIN sent \cup {Len(sent) + 1}
          /\ \A i \in DOMAIN sent : sent'[i] = sent[i]
          /\ sent'[Len(sent) + 1] = m
      BY <1>1, <1>2
    <2>2. \A n \in Range(m.docs) : ProjectOf[handed[n]] = m.project
      BY <1>2, <1>3 DEF FlightsOwn
    <2>3. QED BY <1>1, <2>1, <2>2 DEF MessagesOwn
  <1>5. FlightsOwn'
    <2>1. \A u \in Tasks : Flying(u)' =>
             /\ Flying(u) /\ flight'[u].docs = flight[u].docs
             /\ flight'[u].project = flight[u].project
      <3>1. CASE SendBatch(t)
        <4>1. flight' = [flight EXCEPT ![t].stage = "digest"]
          BY <3>1 DEF SendBatch
        <4>2. QED BY <1>1, <1>3, <4>1 DEF Flying, Flights
      <3>2. CASE SendDigest(t)
        <4>1. flight' = [flight EXCEPT ![t] = Ended(t)]
          BY <3>2 DEF SendDigest
        <4>2. QED BY <1>1, <4>1 DEF Flying, Ended, Idle
      <3>3. QED BY <3>1, <3>2
    <2>2. QED BY <1>1, <2>1 DEF FlightsOwn
  <1>6. QED BY <1>4, <1>5

(* As long as the documents stay, a step that sends nothing and starts no  *)
(* flush keeps what is under way.                                          *)
LEMMA QuietOwn ==
    ASSUME TypeOK, [Next]_vars, FlightsOwn, MessagesOwn, UNCHANGED sent
    PROVE  MessagesOwn' /\ (UNCHANGED flight => FlightsOwn')
  <1>1. MessagesOwn'
    BY DocsAreIds, PlacesStay DEF MessagesOwn
  <1>2. UNCHANGED flight => FlightsOwn'
    BY DocsAreIds, PlacesStay DEF FlightsOwn, Flying
  <1>3. QED BY <1>1, <1>2

(* Every step keeps documents with their project.                          *)
LEMMA OwnStep ==
    ASSUME BatchSize <= MaxMessage, ServerTypes, Alone, Own, [ServerNext]_allVars
    PROVE  Own'
  <1> SUFFICES ASSUME faults' = 0 PROVE working' /\ open' /\ BufferOwn' /\ FlightsOwn' /\ MessagesOwn'
    BY GroupedStep DEF Own
  <1>1. TypeOK /\ [Next]_vars /\ faults \in Nat /\ flight \in [Tasks -> Flights]
    BY ServerStepsPublisher DEF Alone, TypeOK
  <1>2. faults = 0 /\ working /\ open /\ working' /\ open'
    BY <1>1, StillWell DEF Own
  <1>3. BufferOwn /\ FlightsOwn /\ MessagesOwn /\ Grouped
    BY <1>2 DEF Own
  <1>4. \A t \in Tasks : \A n \in Range(flight[t].docs) : handed'[n] = handed[n]
    BY <1>1, DocsAreIds, PlacesStay
  <1>5. buffer \in Seq(Ids) /\ Len(buffer) \in Nat
    BY <1>1 DEF TypeOK, Batches
  <1>6. CASE Aside
    <2>1. UNCHANGED <<handed, buffer, flight, sent>>
      BY <1>6, AsideStutters DEF vars, kafkaVars, publisherVars
    <2>2. UNCHANGED RecordsOf(Range(buffer))
      BY <2>1 DEF RecordsOf
    <2>3. \/ UNCHANGED facts
          \/ facts' \subseteq facts /\ at = "facts" /\ at' = "facts"
          \/ Single(facts') /\ at = "groups"
      BY <1>3, <1>6 DEF Aside, FetchBatch, RunGroup, SkipFact, PersistFact, PersistFails,
                BatchHandled, Commit, CommitFails, StopCommit, Running, Grouped, Single
    <2>4. at' \notin {"facts", "publish"} => at \notin {"facts", "publish"}
      BY <1>6 DEF Aside, FetchBatch, RunGroup, SkipFact, PersistFact, PersistFails,
                  BatchHandled, Commit, CommitFails, StopCommit, Running
    <2>5. at = "groups" => RecordsOf(Range(buffer)) = {}
      BY <1>3 DEF BufferOwn, RecordsOf, Range
    <2>6. Single((facts \cup RecordsOf(Range(buffer)))')
      BY <1>3, <2>2, <2>3, <2>5 DEF BufferOwn, Single
    <2>7. BufferOwn'
      BY <1>3, <2>1, <2>4, <2>6 DEF BufferOwn
    <2>8. QED BY <1>1, <1>2, <1>3, <2>1, <2>7, QuietOwn
  <1>7. CASE PublishFact
    <2>1. PICK r \in facts : PublishOne(r) /\ facts' = facts \ {r}
      BY <1>7 DEF PublishFact
    <2> DEFINE docs == Append(buffer, Len(handed) + 1)
    <2>2. /\ handed' = Append(handed, r) /\ at' = "facts" /\ UNCHANGED sent
          /\ r \in Documents /\ handed \in Seq(Documents)
      BY <1>1, <1>7, <2>1 DEF PublishFact, PublishOne, kafkaVars, ServerTypes, TypeOK
    <2>3. Len(docs) = Len(buffer) + 1 /\ 1 \in DOMAIN docs
      BY <1>5
    <2>4. {handed'[n] : n \in Range(docs)} = RecordsOf(Range(buffer)) \cup {r}
      <3>1. Range(docs) = Range(buffer) \cup {Len(handed) + 1}
        <4>1. buffer \in Seq(Nat) /\ Len(handed) + 1 \in Nat
          BY <1>5, <2>2 DEF Ids
        <4>2. QED BY <4>1, RangeOfAppend
      <3>2. handed'[Len(handed) + 1] = r
        BY <2>2
      <3>3. \A n \in Range(buffer) : handed'[n] = handed[n]
        BY <1>1, DocsAreIds, PlacesStay
      <3> HIDE DEF docs
      <3>4. QED BY <3>1, <3>2, <3>3 DEF RecordsOf
    <2> HIDE DEF docs
    <2>5. Single(facts' \cup {handed'[n] : n \in Range(docs)})
      BY <1>3, <2>1, <2>4 DEF BufferOwn, Single
    <2>6. CASE Len(docs) < BatchSize /\ buffer' = docs /\ UNCHANGED flight
      <3>1. BufferOwn'
        BY <2>2, <2>5, <2>6 DEF BufferOwn, RecordsOf
      <3>2. QED BY <1>1, <1>2, <1>3, <2>2, <2>6, <3>1, QuietOwn
    <2>7. CASE Drain(Worker, docs, handed')
      <3>1. Single({handed'[n] : n \in Range(docs)}) /\ Single(facts')
        BY <2>5 DEF Single
      <3>2. Len(docs) <= BatchSize
        BY <1>3, <1>5, <2>3, PublisherAssumption DEF BufferOwn
      <3>3. FlightsOwn' /\ buffer' = <<>>
        BY <1>1, <1>2, <1>3, <1>4, <2>3, <2>7, <3>1, <3>2, TakesOwn
      <3>4. BufferOwn'
        BY <2>2, <3>1, <3>3, EmptyBufferOwn
      <3>5. QED BY <1>1, <1>2, <1>3, <2>2, <3>3, <3>4, QuietOwn
    <2>8. QED BY <2>1, <2>6, <2>7 DEF PublishOne, docs
  <1>8. CASE FlushGroup
    <2>1. UNCHANGED <<handed, sent, facts>>
      BY <1>8 DEF FlushGroup, Flush, vars, kafkaVars, publisherVars
    <2>2. FlightsOwn' /\ buffer' = <<>>
      <3>1. CASE Flush
        <4>1. Drain(Worker, buffer, handed') /\ buffer # <<>> /\ handed' = handed
          BY <3>1 DEF Flush
        <4>2. 1 \in DOMAIN buffer /\ Len(buffer) <= BatchSize
          BY <1>3, <1>5, <4>1, PublisherAssumption DEF BufferOwn
        <4>3. Single({handed'[n] : n \in Range(buffer)})
          BY <1>3, <4>1 DEF BufferOwn, Single, RecordsOf
        <4>4. QED BY <1>1, <1>2, <1>3, <1>4, <4>1, <4>2, <4>3, TakesOwn
      <3>2. CASE buffer = <<>> /\ UNCHANGED vars
        BY <1>1, <1>3, <3>2, QuietOwn DEF vars, kafkaVars, publisherVars
      <3>3. QED BY <1>8, <3>1, <3>2 DEF FlushGroup
    <2>3. BufferOwn'
      <3>1. Single(facts')
        BY <1>3, <2>1 DEF BufferOwn, Single
      <3>2. QED BY <2>2, <3>1, EmptyBufferOwn
    <2>4. QED BY <1>1, <1>2, <1>3, <2>1, <2>2, <2>3, QuietOwn
  <1>9. CASE Publishing \/ UNCHANGED allVars
    <2>1. UNCHANGED serverVars
      BY <1>9 DEF Publishing, allVars
    <2>2. UNCHANGED <<handed, buffer>> /\ FlightsOwn' /\ MessagesOwn'
      <3>1. ASSUME NEW t \in Tasks, SendBatch(t) \/ SendDigest(t)
            PROVE  UNCHANGED <<handed, buffer>> /\ FlightsOwn' /\ MessagesOwn'
        BY <1>1, <1>3, <3>1, SendsOwn DEF SendBatch, SendDigest
      <3>2. ASSUME NEW t \in Tasks, SendFails(t) \/ MessageTooLarge(t) PROVE FALSE
        <4>1. ~ SendFails(t)
          BY <1>1, <1>2 DEF SendFails, Fault
        <4>2. MessageTooLarge(t)
          BY <3>2, <4>1
        <4>3. Flying(t) /\ Len(flight[t].docs) > MaxMessage
          BY <4>2 DEF MessageTooLarge, Flying
        <4>4. Len(flight[t].docs) <= BatchSize
          BY <1>3, <4>3 DEF FlightsOwn
        <4>5. flight[t].docs \in Seq(Ids)
          BY <1>1 DEF Flights, Batches
        <4>6. Len(flight[t].docs) \in Nat
          BY <4>5
        <4>7. QED BY <4>3, <4>4, <4>6, PublisherAssumption
      <3>3. CASE Tick \/ Broker \/ UNCHANGED allVars
        <4>1. UNCHANGED <<handed, buffer, flight, sent>>
          BY <3>3 DEF Tick, Broker, Deliver, Lose, allVars, vars, kafkaVars, publisherVars
        <4>2. QED BY <1>1, <1>3, <4>1, QuietOwn
      <3>4. QED BY <1>9, <3>1, <3>2, <3>3 DEF Publishing
    <2>3. BufferOwn'
      BY <1>3, <2>1, <2>2 DEF BufferOwn, serverVars, RecordsOf
    <2>4. QED BY <1>2, <2>2, <2>3
  <1>10. CASE Cancel \/ EndPolling
    <2>1. CancelWorker
      BY <1>10 DEF Cancel, EndPolling
    <2>2. QED BY <1>2, <2>1 DEF CancelWorker
  <1>11. CASE ClosePublisher
    BY <1>2, <1>11 DEF ClosePublisher, Close
  <1>12. CASE StopServer
    BY <1>2, <1>12 DEF StopServer, StopProducer
  <1>13. CASE RestartServer
    BY <1>1, <1>2, <1>13 DEF RestartServer, Restart, Fault
  <1>14. QED
    BY <1>6, <1>7, <1>8, <1>9, <1>10, <1>11, <1>12, <1>13 DEF ServerNext, Aside

(***************************************************************************)
(* While nothing has failed, messages hold the documents of the project    *)
(* they are published under, if a full buffer fits into a message: what    *)
(* the explicit flush after every group is for.  [server.py:452]           *)
(***************************************************************************)
THEOREM OwnProjectWhileWell ==
    ASSUME BatchSize <= MaxMessage
    PROVE  ServerSpec => []OwnProjectUntilFailure
  <1>1. ServerTypes /\ Alone /\ Own /\ [ServerNext]_allVars => Own'
    BY OwnStep
  <1>2. Own => OwnProjectUntilFailure
    BY DEF Own, MessagesOwn, OwnProjectUntilFailure
  <1>3. QED BY ServerInvariant, OwnInit, <1>1, <1>2, PTL DEF ServerSpec

==============================================================================
