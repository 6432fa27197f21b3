------------------------ MODULE ConsumerGroupProofs ------------------------
(***************************************************************************)
(* Proofs about ConsumerGroup, for every number of pods, partitions,       *)
(* records and faults: the types, the hand-off of offsets and its          *)
(* refinement to OffsetHandoff.                                            *)
(***************************************************************************)
EXTENDS ConsumerGroup, TLAPS

USE ConsumerGroupAssumption

(***************************************************************************)
(* The state of pods and group has its type in every step of the loop, of  *)
(* shutdown and of the coordinator.                                        *)
(***************************************************************************)
LEMMA TypeStep == TypeOK /\ [Next]_vars => TypeOK'
<1> SUFFICES ASSUME TypeOK, [Next]_vars PROVE TypeOK'
  OBVIOUS
<1> USE DEF TypeOK, Records, Phases, Fates, Fault, Leave, CommitPositions,
            EndWith, history, group
<1>1. CASE Rebalance
  <2>1. owner' \in [Partitions -> members' \cup {NoPod}]
    BY <1>1 DEF Rebalance
  <2>2. rebalancing' \in BOOLEAN
    BY <1>1, Zenon DEF Rebalance
  <2>3. rebalances' \in Nat
    BY <1>1 DEF Rebalance
  <2>4. position' \in [Partitions -> 0 .. End]
    BY <1>1 DEF Rebalance
  <2>5. UNCHANGED <<phase, batch, members, committed, attempts, fate, faults>>
    BY <1>1 DEF Rebalance
  <2> QED
    BY <2>1, <2>2, <2>3, <2>4, <2>5
<1>2. ASSUME NEW c \in Pods, Start(c) PROVE TypeOK'
  BY <1>2 DEF Start
<1>3. ASSUME NEW c \in Pods, Rejoin(c) PROVE TypeOK'
  BY <1>3 DEF Rejoin
<1>4. ASSUME NEW c \in Pods, Expel(c) PROVE TypeOK'
  BY <1>4 DEF Expel
<1>5. ASSUME NEW c \in Pods, Crash(c) PROVE TypeOK'
  BY <1>5 DEF Crash
<1>6. ASSUME NEW c \in Pods, Poll(c) PROVE TypeOK'
  BY <1>6 DEF Poll, Fetched
<1>7. ASSUME NEW c \in Pods, PollFails(c) PROVE TypeOK'
  BY <1>7 DEF PollFails
<1>8. ASSUME NEW c \in Pods, HandlerReturns(c) PROVE TypeOK'
  BY <1>8 DEF HandlerReturns
<1>9. ASSUME NEW c \in Pods, Commit(c) PROVE TypeOK'
  BY <1>9 DEF Commit
<1>10. ASSUME NEW c \in Pods, CommitFails(c) PROVE TypeOK'
  BY <1>10 DEF CommitFails
<1>11. ASSUME NEW c \in Pods, CancelPolling(c) PROVE TypeOK'
  BY <1>11 DEF CancelPolling
<1>12. ASSUME NEW c \in Pods, CancelHandler(c) PROVE TypeOK'
  BY <1>12 DEF CancelHandler
<1>13. ASSUME NEW c \in Pods, CancelCommit(c) PROVE TypeOK'
  BY <1>13 DEF CancelCommit
<1>14. ASSUME NEW c \in Pods, StopCommit(c) PROVE TypeOK'
  BY <1>14 DEF StopCommit
<1>15. ASSUME NEW c \in Pods, Stop(c) PROVE TypeOK'
  BY <1>15 DEF Stop
<1>16. CASE UNCHANGED vars
  BY <1>16 DEF vars
<1> QED
  BY <1>1, <1>2, <1>3, <1>4, <1>5, <1>6, <1>7, <1>8, <1>9, <1>10, <1>11,
     <1>12, <1>13, <1>14, <1>15, <1>16
     DEF Next, ConsumeLoop, Shutdown, PollEmpty

(***************************************************************************)
(* Spec keeps every variable of pods, group and topic within its type.     *)
(***************************************************************************)
THEOREM TypeCorrect == Spec => []TypeOK
<1>1. Init => TypeOK
  <2> SUFFICES ASSUME Init PROVE TypeOK
    OBVIOUS
  <2>1. rebalancing \in BOOLEAN
    BY Zenon DEF Init
  <2>2. /\ phase \in [Pods -> Phases]
        /\ batch \in [Pods -> SUBSET Records]
        /\ members \in SUBSET Pods
        /\ owner \in [Partitions -> members \cup {NoPod}]
        /\ position \in [Partitions -> 0 .. End]
        /\ committed \in [Partitions -> 0 .. End]
    BY DEF Init, Phases
  <2>3. /\ rebalances \in Nat
        /\ attempts \in [Records -> Nat]
        /\ fate \in [Records -> SUBSET Fates]
        /\ faults \in 0 .. MaxFaults
    BY DEF Init
  <2> QED
    BY <2>1, <2>2, <2>3 DEF TypeOK
<1> QED
  BY <1>1, TypeStep, PTL DEF Spec

------------------------------------------------------------------------------
(***************************************************************************)
(* The inductive invariant.  AccountedBeforeCommit is not inductive: a     *)
(* commit covers what PositionsBacked says of the owner's position, and    *)
(* that needs to know what the batch of each phase holds.                  *)
(***************************************************************************)
BatchesEnded ==
    \A c \in Pods :
        /\ phase[c] \in {"committing", "stopping"} => \A r \in batch[c] : fate[r] # {}
        /\ phase[c] \in {"down", "polling", "drained"} => batch[c] = {}

HandoffInv == PositionsBacked /\ BatchesEnded /\ AccountedBeforeCommit

(***************************************************************************)
(* A step that keeps owner, position and committed, and forgets neither an *)
(* ended record nor a batch in an owner's hands, keeps the positions       *)
(* backed and the commits accounted.                                       *)
(***************************************************************************)
LEMMA KeptPositions ==
  ASSUME TypeOK, TypeOK', PositionsBacked, AccountedBeforeCommit,
         UNCHANGED <<position, committed>>,
         \A p \in Partitions : owner'[p] # NoPod => owner'[p] = owner[p],
         \A r \in Records : fate[r] # {} => fate'[r] # {},
         \A c \in Pods, r \in Records :
            /\ r \in batch[c]
            /\ phase[c] = "handling"
            /\ owner'[r[1]] = c
            => \/ fate'[r] # {}
               \/ r \in batch'[c] /\ phase'[c] = "handling"
  PROVE  PositionsBacked' /\ AccountedBeforeCommit'
<1>1. AccountedBeforeCommit'
  BY DEF AccountedBeforeCommit, TypeOK, Records
<1>2. ASSUME NEW p \in Partitions, owner'[p] # NoPod
      PROVE  /\ committed'[p] <= position'[p]
             /\ \A o \in committed'[p] .. position'[p] - 1 :
                  \/ fate'[<<p, o>>] # {}
                  \/ <<p, o>> \in batch'[owner'[p]] /\ phase'[owner'[p]] = "handling"
  <2>1. owner[p] # NoPod /\ owner'[p] = owner[p] /\ owner[p] \in Pods
    BY <1>2 DEF TypeOK
  <2>2. committed'[p] <= position'[p]
    BY <2>1 DEF PositionsBacked
  <2>3. ASSUME NEW o \in committed[p] .. position[p] - 1
        PROVE  \/ fate'[<<p, o>>] # {}
               \/ <<p, o>> \in batch'[owner'[p]] /\ phase'[owner'[p]] = "handling"
    <3>1. <<p, o>> \in Records
      BY DEF TypeOK, Records
    <3>2. \/ fate[<<p, o>>] # {}
          \/ <<p, o>> \in batch[owner[p]] /\ phase[owner[p]] = "handling"
      BY <2>1 DEF PositionsBacked
    <3> QED
      BY <2>1, <3>1, <3>2
  <2> QED
    BY <2>2, <2>3
<1> QED
  BY <1>1, <1>2 DEF PositionsBacked

(***************************************************************************)
(* commit() from a pod that is no longer handling keeps the invariant: its *)
(* positions are backed by ended records only.                             *)
(***************************************************************************)
LEMMA CommittedPositions ==
  ASSUME TypeOK, PositionsBacked, AccountedBeforeCommit, BatchesEnded,
         NEW c \in Pods, phase[c] \in {"committing", "stopping"},
         CommitPositions(c), UNCHANGED <<owner, position, fate>>,
         \A d \in Pods \ {c} : batch'[d] = batch[d] /\ phase'[d] = phase[d]
  PROVE  PositionsBacked' /\ AccountedBeforeCommit'
<1>1. ASSUME NEW p \in Partitions, owner[p] = c
      PROVE  /\ committed'[p] = position[p]
             /\ \A o \in 0 .. position[p] - 1 : fate[<<p, o>>] # {}
  <2>1. owner[p] # NoPod
    BY <1>1
  <2>2. committed'[p] = position[p]
    BY <1>1 DEF CommitPositions
  <2>3. ASSUME NEW o \in 0 .. position[p] - 1
        PROVE  fate[<<p, o>>] # {}
    <3>1. <<p, o>> \in Records
      BY DEF TypeOK, Records
    <3>2. CASE o < committed[p]
      BY <3>1, <3>2 DEF AccountedBeforeCommit
    <3>3. CASE ~(o < committed[p])
      <4>1. o \in committed[p] .. position[p] - 1
        BY <3>3 DEF TypeOK
      <4> QED
        BY <1>1, <2>1, <4>1 DEF PositionsBacked
    <3> QED
      BY <3>2, <3>3
  <2> QED
    BY <2>2, <2>3
<1>2. ASSUME NEW p \in Partitions, owner[p] # c
      PROVE  committed'[p] = committed[p]
  BY <1>2 DEF CommitPositions
<1>3. AccountedBeforeCommit'
  <2> SUFFICES ASSUME NEW r \in Records, r[2] < committed'[r[1]]
               PROVE  fate[r] # {}
    BY DEF AccountedBeforeCommit
  <2>1. r[1] \in Partitions /\ r[2] \in Nat /\ r = <<r[1], r[2]>>
    BY DEF Records
  <2>2. CASE owner[r[1]] = c
    <3>1. r[2] \in 0 .. position[r[1]] - 1
      BY <1>1, <2>1, <2>2 DEF TypeOK
    <3> QED
      BY <1>1, <2>1, <2>2, <3>1
  <2>3. CASE owner[r[1]] # c
    BY <1>2, <2>1, <2>3 DEF AccountedBeforeCommit
  <2> QED
    BY <2>2, <2>3
<1>4. ASSUME NEW p \in Partitions, owner'[p] # NoPod
      PROVE  /\ committed'[p] <= position'[p]
             /\ \A o \in committed'[p] .. position'[p] - 1 :
                  \/ fate'[<<p, o>>] # {}
                  \/ <<p, o>> \in batch'[owner'[p]] /\ phase'[owner'[p]] = "handling"
  <2>1. CASE owner[p] = c
    <3>1. committed'[p] = position'[p] /\ position'[p] \in Nat
      BY <1>1, <2>1 DEF TypeOK
    <3> QED
      BY <3>1
  <2>2. CASE owner[p] # c
    <3>1. owner'[p] = owner[p] /\ owner[p] \in Pods \ {c}
      BY <1>4, <2>2 DEF TypeOK
    <3> QED
      BY <1>2, <1>4, <2>2, <3>1 DEF PositionsBacked
  <2> QED
    BY <2>1, <2>2
<1> QED
  BY <1>3, <1>4 DEF PositionsBacked

(* Polls, handlers, commits, rebalances and crashes keep what is committed accounted for. *)
LEMMA HandoffStep ==
  ASSUME TypeOK, TypeOK', HandoffInv, [Next]_vars
  PROVE  HandoffInv'
<1> USE DEF HandoffInv
<1>1. CASE Rebalance
  <2>1. UNCHANGED <<phase, batch, committed, fate>> /\ position' = committed
    BY <1>1 DEF Rebalance
  <2>2. BatchesEnded' /\ AccountedBeforeCommit'
    BY <2>1 DEF BatchesEnded, AccountedBeforeCommit
  <2>3. \A p \in Partitions : committed'[p] = position'[p] /\ position'[p] \in Nat
    BY <2>1 DEF TypeOK
  <2>4. PositionsBacked'
    BY <2>3 DEF PositionsBacked
  <2> QED
    BY <2>2, <2>4
<1>2. ASSUME NEW c \in Pods, Start(c) \/ Rejoin(c) PROVE HandoffInv'
  <2>1. BatchesEnded'
    BY <1>2 DEF BatchesEnded, Start, Rejoin, TypeOK, history
  <2> QED
    BY <1>2, <2>1, KeptPositions DEF Start, Rejoin, history, TypeOK
<1>3. ASSUME NEW c \in Pods, Expel(c) PROVE HandoffInv'
  <2>1. BatchesEnded'
    BY <1>3 DEF BatchesEnded, Expel, history
  <2> QED
    BY <1>3, <2>1, KeptPositions DEF Expel, Leave, history, TypeOK
<1>4. ASSUME NEW c \in Pods, Crash(c) \/ Stop(c) PROVE HandoffInv'
  <2>1. BatchesEnded'
    BY <1>4 DEF BatchesEnded, Crash, Stop, history, TypeOK
  <2>2. \A p \in Partitions : owner'[p] # c /\ (owner'[p] # NoPod => owner'[p] = owner[p])
    BY <1>4 DEF Crash, Stop, Leave, TypeOK
  <2>3. \A d \in Pods \ {c} : batch'[d] = batch[d] /\ phase'[d] = phase[d]
    BY <1>4 DEF Crash, Stop, TypeOK
  <2>4. UNCHANGED <<position, committed, fate>>
    BY <1>4 DEF Crash, Stop, history
  <2>5. \A r \in Records : r[1] \in Partitions
    BY DEF Records
  <2> QED
    BY <2>1, <2>2, <2>3, <2>4, <2>5, KeptPositions
<1>5. ASSUME NEW c \in Pods, Poll(c) PROVE HandoffInv'
  <2>1. PICK upto \in [Partitions -> 0 .. End] :
          /\ \A p \in Partitions : IF owner[p] = c THEN position[p] <= upto[p]
                                                   ELSE upto[p] = position[p]
          /\ position' = upto
          /\ batch' = [batch EXCEPT ![c] = Fetched(c, upto)]
    BY <1>5 DEF Poll
  <2>2. /\ phase[c] = "polling" /\ phase' = [phase EXCEPT ![c] = "handling"]
        /\ UNCHANGED <<owner, committed, fate>>
    BY <1>5 DEF Poll
  <2>3. /\ phase'[c] = "handling" /\ batch'[c] = Fetched(c, upto)
        /\ \A d \in Pods \ {c} : batch'[d] = batch[d] /\ phase'[d] = phase[d]
    BY <2>1, <2>2 DEF TypeOK
  <2>4. BatchesEnded'
    BY <2>2, <2>3 DEF BatchesEnded
  <2>5. AccountedBeforeCommit'
    BY <2>2 DEF AccountedBeforeCommit
  <2>6. ASSUME NEW p \in Partitions, owner'[p] # NoPod
        PROVE  /\ committed'[p] <= position'[p]
               /\ \A o \in committed'[p] .. position'[p] - 1 :
                    \/ fate'[<<p, o>>] # {}
                    \/ <<p, o>> \in batch'[owner'[p]] /\ phase'[owner'[p]] = "handling"
    <3>1. owner[p] # NoPod /\ owner[p] \in Pods /\ owner'[p] = owner[p]
      BY <2>2, <2>6 DEF TypeOK
    <3>2. /\ committed[p] <= position[p]
          /\ \A o \in committed[p] .. position[p] - 1 :
               \/ fate[<<p, o>>] # {}
               \/ <<p, o>> \in batch[owner[p]] /\ phase[owner[p]] = "handling"
      BY <3>1 DEF PositionsBacked
    <3>3. CASE owner[p] = c
      <4>1. committed'[p] <= position'[p]
        BY <2>1, <2>2, <3>2, <3>3 DEF TypeOK
      <4>2. ASSUME NEW o \in committed[p] .. upto[p] - 1
            PROVE  fate[<<p, o>>] # {} \/ <<p, o>> \in Fetched(c, upto)
        <5>1. <<p, o>> \in Records
          BY <2>1 DEF TypeOK, Records
        <5>2. CASE o < position[p]
          <6>1. o \in committed[p] .. position[p] - 1
            BY <5>2 DEF TypeOK
          <6> QED
            BY <2>2, <3>2, <3>3, <6>1
        <5>3. CASE ~(o < position[p])
          BY <3>3, <5>1, <5>3 DEF TypeOK, Fetched
        <5> QED
          BY <5>2, <5>3
      <4> QED
        BY <2>1, <2>2, <2>3, <3>3, <4>1, <4>2
    <3>4. CASE owner[p] # c
      BY <2>1, <2>2, <2>3, <3>1, <3>2, <3>4
    <3> QED
      BY <3>3, <3>4
  <2>7. PositionsBacked'
    BY <2>6 DEF PositionsBacked
  <2> QED
    BY <2>4, <2>5, <2>7
<1>6. ASSUME NEW c \in Pods, PollFails(c) \/ CancelPolling(c) PROVE HandoffInv'
  <2>1. BatchesEnded'
    BY <1>6 DEF BatchesEnded, PollFails, CancelPolling, history, TypeOK
  <2> QED
    BY <1>6, <2>1, KeptPositions DEF PollFails, CancelPolling, history, group, TypeOK
<1>7. ASSUME NEW c \in Pods, HandlerReturns(c) \/ CancelHandler(c) PROVE HandoffInv'
  <2>1. /\ UNCHANGED <<position, committed, owner, batch>>
        /\ \A r \in Records : fate[r] # {} => fate'[r] # {}
        /\ \A r \in batch[c] : fate'[r] # {}
    <3>1. \A r \in batch[c] : r \in Records
      BY DEF TypeOK
    <3>2. CASE HandlerReturns(c)
      <4>1. PICK failed \in SUBSET batch[c] :
              fate' = [r \in Records |->
                         IF r \in failed THEN fate[r] \cup {"failed"}
                         ELSE IF r \in batch[c] THEN fate[r] \cup {"ok"}
                         ELSE fate[r]]
        BY <3>2 DEF HandlerReturns
      <4>2. ASSUME NEW r \in Records
            PROVE  (fate[r] # {} \/ r \in batch[c]) => fate'[r] # {}
        BY <4>1
      <4> QED
        BY <3>1, <3>2, <4>2 DEF HandlerReturns, group
    <3>3. CASE CancelHandler(c)
      <4>1. ASSUME NEW r \in Records
            PROVE  (fate[r] # {} \/ r \in batch[c]) => fate'[r] # {}
        BY <3>3 DEF CancelHandler, EndWith
      <4> QED
        BY <3>1, <3>3, <4>1 DEF CancelHandler, group
    <3> QED
      BY <1>7, <3>2, <3>3
  <2>2. /\ phase'[c] \in {"committing", "stopping"}
        /\ \A d \in Pods \ {c} : phase'[d] = phase[d]
    BY <1>7 DEF HandlerReturns, CancelHandler, TypeOK
  <2>3. BatchesEnded'
    BY <2>1, <2>2 DEF BatchesEnded, TypeOK
  <2> QED
    BY <2>1, <2>2, <2>3, KeptPositions
<1>8. ASSUME NEW c \in Pods, Commit(c) \/ CommitFails(c) \/ CancelCommit(c) \/ StopCommit(c)
      PROVE  HandoffInv'
  <2>1. /\ phase[c] \in {"committing", "stopping"}
        /\ phase'[c] \in {"polling", "drained"} /\ batch'[c] = {}
        /\ \A d \in Pods \ {c} : batch'[d] = batch[d] /\ phase'[d] = phase[d]
        /\ UNCHANGED <<owner, position, fate>>
        /\ CommitPositions(c) \/ UNCHANGED committed
    BY <1>8 DEF Commit, CommitFails, CancelCommit, StopCommit, group, history, TypeOK
  <2>2. BatchesEnded'
    BY <2>1 DEF BatchesEnded
  <2>3. CASE CommitPositions(c)
    BY <2>1, <2>2, <2>3, CommittedPositions
  <2>4. CASE UNCHANGED committed
    BY <2>1, <2>2, <2>4, KeptPositions
  <2> QED
    BY <2>1, <2>3, <2>4
<1>9. CASE UNCHANGED vars
  BY <1>9 DEF vars, PositionsBacked, BatchesEnded, AccountedBeforeCommit
<1> QED
  BY <1>1, <1>2, <1>3, <1>4, <1>5, <1>6, <1>7, <1>8, <1>9
     DEF Next, ConsumeLoop, Shutdown, PollEmpty

(* Positions are backed and commits accounted for in every state.          *)
LEMMA HandoffInvariant == Spec => []HandoffInv
<1>1. Init => HandoffInv
  BY DEF Init, HandoffInv, PositionsBacked, BatchesEnded, AccountedBeforeCommit, Records
<1>2. TypeOK /\ TypeOK' /\ HandoffInv /\ [Next]_vars => HandoffInv'
  BY HandoffStep
<1> QED
  BY <1>1, <1>2, TypeCorrect, PTL DEF Spec

(***************************************************************************)
(* Whatever is between a committed offset and the position of the owner is *)
(* being handled by the owner or has been handled.                         *)
(***************************************************************************)
THEOREM PositionsStayBacked == Spec => []PositionsBacked
BY HandoffInvariant, PTL DEF HandoffInv

(***************************************************************************)
(* consume_batch never commits a record that was only fetched.             *)
(***************************************************************************)
THEOREM AccountedCommits == Spec => []AccountedBeforeCommit
BY HandoffInvariant, PTL DEF HandoffInv

(***************************************************************************)
(* No pod hands a committed record to its handler again.                   *)
(***************************************************************************)
THEOREM CommittedStaysCommitted == Spec => NeverReplaysCommitted
<1>1. ASSUME TypeOK, PositionsBacked, [Next]_vars, NEW r \in Records,
             attempts'[r] # attempts[r]
      PROVE  r[2] >= committed[r[1]]
  <2>1. PICK c \in Pods : Poll(c)
    BY <1>1 DEF Next, Rebalance, Start, Rejoin, Expel, Crash, ConsumeLoop, Shutdown,
       PollEmpty, PollFails, HandlerReturns, Commit, CommitFails, CancelPolling,
       CancelHandler, CancelCommit, StopCommit, Stop, history, vars
  <2>2. PICK upto \in [Partitions -> 0 .. End] :
          attempts' = [q \in Records |-> IF q \in Fetched(c, upto)
                                          THEN attempts[q] + 1 ELSE attempts[q]]
    BY <2>1 DEF Poll
  <2>3. owner[r[1]] = c /\ position[r[1]] <= r[2]
    BY <1>1, <2>2 DEF Fetched
  <2>4. r[1] \in Partitions /\ r[2] \in Nat
    BY DEF Records
  <2> QED
    BY <1>1, <2>3, <2>4 DEF PositionsBacked, TypeOK
<1>2. TypeOK /\ PositionsBacked /\ [Next]_vars
        => [\A r \in Records : attempts'[r] # attempts[r] => r[2] >= committed[r[1]]]_vars
  BY <1>1
<1> QED
  BY <1>2, TypeCorrect, PositionsStayBacked, PTL DEF Spec, NeverReplaysCommitted

------------------------------------------------------------------------------
(***************************************************************************)
(* Redelivery.  What an owner has not fetched was handed out at most once  *)
(* per earlier assignment, so handing it out now still leaves one attempt  *)
(* per assignment.                                                         *)
(***************************************************************************)
AttemptsInv ==
    /\ OneAttemptPerAssignment
    /\ \A r \in Records :
         (owner[r[1]] # NoPod /\ position[r[1]] <= r[2]) => attempts[r] < rebalances

(* Only a new assignment hands a record out again.                         *)
LEMMA AttemptsStep ==
  ASSUME TypeOK, AttemptsInv, [Next]_vars
  PROVE  AttemptsInv'
<1> USE DEF AttemptsInv, OneAttemptPerAssignment
<1>1. \A r \in Records : /\ r[1] \in Partitions /\ r[2] \in Nat
                          /\ attempts[r] \in Nat /\ position[r[1]] \in Nat
  BY DEF TypeOK, Records
<1>2. CASE Rebalance
  BY <1>1, <1>2 DEF Rebalance, TypeOK
<1>3. ASSUME NEW c \in Pods, Poll(c) PROVE AttemptsInv'
  <2>1. PICK upto \in [Partitions -> 0 .. End] :
          /\ \A p \in Partitions : IF owner[p] = c THEN position[p] <= upto[p]
                                                   ELSE upto[p] = position[p]
          /\ position' = upto
          /\ attempts' = [r \in Records |-> IF r \in Fetched(c, upto)
                                            THEN attempts[r] + 1 ELSE attempts[r]]
    BY <1>3 DEF Poll
  <2>2. UNCHANGED <<owner, rebalances>>
    BY <1>3 DEF Poll
  <2>3. ASSUME NEW r \in Records
        PROVE  /\ attempts'[r] <= rebalances
               /\ (owner[r[1]] # NoPod /\ upto[r[1]] <= r[2]) => attempts'[r] < rebalances
    <3>1. CASE r \in Fetched(c, upto)
      <4>1. /\ owner[r[1]] = c /\ position[r[1]] <= r[2] /\ r[2] < upto[r[1]]
            /\ attempts'[r] = attempts[r] + 1
        BY <2>1, <3>1 DEF Fetched
      <4>2. attempts[r] < rebalances /\ upto[r[1]] \in Nat
        BY <1>1, <4>1
      <4> QED
        BY <1>1, <4>1, <4>2 DEF TypeOK
    <3>2. CASE r \notin Fetched(c, upto)
      <4>1. attempts'[r] = attempts[r]
        BY <2>1, <3>2
      <4>2. position[r[1]] <= upto[r[1]] /\ upto[r[1]] \in Nat
        BY <1>1, <2>1
      <4> QED
        BY <1>1, <4>1, <4>2 DEF TypeOK
    <3> QED
      BY <3>1, <3>2
  <2> QED
    BY <2>1, <2>2, <2>3
<1>4. ASSUME NEW c \in Pods, Expel(c) \/ Crash(c) \/ Stop(c) PROVE AttemptsInv'
  <2>1. /\ UNCHANGED <<attempts, rebalances, position>>
        /\ \A p \in Partitions : owner'[p] # NoPod => owner[p] # NoPod
    BY <1>4 DEF Expel, Crash, Stop, Leave, history, TypeOK
  <2> QED
    BY <1>1, <2>1
<1>5. CASE UNCHANGED <<attempts, rebalances, position, owner>>
  BY <1>5
<1> QED
  BY <1>2, <1>3, <1>4, <1>5
     DEF Next, Start, Rejoin, ConsumeLoop, Shutdown, PollEmpty, PollFails,
         HandlerReturns, Commit, CommitFails, CancelPolling, CancelHandler,
         CancelCommit, StopCommit, history, group, vars

(***************************************************************************)
(* A record is redelivered only by a new assignment of its partition:      *)
(* consume_batch itself hands out every record once.                       *)
(***************************************************************************)
THEOREM RedeliveryNeedsRebalance == Spec => []OneAttemptPerAssignment
<1>1. Init => AttemptsInv
  BY DEF Init, AttemptsInv, OneAttemptPerAssignment, Records
<1>2. TypeOK /\ AttemptsInv /\ [Next]_vars => AttemptsInv'
  BY AttemptsStep
<1>3. AttemptsInv => OneAttemptPerAssignment
  BY DEF AttemptsInv
<1> QED
  BY <1>1, <1>2, <1>3, TypeCorrect, PTL DEF Spec

------------------------------------------------------------------------------
(***************************************************************************)
(* Refinement: a step that ends handling is EndHandling, a commit is       *)
(* Advance, everything else stutters.                                      *)
(***************************************************************************)
Ended == {r \in Records : fate[r] # {}}

(* A commit of positions is an advance of the abstract hand-off.           *)
LEMMA CommitIsAdvance ==
  ASSUME TypeOK, TypeOK', PositionsBacked, AccountedBeforeCommit',
         NEW c \in Pods, CommitPositions(c), UNCHANGED fate
  PROVE  Handoff!Next
<1>1. committed' \in [Partitions -> 0 .. End]
  BY DEF TypeOK
<1>2. ASSUME NEW p \in Partitions PROVE committed[p] <= committed'[p]
  <2>1. CASE owner[p] = c
    BY <2>1 DEF PositionsBacked, CommitPositions, TypeOK
  <2>2. CASE owner[p] # c
    BY <2>2 DEF CommitPositions, TypeOK
  <2> QED
    BY <2>1, <2>2
<1>3. \A r \in Records : r[2] < committed'[r[1]] => r \in Ended
  BY DEF AccountedBeforeCommit, Ended
<1>4. Handoff!Advance(committed')
  BY <1>2, <1>3 DEF Handoff!Advance, Handoff!Records, Records, Ended
<1> QED
  BY <1>1, <1>4 DEF Handoff!Next

(***************************************************************************)
(* consume_batch, shutdown and the coordinator implement the hand-off      *)
(* protocol for every number of pods, partitions and records.              *)
(***************************************************************************)
THEOREM GroupImplementsHandoff == Spec => ImplementsHandoff
<1>1. Init => Handoff!Init
  BY DEF Init, Handoff!Init, Records
<1>2. ASSUME TypeOK, TypeOK', HandoffInv, HandoffInv', [Next]_vars
      PROVE  Handoff!Next \/ UNCHANGED <<Ended, committed>>
  <2>1. ASSUME NEW c \in Pods, HandlerReturns(c) \/ CancelHandler(c)
        PROVE  Handoff!Next
    <3>1. UNCHANGED committed /\ batch[c] \in SUBSET Records
      BY <1>2, <2>1 DEF HandlerReturns, CancelHandler, TypeOK
    <3>2. Ended' = Ended \cup batch[c]
      <4>1. CASE HandlerReturns(c)
        <5>1. PICK failed \in SUBSET batch[c] :
                fate' = [r \in Records |->
                           IF r \in failed THEN fate[r] \cup {"failed"}
                           ELSE IF r \in batch[c] THEN fate[r] \cup {"ok"}
                           ELSE fate[r]]
          BY <4>1 DEF HandlerReturns
        <5> QED
          BY <3>1, <5>1 DEF Ended
      <4>2. CASE CancelHandler(c)
        BY <3>1, <4>2 DEF CancelHandler, EndWith, Ended
      <4> QED
        BY <2>1, <4>1, <4>2
    <3>3. batch[c] \in SUBSET Handoff!Records
      BY <3>1 DEF Handoff!Records, Records
    <3>4. \E S \in SUBSET Handoff!Records : Handoff!EndHandling(S)
      BY <3>1, <3>2, <3>3 DEF Handoff!EndHandling, Ended
    <3> QED
      BY <3>4 DEF Handoff!Next
  <2>2. ASSUME NEW c \in Pods, Commit(c) \/ CancelCommit(c) \/ StopCommit(c)
        PROVE  Handoff!Next \/ UNCHANGED <<Ended, committed>>
    <3>1. /\ CommitPositions(c) \/ UNCHANGED committed
          /\ UNCHANGED fate
      BY <2>2 DEF Commit, CancelCommit, StopCommit, history
    <3>2. CASE CommitPositions(c)
      BY <1>2, <3>1, <3>2, CommitIsAdvance DEF HandoffInv
    <3>3. CASE UNCHANGED committed
      BY <3>1, <3>3 DEF Ended
    <3> QED
      BY <3>1, <3>2, <3>3
  <2>3. CASE UNCHANGED <<fate, committed>>
    BY <2>3 DEF Ended
  <2> QED
    BY <1>2, <2>1, <2>2, <2>3
       DEF Next, Rebalance, Start, Rejoin, Expel, Crash, ConsumeLoop, Shutdown,
           PollEmpty, Poll, PollFails, CommitFails, CancelPolling, Stop, history, vars
<1>3. TypeOK /\ TypeOK' /\ HandoffInv /\ HandoffInv' /\ [Next]_vars
        => [Handoff!Next]_(Handoff!vars)
  BY <1>2 DEF Handoff!vars, Ended
<1> QED
  BY <1>1, <1>3, TypeCorrect, HandoffInvariant, PTL
     DEF Spec, ImplementsHandoff, Handoff!Spec
==============================================================================
