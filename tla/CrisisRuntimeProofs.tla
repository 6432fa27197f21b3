------------------------- MODULE CrisisRuntimeProofs -------------------------
(***************************************************************************)
(* Proofs about CrisisRuntime for any number of pods, any cooldown and any *)
(* TTL below it: one pod at a time is between the lock's SET and its       *)
(* release, what the record says is what project-srv took, and pushes are  *)
(* a cooldown apart, in every behaviour, those with slow sections too: the *)
(* theorems assume nothing, and what the properties except is what they    *)
(* name themselves, calls that failed and sections that outlived the lock. *)
(***************************************************************************)
EXTENDS CrisisRuntime, TLAPS

Step == [at : Stages, target : Severity, token : BOOLEAN]

(* Where a pod goes next, and that nothing else of pods changes.           *)
LEMMA GotoMoves ==
    ASSUME TypeOK, NEW p \in Pods, NEW where \in Stages, Goto(p, where)
    PROVE  /\ pods' \in [Pods -> Step]
           /\ pods'[p].at = where /\ pods'[p].target = pods[p].target
           /\ pods'[p].token <=> pods[p].token
           /\ \A q \in Pods : q # p => pods'[q] = pods[q]
  BY DEF TypeOK, Goto, Step

(* Types hold at the start.                                                *)
LEMMA TypeInit == Init => TypeOK
  <1> SUFFICES ASSUME Init PROVE TypeOK
    OBVIOUS
  <1>1. NoState \in States
    BY CrisisAssumption DEF NoState, States
  <1>2. Idle \in Step
    BY DEF Idle, Step, Stages, Severity
  <1>3. NoLock \in [owner : Pods \cup {NoPod}, ttl : 0 .. LockTtl]
    BY CrisisAssumption DEF NoLock
  <1>4. pods \in [Pods -> Step] /\ local \in [Pods -> States]
    BY <1>1, <1>2 DEF Init
  <1>5. /\ trend \in Severity /\ applied \in Severity \cup {"unset"} /\ since \in 0 .. Cooldown
        /\ alerted \in SUBSET (Severity \ {"none"})
        /\ failed \in SUBSET FaultKinds /\ faults \in 0 .. MaxFaults /\ shifts \in 0 .. MaxShifts
    BY CrisisAssumption DEF Init, Severity
  <1>6. recorded \in BOOLEAN
    BY DEF Init
  <1>7. stored \in States /\ lock \in [owner : Pods \cup {NoPod}, ttl : 0 .. LockTtl]
    BY <1>1, <1>3 DEF Init
  <1>8. QED BY <1>4, <1>5, <1>6, <1>7 DEF TypeOK, Step

(* The counted fault, as far as types go.                                  *)
LEMMA FaultTyped ==
    ASSUME TypeOK, NEW kind, Fault(kind) \/ UNCHANGED calls
    PROVE  failed' \in SUBSET FaultKinds /\ faults' \in 0 .. MaxFaults
  BY CrisisAssumption DEF TypeOK, Fault, calls

(* Every step keeps the types.                                             *)
LEMMA TypeStep == TypeOK /\ [Next]_vars => TypeOK'
  <1> SUFFICES ASSUME TypeOK, [Next]_vars PROVE TypeOK'
    OBVIOUS
  <1> USE CrisisAssumption
  <1>1. ASSUME NEW p \in Pods, Assess(p) PROVE TypeOK'
    BY <1>1 DEF Assess, TypeOK, Idle, Stages, Section, calls
  <1>2. ASSUME NEW p \in Pods, Read(p) \/ Recheck(p) PROVE TypeOK'
    <2>1. PICK where \in Stages : Goto(p, where)
      BY <1>2 DEF Read, Recheck, Stages, Section
    <2>2. Fault("read") \/ UNCHANGED calls
      BY <1>2 DEF Read, Recheck, LastPushed
    <2>3. pods' \in [Pods -> Step]
      BY <2>1, GotoMoves
    <2>4. failed' \in SUBSET FaultKinds /\ faults' \in 0 .. MaxFaults
      BY <2>2, FaultTyped
    <2>5. QED BY <1>2, <2>3, <2>4 DEF Read, Recheck, TypeOK, Step
  <1>3. ASSUME NEW p \in Pods, Acquire(p) PROVE TypeOK'
    <2>1. failed' \in SUBSET FaultKinds /\ faults' \in 0 .. MaxFaults
      BY <1>3, FaultTyped DEF Acquire
    <2>2. lock' \in [owner : Pods \cup {NoPod}, ttl : 0 .. LockTtl]
      BY <1>3 DEF Acquire, TypeOK
    <2>3. pods' \in [Pods -> Step]
      <3>1. CASE pods' = [pods EXCEPT ![p].at = "recheck", ![p].token = TRUE]
        <4>1. pods \in [Pods -> Step] /\ "recheck" \in Stages
          BY DEF TypeOK, Step, Stages, Section
        <4>2. QED BY ONLY <3>1, <4>1 DEF Step
      <3>2. CASE Goto(p, "alert") \/ Goto(p, "recheck")
        BY <3>2, GotoMoves DEF Stages, Section
      <3>3. QED BY <1>3, <3>1, <3>2 DEF Acquire
    <2>4. QED BY <1>3, <2>1, <2>2, <2>3 DEF Acquire, TypeOK, Step
  <1>4. ASSUME NEW p \in Pods, Post(p) PROVE TypeOK'
    <2>1. failed' \in SUBSET FaultKinds /\ faults' \in 0 .. MaxFaults
      BY <1>4, FaultTyped DEF Post
    <2>2. pods' \in [Pods -> Step]
      BY <1>4, GotoMoves DEF Post, Stages, Section
    <2>3. applied' \in Severity \cup {"unset"} /\ since' \in 0 .. Cooldown
      BY <1>4 DEF Post, Push, TypeOK, Step
    <2>4. recorded' \in BOOLEAN
      <3>1. recorded' = FALSE \/ UNCHANGED recorded
        BY <1>4 DEF Post, Push
      <3>2. QED BY <3>1, Zenon DEF TypeOK
    <2>5. UNCHANGED <<trend, local, stored, lock, alerted, shifts>>
      BY <1>4 DEF Post
    <2>6. QED BY <2>1, <2>2, <2>3, <2>4, <2>5 DEF TypeOK, Step
  <1>5. ASSUME NEW p \in Pods, Store(p) PROVE TypeOK'
    <2>1. failed' \in SUBSET FaultKinds /\ faults' \in 0 .. MaxFaults
      BY <1>5, FaultTyped DEF Store
    <2>2. pods' \in [Pods -> Step]
      BY <1>5, GotoMoves DEF Store, Stages, Section
    <2>3. [status |-> pods[p].target, age |-> 0] \in States
      BY DEF TypeOK, States
    <2>4. local' \in [Pods -> States] /\ stored' \in States /\ recorded' \in BOOLEAN
      BY <1>5, <2>3 DEF Store, TypeOK
    <2>5. UNCHANGED <<trend, lock, applied, since, alerted, shifts>>
      BY <1>5 DEF Store
    <2>6. QED BY <2>1, <2>2, <2>4, <2>5 DEF TypeOK, Step
  <1>6. ASSUME NEW p \in Pods, Release(p) PROVE TypeOK'
    <2>1. failed' \in SUBSET FaultKinds /\ faults' \in 0 .. MaxFaults
      BY <1>6, FaultTyped DEF Release
    <2>2. pods' \in [Pods -> Step]
      <3>1. PICK where \in Stages : Goto(p, where)
        BY <1>6 DEF Release, Stages, Section
      <3>2. QED BY <3>1, GotoMoves
    <2>3. QED BY <1>6, <2>1, <2>2 DEF Release, TypeOK, Step
  <1>7. ASSUME NEW p \in Pods, Delete(p) PROVE TypeOK'
    <2>1. pods' \in [Pods -> Step]
      BY <1>7, GotoMoves DEF Delete, Stages
    <2>2. QED BY <1>7, <2>1 DEF Delete, TypeOK, Step, NoLock, calls
  <1>8. ASSUME NEW p \in Pods, Alert(p) PROVE TypeOK'
    <2>1. alerted' \in SUBSET (Severity \ {"none"})
      BY <1>8 DEF Alert, TypeOK
    <2>2. QED BY <1>8, <2>1 DEF Alert, TypeOK, Idle, Stages, Severity, calls
  <1>9. ASSUME NEW p \in Pods, Crash(p) PROVE TypeOK'
    <2>1. failed' \in SUBSET FaultKinds /\ faults' \in 0 .. MaxFaults
      BY <1>9, FaultTyped DEF Crash
    <2>2. QED BY <1>9, <2>1 DEF Crash, TypeOK, Idle, NoState, States, Stages, Severity
  <1>10. CASE Shift
    BY <1>10 DEF Shift, TypeOK, calls
  <1>11. CASE Tick
    <2>1. \A s \in States : [s EXCEPT !.age = Older(s.age)] \in States
      BY DEF States, Older
    <2>2. lock' \in [owner : Pods \cup {NoPod}, ttl : 0 .. LockTtl]
      BY <1>11 DEF Tick, TypeOK, NoLock
    <2>3. since' \in 0 .. Cooldown
      BY <1>11 DEF Tick, TypeOK, Older
    <2>4. local' \in [Pods -> States] /\ stored' \in States
      BY <1>11, <2>1 DEF Tick, TypeOK
    <2>5. failed' \in SUBSET FaultKinds /\ faults' \in 0 .. MaxFaults
      BY <1>11, FaultTyped DEF Tick
    <2>6. QED BY <1>11, <2>2, <2>3, <2>4, <2>5 DEF Tick, TypeOK
  <1>12. CASE UNCHANGED vars
    BY <1>12 DEF vars, TypeOK
  <1>13. QED
    BY <1>1, <1>2, <1>3, <1>4, <1>5, <1>6, <1>7, <1>8, <1>9, <1>10, <1>11, <1>12
       DEF Next, PodStep

(***************************************************************************)
(* The crisis state keeps its types: the stages of a pod are those of      *)
(* server.py, ages and the TTL stay within their bounds, and only levels   *)
(* that call for one are alerted.                                          *)
(***************************************************************************)
THEOREM CrisisTypes == Spec => []TypeOK
  BY TypeInit, TypeStep, PTL DEF Spec

------------------------------------------------------------------------------
\* A lock somebody holds runs out some day.
LockHeld == lock = NoLock \/ (lock.owner \in Pods /\ lock.ttl \in 1 .. LockTtl)

\* Who is in the section holds the lock, and knows it.
OwnSection ==
    Exclusive => \A p \in Pods : InSection(p) => Holds(p)

\* A push that nobody has written down yet is the one of who is about to.
PushUnwritten ==
    Exclusive =>
        \A p \in Pods : At(p, "store") => applied = pods[p].target /\ ~recorded

\* The record of the last push is as young as the push.
RecordAge ==
    Exclusive /\ "read" \notin failed /\ recorded =>
        stored.status # "unset" /\ stored.age <= since

\* Who is about to push has seen a record of a cooldown ago.
PushDue ==
    Exclusive /\ "read" \notin failed /\ recorded =>
        \A p \in Pods : At(p, "post") => stored.age = Cooldown

Safe == LockHeld /\ OwnSection /\ PushUnwritten /\ RecordIsTrue /\ RecordAge /\ PushDue

(* At the start no pod is in the section.                                  *)
LEMMA SafeInit == Init => Safe
  BY DEF Init, Safe, LockHeld, OwnSection, PushUnwritten, RecordIsTrue, RecordAge, PushDue,
         Idle, InSection, Section, At

(* What is exclusive now was so before.                                    *)
LEMMA ExclusiveBefore ==
    ASSUME failed \subseteq failed', Exclusive'
    PROVE  Exclusive
  BY DEF Exclusive

(* A pod that stays in the section keeps its hold of a lock left alone.    *)
LEMMA OwnKept ==
    ASSUME Safe, NEW p \in Pods,
           \A q \in Pods : q # p => pods'[q] = pods[q],
           InSection(p)' => ~Exclusive' \/ (InSection(p) /\ (pods[p].token => pods'[p].token)),
           failed \subseteq failed', UNCHANGED lock
    PROVE  LockHeld' /\ OwnSection'
  <1>1. LockHeld'
    BY DEF Safe, LockHeld
  <1>2. ASSUME Exclusive', NEW q \in Pods, InSection(q)' PROVE Holds(q)'
    <2>1. InSection(q) /\ (pods[q].token => pods'[q].token)
      BY <1>2 DEF InSection
    <2>2. pods[q].token /\ lock.owner = q
      <3>1. InSection(q)
        BY <2>1
      <3>2. Exclusive
        BY <1>2, ExclusiveBefore
      <3>3. QED BY <3>1, <3>2 DEF Safe, OwnSection, Holds
    <2>3. QED BY <1>2, <2>1, <2>2 DEF Holds
  <1>3. QED BY <1>1, <1>2 DEF OwnSection

(* A pod moves without a push: it leaves the section, stays in it short of *)
(* post and store, or the lock does not exclude.                           *)
LEMMA QuietMove ==
    ASSUME Safe, NEW p \in Pods,
           \A q \in Pods : q # p => pods'[q] = pods[q],
           pods'[p].at \notin {"post", "store"},
           InSection(p)' => ~Exclusive' \/ (InSection(p) /\ (pods[p].token => pods'[p].token)),
           failed \subseteq failed',
           UNCHANGED <<lock, stored, applied, since, recorded>>
    PROVE  Safe'
  <1>1. LockHeld' /\ OwnSection'
    BY OwnKept
  <1>2. PushUnwritten' /\ RecordIsTrue'
    BY ExclusiveBefore DEF Safe, PushUnwritten, RecordIsTrue, At
  <1>3. RecordAge' /\ PushDue'
    BY ExclusiveBefore DEF Safe, RecordAge, PushDue, At
  <1>4. QED BY <1>1, <1>2, <1>3 DEF Safe

(* Whoever is in the section is in it alone.                               *)
LEMMA Alone ==
    ASSUME Safe, NEW p \in Pods, InSection(p), Exclusive
    PROVE  \A q \in Pods : q # p => ~InSection(q)
  BY DEF Safe, OwnSection, Holds

(* project-srv takes a push.                                               *)
LEMMA SafePush ==
    ASSUME TypeOK, Safe, NEW p \in Pods, At(p, "post"), Push(p), failed \subseteq failed',
           Goto(p, "store") \/ Goto(p, "release"), UNCHANGED <<lock, stored>>
    PROVE  Safe'
  <1>1. /\ pods'[p].at \in {"store", "release"} /\ pods'[p].target = pods[p].target
        /\ (pods[p].token => pods'[p].token)
        /\ \A q \in Pods : q # p => pods'[q] = pods[q]
    BY GotoMoves DEF Stages, Section
  <1>2. InSection(p)
    BY DEF At, InSection, Section
  <1>3. ~recorded' /\ applied' = pods[p].target
    BY DEF Push
  <1>4. LockHeld' /\ OwnSection'
    BY <1>1, <1>2, OwnKept
  <1>5. PushUnwritten'
    BY <1>1, <1>2, <1>3, Alone, ExclusiveBefore DEF PushUnwritten, At, InSection, Section
  <1>6. RecordIsTrue' /\ RecordAge' /\ PushDue'
    BY <1>3 DEF RecordIsTrue, RecordAge, PushDue
  <1>7. QED BY <1>4, <1>5, <1>6 DEF Safe

(* Without a failed read the second check sees the record.                 *)
LEMMA SafeRecheck ==
    ASSUME TypeOK, Safe, NEW p \in Pods, Recheck(p)
    PROVE  Safe'
  <1>1. PICK last \in {stored, local[p]} :
           LastPushed(p, last) /\ Goto(p, IF Due(p, last) THEN "post" ELSE "release")
    BY DEF Recheck
  <1>2. At(p, "recheck") /\ UNCHANGED <<lock, stored, applied, since, recorded>>
    BY DEF Recheck
  <1>3. failed \subseteq failed'
    BY <1>1 DEF LastPushed, Fault, calls
  <1>4. InSection(p)
    BY <1>2 DEF At, InSection, Section
  <1>5. CASE ~Due(p, last)
    <2>1. /\ pods'[p].at = "release" /\ (pods[p].token => pods'[p].token)
          /\ \A q \in Pods : q # p => pods'[q] = pods[q]
      BY <1>1, <1>5, GotoMoves DEF Stages, Section
    <2>2. QED BY <2>1, <1>2, <1>3, <1>4, QuietMove
  <1>6. CASE Due(p, last)
    <2>1. /\ pods'[p].at = "post" /\ (pods[p].token => pods'[p].token)
          /\ \A q \in Pods : q # p => pods'[q] = pods[q]
      BY <1>1, <1>6, GotoMoves DEF Stages, Section
    <2>2. LockHeld' /\ OwnSection'
      BY <2>1, <1>2, <1>3, <1>4, OwnKept
    <2>3. PushUnwritten' /\ RecordIsTrue'
      BY <2>1, <1>2, <1>3, ExclusiveBefore DEF Safe, PushUnwritten, RecordIsTrue, At
    <2>4. RecordAge'
      BY <1>2, <1>3, ExclusiveBefore DEF Safe, RecordAge
    <2>5. ASSUME Exclusive' /\ "read" \notin failed', recorded PROVE stored.age = Cooldown
      <3>1. Exclusive /\ "read" \notin failed /\ stored.status # "unset"
        BY <2>5, <1>3, ExclusiveBefore DEF Safe, RecordAge
      <3>2. last = stored
        BY <2>5, <3>1, <1>1 DEF LastPushed, Fault, NoState
      <3>3. stored.age \in 0 .. Cooldown
        BY DEF TypeOK, States
      <3>4. QED BY <3>2, <3>3, <1>6, CrisisAssumption DEF Due
    <2>6. PushDue'
      BY <2>1, <2>5, <1>2, <1>3 DEF Safe, PushDue, At
    <2>7. QED BY <2>2, <2>3, <2>4, <2>6 DEF Safe
  <1>7. QED BY <1>5, <1>6

(* Storing the state keeps what the section has gained.                    *)
LEMMA SafeStore ==
    ASSUME TypeOK, Safe, NEW p \in Pods, Store(p)
    PROVE  Safe'
  <1>1. /\ pods'[p].at = "release" /\ (pods[p].token => pods'[p].token)
        /\ \A q \in Pods : q # p => pods'[q] = pods[q]
    BY GotoMoves DEF Store, Stages, Section
  <1>2. InSection(p) /\ At(p, "store")
    BY DEF Store, At, InSection, Section
  <1>3. failed \subseteq failed' /\ UNCHANGED <<lock, applied, since>>
    BY DEF Store, Fault, calls
  <1>4. CASE UNCHANGED <<stored, recorded>>
    BY <1>1, <1>2, <1>3, <1>4, QuietMove
  <1>5. CASE stored' = [status |-> pods[p].target, age |-> 0] /\ recorded' /\ UNCHANGED calls
    <2>1. LockHeld' /\ OwnSection'
      BY <1>1, <1>2, <1>3, OwnKept
    <2>2. ASSUME Exclusive'
          PROVE  /\ stored'.status = applied'
                 /\ \A q \in Pods : pods'[q].at \notin {"store", "post"}
      <3>1. Exclusive
        BY <2>2, <1>3, ExclusiveBefore
      <3>2. \A q \in Pods : q # p => ~InSection(q)
        BY <3>1, <1>2, Alone
      <3>3. QED BY <3>1, <3>2, <1>1, <1>2, <1>3, <1>5 DEF Safe, PushUnwritten, At, InSection, Section
    <2>3. PushUnwritten' /\ RecordIsTrue'
      BY <2>2 DEF PushUnwritten, RecordIsTrue, At
    <2>4. RecordAge'
      <3>1. pods[p].target # "unset" /\ since \in Nat
        BY DEF TypeOK, Severity
      <3>2. QED BY <3>1, <1>3, <1>5 DEF RecordAge
    <2>5. PushDue'
      BY <2>2 DEF PushDue, At
    <2>6. QED BY <2>1, <2>3, <2>4, <2>5 DEF Safe
  <1>6. QED BY <1>4, <1>5 DEF Store

(* The lock is granted only when nobody has it.                            *)
LEMMA SafeAcquire ==
    ASSUME TypeOK, Safe, NEW p \in Pods, Acquire(p)
    PROVE  Safe'
  <1>1. /\ pods'[p].at \in {"recheck", "alert"} /\ \A q \in Pods : q # p => pods'[q] = pods[q]
        /\ failed \subseteq failed' /\ UNCHANGED <<stored, applied, since, recorded>>
    <2>1. CASE pods' = [pods EXCEPT ![p].at = "recheck", ![p].token = TRUE]
      BY <2>1 DEF TypeOK, Acquire, Fault, calls
    <2>2. CASE Goto(p, "alert") \/ Goto(p, "recheck")
      BY <2>2, GotoMoves DEF Stages, Section, Acquire, Fault, calls
    <2>3. QED BY <2>1, <2>2 DEF Acquire
  <1>2. CASE UNCHANGED lock /\ (pods'[p].at = "alert" \/ ~Exclusive')
    BY <1>1, <1>2, QuietMove DEF InSection, Section
  <1>3. CASE lock = NoLock /\ lock' = [owner |-> p, ttl |-> LockTtl] /\ pods'[p].token
    <2>1. LockHeld'
      BY <1>3, CrisisAssumption DEF LockHeld
    <2>2. OwnSection'
      <3>1. Exclusive' => \A q \in Pods : ~InSection(q)
        BY <1>1, <1>3, CrisisAssumption, ExclusiveBefore DEF Safe, OwnSection, NoLock, Holds
      <3>2. QED BY <1>1, <1>3, <3>1 DEF OwnSection, InSection, Holds
    <2>3. PushUnwritten' /\ RecordIsTrue' /\ RecordAge' /\ PushDue'
      BY <1>1, ExclusiveBefore DEF Safe, PushUnwritten, RecordIsTrue, RecordAge, PushDue, At
    <2>4. QED BY <2>1, <2>2, <2>3 DEF Safe
  <1>4. QED
    <2>1. Goto(p, "alert") => pods'[p].at = "alert"
      BY GotoMoves DEF Stages
    <2>2. pods' = [pods EXCEPT ![p].at = "recheck", ![p].token = TRUE] => pods'[p].token
      BY DEF TypeOK
    <2>3. QED BY <1>2, <1>3, <2>1, <2>2 DEF Acquire, Fault, Exclusive

(* Whoever deletes the lock is in the section, alone.                      *)
LEMMA SafeDelete ==
    ASSUME TypeOK, Safe, NEW p \in Pods, Delete(p)
    PROVE  Safe'
  <1>1. /\ pods'[p].at = "alert" /\ \A q \in Pods : q # p => pods'[q] = pods[q]
    BY GotoMoves DEF Delete, Stages
  <1>2. InSection(p) /\ lock' = NoLock /\ UNCHANGED <<failed, stored, applied, since, recorded>>
    BY DEF Delete, At, InSection, Section, calls
  <1>3. LockHeld'
    BY <1>2 DEF LockHeld
  <1>4. OwnSection'
    BY <1>1, <1>2, Alone, ExclusiveBefore DEF OwnSection, InSection, Section
  <1>5. PushUnwritten' /\ RecordIsTrue' /\ RecordAge' /\ PushDue'
    BY <1>1, <1>2, ExclusiveBefore DEF Safe, PushUnwritten, RecordIsTrue, RecordAge, PushDue, At
  <1>6. QED BY <1>3, <1>4, <1>5 DEF Safe

(* Time: a lock whose owner is in the section does not run out, and record *)
(* and push grow older together.                                           *)
LEMMA SafeTick ==
    ASSUME TypeOK, Safe, Tick
    PROVE  Safe'
  <1>1. failed \subseteq failed' /\ UNCHANGED <<pods, applied, recorded>>
    BY DEF Tick, Fault, calls
  <1>2. LockHeld' /\ (Exclusive' => \A p \in Pods : Holds(p) => lock'.owner = p)
    <2>1. CASE lock.ttl <= 1
      <3>1. lock' = NoLock
        BY <2>1 DEF Tick
      <3>2. ASSUME NEW p \in Pods, Holds(p), Exclusive' PROVE FALSE
        <4>1. Expiring
          BY <2>1, <3>2, CrisisAssumption DEF Safe, LockHeld, NoLock, Holds, Expiring
        <4>2. "slow" \in failed'
          BY <4>1 DEF Tick, Fault
        <4>3. QED BY <4>2, <3>2 DEF Exclusive
      <3>3. QED BY <3>1, <3>2 DEF LockHeld
    <2>2. CASE ~(lock.ttl <= 1)
      <3>1. lock' = [lock EXCEPT !.ttl = lock.ttl - 1]
        BY <2>2 DEF Tick
      <3>2. lock \in [owner : Pods \cup {NoPod}, ttl : 0 .. LockTtl] /\ lock # NoLock
        BY <2>2 DEF TypeOK, NoLock
      <3>3. lock'.owner = lock.owner
        BY <3>1, <3>2
      <3>4. LockHeld'
        BY <2>2, <3>1, <3>2, CrisisAssumption DEF Safe, LockHeld
      <3>5. QED BY <3>3, <3>4 DEF Holds
    <2>3. QED BY <2>1, <2>2
  <1>3. OwnSection'
    BY <1>1, <1>2, ExclusiveBefore DEF Safe, OwnSection, InSection, Holds
  <1>4. /\ stored'.status = stored.status /\ stored'.age = Older(stored.age)
        /\ stored.age \in 0 .. Cooldown /\ since \in 0 .. Cooldown /\ since' = Older(since)
    BY DEF Tick, TypeOK, States
  <1>5. PushUnwritten' /\ RecordIsTrue'
    BY <1>1, <1>4, ExclusiveBefore DEF Safe, PushUnwritten, RecordIsTrue, At
  <1>6. RecordAge' /\ PushDue'
    BY <1>1, <1>4, CrisisAssumption, ExclusiveBefore DEF Safe, RecordAge, PushDue, At, Older
  <1>7. QED BY <1>2, <1>3, <1>5, <1>6 DEF Safe

(* Every step of the pods and of time is safe.                             *)
LEMMA SafeStep == TypeOK /\ Safe /\ [Next]_vars => Safe'
  <1> SUFFICES ASSUME TypeOK, Safe, [Next]_vars PROVE Safe'
    OBVIOUS
  <1>1. ASSUME NEW p \in Pods, Assess(p) \/ Alert(p) \/ Crash(p) PROVE Safe'
    <2>1. /\ pods'[p].at \in {"idle", "read"} /\ \A q \in Pods : q # p => pods'[q] = pods[q]
      <3>1. CASE pods' = [pods EXCEPT ![p] = [Idle EXCEPT !.at = "read", !.target = trend]]
        BY <3>1 DEF Idle, TypeOK
      <3>2. CASE pods' = [pods EXCEPT ![p] = Idle]
        BY <3>2 DEF Idle, TypeOK
      <3>3. QED BY <1>1, <3>1, <3>2 DEF Assess, Alert, Crash
    <2>2. failed \subseteq failed' /\ UNCHANGED <<lock, stored, applied, since, recorded>>
      BY <1>1 DEF Assess, Alert, Crash, Fault, calls
    <2>3. QED BY <2>1, <2>2, QuietMove DEF InSection, Section
  <1>2. ASSUME NEW p \in Pods, Read(p) PROVE Safe'
    <2>1. PICK last : LastPushed(p, last) /\ Goto(p, IF Due(p, last) THEN "lock" ELSE "alert")
      BY <1>2 DEF Read
    <2>2. /\ pods'[p].at \in {"lock", "alert"} /\ \A q \in Pods : q # p => pods'[q] = pods[q]
      <3>1. Goto(p, "lock") \/ Goto(p, "alert")
        BY <2>1
      <3>2. QED BY <3>1, GotoMoves DEF Stages
    <2>3. failed \subseteq failed' /\ UNCHANGED <<lock, stored, applied, since, recorded>>
      BY <1>2, <2>1 DEF Read, LastPushed, Fault, calls
    <2>4. QED BY <2>2, <2>3, QuietMove DEF InSection, Section
  <1>3. ASSUME NEW p \in Pods, Release(p) PROVE Safe'
    <2>1. PICK where \in {"delete", "alert"} : Goto(p, where)
      BY <1>3 DEF Release
    <2>2. /\ pods'[p].at = where /\ (pods[p].token => pods'[p].token)
          /\ \A q \in Pods : q # p => pods'[q] = pods[q]
      BY <2>1, GotoMoves DEF Stages, Section
    <2>3. /\ InSection(p) /\ failed \subseteq failed'
          /\ UNCHANGED <<lock, stored, applied, since, recorded>>
      BY <1>3 DEF Release, Fault, calls, At, InSection, Section
    <2>4. QED BY <2>2, <2>3, QuietMove DEF InSection, Section
  <1>4. ASSUME NEW p \in Pods, Post(p) PROVE Safe'
    <2>1. At(p, "post") /\ failed \subseteq failed' /\ UNCHANGED <<lock, stored>>
      BY <1>4 DEF Post, Fault, calls
    <2>2. CASE Push(p) /\ (Goto(p, "store") \/ Goto(p, "release"))
      BY <2>1, <2>2, SafePush
    <2>3. CASE Goto(p, "release") /\ UNCHANGED <<applied, since, recorded>>
      <3>1. /\ pods'[p].at = "release" /\ (pods[p].token => pods'[p].token)
            /\ \A q \in Pods : q # p => pods'[q] = pods[q]
        BY <2>3, GotoMoves DEF Stages, Section
      <3>2. InSection(p)
        BY <2>1 DEF At, InSection, Section
      <3>3. QED BY <2>1, <2>3, <3>1, <3>2, QuietMove
    <2>4. QED BY <1>4, <2>2, <2>3 DEF Post
  <1>5. CASE Shift \/ UNCHANGED vars
    BY <1>5 DEF Shift, vars, calls, Safe, Exclusive, LockHeld, OwnSection, PushUnwritten, RecordIsTrue,
                RecordAge, PushDue, InSection, Holds, At
  <1>6. QED
    BY <1>1, <1>2, <1>3, <1>4, <1>5, SafeAcquire, SafeRecheck, SafeStore, SafeDelete, SafeTick
       DEF Next, PodStep

(* Locks and records tell the truth.                                       *)
LEMMA SafeInvariant == Spec => [](TypeOK /\ Safe)
  <1>1. TypeOK /\ Safe /\ [Next]_vars => (TypeOK /\ Safe)'
    BY TypeStep, SafeStep
  <1>2. QED BY TypeInit, SafeInit, <1>1, PTL DEF Spec

(***************************************************************************)
(* Of any number of pods two are between acquiring the lock and releasing  *)
(* it only after a SET of the lock failed or a section outlived its lock,  *)
(* though pods crash in it and the lock is deleted without a look at its   *)
(* owner.                                                                  *)
(***************************************************************************)
THEOREM OnePodInSection == Spec => []OneInSection
  <1>1. Safe => OneInSection
    BY DEF Safe, OwnSection, OneInSection, Holds
  <1>2. QED BY SafeInvariant, <1>1, PTL

(***************************************************************************)
(* Once the pod that pushed a status has written it down, the record in    *)
(* Redis is what project-srv took last, whatever fails but the lock's SET  *)
(* and as long as no section has outlived its lock.                        *)
(***************************************************************************)
THEOREM RecordTellsTruth == Spec => []RecordIsTrue
  BY SafeInvariant, PTL DEF Safe

(***************************************************************************)
(* Two pushes are a cooldown apart, whatever pods make them and however    *)
(* they crash, unless the first was not recorded, a read or a SET of the   *)
(* lock failed, or a section outlived its lock: the record is as young as  *)
(* the push, and the second check, in the section, sees it.                *)
(***************************************************************************)
THEOREM PushesKeepCooldown == Spec => CooldownKept
  <1>1. TypeOK /\ Safe /\ [Next]_vars =>
            [since' < since => \/ since = Cooldown
                               \/ ~ recorded
                               \/ "read" \in failed
                               \/ ~ Exclusive]_vars
    <2> SUFFICES ASSUME TypeOK, Safe, Next, since' < since, recorded,
                        Exclusive /\ "read" \notin failed
                 PROVE  since = Cooldown
      BY DEF TypeOK, vars
    <2>1. since \in 0 .. Cooldown
      BY DEF TypeOK
    <2>2. PICK p \in Pods : Post(p)
      <3>1. ASSUME Tick PROVE FALSE
        BY <3>1, <2>1, CrisisAssumption DEF Tick, Older
      <3>2. ASSUME Shift PROVE FALSE
        BY <3>2, <2>1 DEF Shift
      <3>3. ASSUME NEW q \in Pods, ~Post(q), PodStep(q) \/ Crash(q) PROVE FALSE
        <4>1. UNCHANGED since
          BY <3>3 DEF PodStep, Assess, Read, Acquire, Recheck, Store, Release, Delete, Alert, Crash
        <4>2. QED BY <4>1, <2>1
      <3>4. QED BY <3>1, <3>2, <3>3 DEF Next, PodStep
    <2>3. stored.age = Cooldown /\ stored.age <= since
      BY <2>2 DEF Post, Safe, PushDue, RecordAge
    <2>4. QED BY <2>1, <2>3, CrisisAssumption
  <1>2. QED BY <1>1, SafeInvariant, PTL DEF Spec, CooldownKept
==============================================================================
