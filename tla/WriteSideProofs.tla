---------------------------- MODULE WriteSideProofs --------------------------
(***************************************************************************)
(* Proofs about what pods write where others write too.  First             *)
(* PostInsight, for any number of pods, copies and failures: a post that   *)
(* has a row keeps one.  The row an upsert has updated is locked by it     *)
(* alone, so that no other upsert can have deleted it.                     *)
(*                                                                         *)
(* Then AutoOntology, for any number of pods, projects and phrases: sweeps *)
(* keep what an operator has set unless they race with the edit.  What a   *)
(* sweep is about to write was copied from the rules at its read, so an    *)
(* edit of its project since then is what puts them at risk.               *)
(***************************************************************************)
EXTENDS PostInsight, AutoOntology, FiniteSetTheorems, TLAPS

Holding(p) == upsert[p].at \in {"delete", "wipe"}

\* What the upserts hold: the row they keep, and what they have deleted.
LocksHeld ==
    \A p \in Pods : Holding(p) =>
        /\ upsert[p].row \in locked[p]
        /\ upsert[p].gone \subseteq locked[p] \ {upsert[p].row}

Exclusive == \A p, q \in Pods : p # q => locked[p] \cap locked[q] = {}

\* An upsert that only waits holds nothing; a DELETE excludes the row it keeps.
NothingElse ==
    \A p \in Pods : /\ ~ Holding(p) => locked[p] = {}
                    /\ upsert[p].row \notin upsert[p].copies
                    /\ upsert[p].at # "wipe" => upsert[p].gone = {} /\ upsert[p].copies = {}

Shape == /\ DOMAIN upsert = Pods /\ DOMAIN locked = Pods
         /\ \A p \in Pods : upsert[p] = [at |-> upsert[p].at, row |-> upsert[p].row,
                                         copies |-> upsert[p].copies,
                                         gone |-> upsert[p].gone]
         /\ upsert = [p \in Pods |-> upsert[p]] /\ locked = [p \in Pods |-> locked[p]]

Locks == Shape /\ LocksHeld /\ Exclusive /\ NothingElse /\ OwnRowStays

(* At the start no transaction holds a lock.                               *)
LEMMA LocksInit == Init => Locks
<1> SUFFICES ASSUME Init PROVE Locks
  OBVIOUS
<1>1. /\ upsert = [p \in Pods |-> Idle] /\ locked = [p \in Pods |-> {}]
      /\ \A p \in Pods : upsert[p] = Idle /\ locked[p] = {}
  BY DEF Init
<1>2. Shape
  BY <1>1 DEF Shape, Idle
<1>3. LocksHeld /\ Exclusive /\ NothingElse /\ OwnRowStays
  BY <1>1 DEF LocksHeld, Exclusive, NothingElse, OwnRowStays, Holding, Idle
<1> QED
  BY <1>2, <1>3 DEF Locks

\* An upsert ends without writing: its locks go.
LEMMA LocksReleased ==
  ASSUME Locks, NEW p \in Pods, table \subseteq table',
         upsert' = [upsert EXCEPT ![p] = Idle],
         locked' = [locked EXCEPT ![p] = {}]
  PROVE  Locks'
<1>1. /\ upsert'[p] = Idle /\ locked'[p] = {}
      /\ \A q \in Pods \ {p} : upsert'[q] = upsert[q] /\ locked'[q] = locked[q]
  BY DEF Locks, Shape
<1>2. Shape'
  BY <1>1 DEF Locks, Shape, Idle
<1>3. LocksHeld' /\ Exclusive' /\ OwnRowStays'
  BY <1>1 DEF Locks, LocksHeld, Exclusive, OwnRowStays, Holding, Idle
<1>4. NothingElse'
  BY <1>1 DEF Locks, NothingElse, Holding, Idle
<1> QED
  BY <1>2, <1>3, <1>4 DEF Locks

(* Every step keeps row locks with their transactions, and the row is never lost. *)
LEMMA LocksStep == Locks /\ [Next]_vars => Locks' /\ (table # {} => table' # {})
<1> SUFFICES ASSUME Locks, [Next]_vars
             PROVE  Locks' /\ (table # {} => table' # {})
  OBVIOUS
<1>a. Shape /\ LocksHeld /\ Exclusive /\ NothingElse /\ OwnRowStays
  BY DEF Locks
<1>1. ASSUME NEW p \in Pods, Begin(p) \/ Select(p)
      PROVE  Locks' /\ UNCHANGED table
  <2>1. /\ UNCHANGED <<table, locked>> /\ ~ Holding(p)
        /\ \A q \in Pods \ {p} : upsert'[q] = upsert[q]
    BY <1>1, <1>a DEF Begin, Select, At, Holding, Shape
  <2>2. /\ upsert'[p].copies = {} /\ upsert'[p].gone = {}
        /\ upsert'[p].at \in {"select", "insert", "update"}
        /\ Shape'
    <3>1. CASE Begin(p)
      <4>1. /\ upsert[p].copies = {} /\ upsert[p].gone = {}
            /\ upsert' = [upsert EXCEPT ![p].at = "select"] /\ UNCHANGED locked
        BY <3>1, <1>a DEF Begin, At, NothingElse
      <4> QED
        BY <4>1, <1>a DEF Shape
    <3>2. CASE Select(p)
      <4>a. PICK w, r :
                /\ w \in {"insert", "update"}
                /\ upsert' = [upsert EXCEPT
                       ![p] = [at |-> w, row |-> r, copies |-> {}, gone |-> {}]]
        <5> DEFINE new(w, r) == [at |-> w, row |-> r, copies |-> {}, gone |-> {}]
        <5>1. /\ [Idle EXCEPT !.at = "insert"] = new("insert", NoRow)
              /\ \A row : [Idle EXCEPT !.at = "update", !.row = row] = new("update", row)
          <6>1. [Idle EXCEPT !.at = "insert"] = new("insert", NoRow)
            BY ONLY DEF Idle
          <6>2. ASSUME NEW row
                PROVE  [Idle EXCEPT !.at = "update", !.row = row] = new("update", row)
            <7>1. [Idle EXCEPT !.at = "update"] = new("update", NoRow)
              BY ONLY DEF Idle
            <7>2. [new("update", NoRow) EXCEPT !.row = row] = new("update", row)
              OBVIOUS
            <7>3. [Idle EXCEPT !.at = "update", !.row = row]
                      = [[Idle EXCEPT !.at = "update"] EXCEPT !.row = row]
              BY ONLY Zenon
            <7>4. QED BY ONLY <7>1, <7>2, <7>3
          <6>3. QED BY ONLY <6>1, <6>2
        <5>2. \/ upsert' = [upsert EXCEPT ![p] = new("insert", NoRow)]
              \/ \E row \in table : upsert' = [upsert EXCEPT ![p] = new("update", row)]
          <6> HIDE DEF new
          <6>1. QED BY ONLY <3>2, <5>1 DEF Select
        <5> HIDE DEF new
        <5>3. QED BY ONLY <5>2 DEF new
      <4>1. /\ UNCHANGED locked
            /\ upsert' = [upsert EXCEPT ![p] = upsert'[p]]
            /\ upsert'[p] = [at |-> w, row |-> r, copies |-> {}, gone |-> {}]
        BY ONLY <1>a, <2>1, <4>a, <3>2 DEF Shape
      <4>2. upsert'[p].copies = {} /\ upsert'[p].gone = {} /\ upsert'[p].at \in {"insert", "update"}
        BY ONLY <4>a, <4>1
      <4>3. Shape'
        BY ONLY <4>1, <1>a DEF Shape
      <4> QED
        BY ONLY <4>2, <4>3
    <3> QED
      BY <3>1, <3>2, <1>1
  <2>3. ~ Holding(p)'
    BY <2>2 DEF Holding
  <2>4. LocksHeld' /\ OwnRowStays'
    BY <2>1, <2>2, <2>3, <1>a DEF LocksHeld, OwnRowStays, Holding
  <2>5. Exclusive'
    BY <2>1, <1>a DEF Exclusive
  <2>6. NothingElse'
    BY <2>1, <2>2, <2>3, <1>a DEF NothingElse, Holding
  <2> QED
    BY <2>1, <2>2, <2>4, <2>5, <2>6 DEF Locks
<1>2. ASSUME NEW p \in Pods, Update(p)
      PROVE  Locks' /\ UNCHANGED table
  <2> DEFINE row == upsert[p].row
  <2>1. /\ UNCHANGED table /\ row \in table /\ upsert[p].at = "update"
        /\ upsert'[p] = [upsert[p] EXCEPT !.at = "delete"] /\ locked'[p] = {row}
        /\ \A q \in Pods \ {p} : /\ upsert'[q] = upsert[q] /\ locked'[q] = locked[q]
                                 /\ row \notin locked[q]
    BY <1>2, <1>a DEF Update, At, Shape, LockedByOther
  <2>2. /\ upsert'[p].at = "delete" /\ upsert'[p].row = row
        /\ upsert'[p].copies = {} /\ upsert'[p].gone = {}
    BY <2>1, <1>a DEF Shape, NothingElse
  <2>3. Shape'
    BY <1>2, <1>a DEF Update, Shape
  <2>4. LocksHeld' /\ OwnRowStays'
    BY <2>1, <2>2, <1>a DEF LocksHeld, OwnRowStays, Holding
  <2>5. Exclusive'
    BY <2>1, <1>a DEF Exclusive
  <2>6. NothingElse'
    BY <2>1, <2>2, <1>a DEF NothingElse, Holding
  <2> QED
    BY <2>1, <2>3, <2>4, <2>5, <2>6 DEF Locks
<1>3. ASSUME NEW p \in Pods, StartDelete(p)
      PROVE  Locks' /\ UNCHANGED table
  <2>1. /\ UNCHANGED <<table, locked>> /\ upsert[p].at = "delete"
        /\ upsert'[p] = [upsert[p] EXCEPT !.at = "wipe", !.copies = table \ {upsert[p].row}]
        /\ \A q \in Pods \ {p} : upsert'[q] = upsert[q]
    BY <1>3, <1>a DEF StartDelete, At, Shape
  <2>2. /\ upsert'[p].at = "wipe" /\ upsert'[p].row = upsert[p].row
        /\ upsert'[p].copies = table \ {upsert[p].row}
        /\ upsert'[p].gone = upsert[p].gone
    BY <2>1, <1>a DEF Shape
  <2>3. Shape'
    BY <1>3, <1>a DEF StartDelete, Shape
  <2>4. LocksHeld' /\ OwnRowStays'
    BY <2>1, <2>2, <1>a DEF LocksHeld, OwnRowStays, Holding
  <2>5. Exclusive'
    BY <2>1, <1>a DEF Exclusive
  <2>6. NothingElse'
    BY <2>1, <2>2, <1>a DEF NothingElse, Holding
  <2> QED
    BY <2>1, <2>3, <2>4, <2>5, <2>6 DEF Locks
<1>4. ASSUME NEW p \in Pods, Wipe(p)
      PROVE  Locks' /\ UNCHANGED table
  <2>1. PICK row \in upsert[p].copies :
          /\ ~ LockedByOther(p, row)
          /\ upsert' = [upsert EXCEPT ![p] =
               [at |-> "wipe", row |-> upsert[p].row,
                copies |-> upsert[p].copies \ {row},
                gone |-> upsert[p].gone \cup ({row} \cap table)]]
          /\ locked' = [locked EXCEPT ![p] = locked[p] \cup ({row} \cap table)]
    BY <1>4 DEF Wipe
  <2> DEFINE hit == {row} \cap table
  <2>2. /\ UNCHANGED table /\ upsert[p].at = "wipe"
        /\ \A q \in Pods \ {p} : /\ upsert'[q] = upsert[q] /\ locked'[q] = locked[q]
                                 /\ row \notin locked[q]
        /\ locked'[p] = locked[p] \cup hit
    BY <1>4, <2>1, <1>a DEF Wipe, At, Shape, LockedByOther
  <2>3. /\ upsert'[p].at = "wipe" /\ upsert'[p].row = upsert[p].row
        /\ upsert'[p].copies = upsert[p].copies \ {row}
        /\ upsert'[p].gone = upsert[p].gone \cup hit
    BY <2>1, <1>a DEF Shape
  <2>s. Shape'
    <3>1. locked' = [locked EXCEPT ![p] = locked'[p]]
      BY <2>1, <1>a DEF Shape
    <3> HIDE DEF hit
    <3> QED
      BY <3>1, <2>1, <1>a DEF Shape
  <2>4. upsert[p].row \notin hit
    BY <2>1, <1>a DEF NothingElse
  <2>5. LocksHeld' /\ OwnRowStays'
    BY <2>2, <2>3, <2>4, <1>a DEF LocksHeld, OwnRowStays, Holding
  <2>6. Exclusive'
    BY <2>2, <1>a DEF Exclusive
  <2>7. NothingElse'
    BY <2>2, <2>3, <1>a DEF NothingElse, Holding
  <2> QED
    BY <2>2, <2>s, <2>5, <2>6, <2>7 DEF Locks
<1>5. ASSUME NEW p \in Pods, CommitUpdate(p)
      PROVE  Locks' /\ table' # {}
  <2>1. /\ Holding(p) /\ table' = table \ upsert[p].gone
        /\ upsert' = [upsert EXCEPT ![p] = Idle]
        /\ locked' = [locked EXCEPT ![p] = {}]
    BY <1>5 DEF CommitUpdate, At, Holding
  <2>2. /\ upsert'[p] = Idle /\ locked'[p] = {}
        /\ \A q \in Pods \ {p} : upsert'[q] = upsert[q] /\ locked'[q] = locked[q]
    BY <2>1, <1>a DEF Shape
  <2>3. upsert[p].row \in table'
    BY <2>1, <1>a DEF LocksHeld, OwnRowStays, Holding
  <2>4. OwnRowStays'
    BY <2>1, <2>2, <1>a DEF LocksHeld, OwnRowStays, Exclusive, Holding, Idle
  <2>5. Shape'
    BY <2>1, <2>2, <1>a DEF Shape, Idle
  <2>6. LocksHeld' /\ Exclusive' /\ NothingElse'
    BY <2>2, <1>a DEF LocksHeld, Exclusive, NothingElse, Holding, Idle
  <2> QED
    BY <2>3, <2>4, <2>5, <2>6 DEF Locks
<1>6. ASSUME NEW p \in Pods, Insert(p)
      PROVE  Locks' /\ table' # {}
  <2>1. /\ ~ Holding(p) /\ UNCHANGED locked
        /\ upsert' = [upsert EXCEPT ![p] = Idle]
        /\ table \subseteq table' /\ table' # {}
    BY <1>6 DEF Insert, At, Holding
  <2>2. locked' = [locked EXCEPT ![p] = {}]
    BY <2>1, <1>a DEF Shape, NothingElse
  <2> QED
    BY <2>1, <2>2, LocksReleased
<1>7. ASSUME NEW p \in Pods, UpdateStale(p) \/ Deadlock(p) \/ Fail(p)
      PROVE  Locks' /\ UNCHANGED table
  <2>1. Rollback(p)
    BY <1>7 DEF UpdateStale, Deadlock, Fail
  <2> QED
    BY <2>1, LocksReleased DEF Rollback
<1>8. CASE UNCHANGED vars
  BY <1>8, <1>a DEF vars, Locks, Shape, LocksHeld, Exclusive, NothingElse,
                    OwnRowStays, Holding
<1> QED
  BY <1>1, <1>2, <1>3, <1>4, <1>5, <1>6, <1>7, <1>8 DEF Next, Step

(* Every step keeps the types.                                             *)
LEMMA TypesStep == TypeOK /\ [Next]_vars => TypeOK'
<1> SUFFICES ASSUME TypeOK, [Next]_vars PROVE TypeOK'
  OBVIOUS
<1> DEFINE Upserts == [at : Stages, row : RowIds \cup {NoRow},
                       copies : SUBSET RowIds, gone : SUBSET RowIds]
<1>a. /\ table \subseteq RowIds /\ upsert \in [Pods -> Upserts]
      /\ locked \in [Pods -> SUBSET RowIds] /\ faults \in Nat
  BY DEF TypeOK
<1>b. Idle \in Upserts /\ {} \in SUBSET RowIds
  BY DEF Idle, Stages
<1>1. ASSUME NEW p \in Pods, Begin(p) PROVE TypeOK'
  <2>1. [upsert[p] EXCEPT !.at = "select"] \in Upserts
    BY <1>a DEF Stages
  <2>2. upsert' = [upsert EXCEPT ![p] = [upsert[p] EXCEPT !.at = "select"]]
    BY <1>1, <1>a DEF Begin
  <2> HIDE DEF Upserts
  <2>3. upsert' \in [Pods -> Upserts]
    BY <1>a, <2>1, <2>2
  <2> QED
    BY <1>1, <1>a, <2>3 DEF Begin, TypeOK, Upserts
<1>2. ASSUME NEW p \in Pods, Select(p) PROVE TypeOK'
  <2>1. PICK u : u \in Upserts /\ upsert' = [upsert EXCEPT ![p] = u]
    <3>1. [Idle EXCEPT !.at = "insert"] \in Upserts
      BY DEF Idle, Stages
    <3>2. \A row \in table : [Idle EXCEPT !.at = "update", !.row = row] \in Upserts
      BY <1>a DEF Idle, Stages
    <3> HIDE DEF Upserts
    <3> QED
      BY <1>2, <3>1, <3>2 DEF Select
  <2> HIDE DEF Upserts
  <2>2. upsert' \in [Pods -> Upserts]
    BY <1>a, <2>1
  <2> QED
    BY <1>2, <1>a, <2>2 DEF Select, TypeOK, Upserts
<1>3. ASSUME NEW p \in Pods, Update(p) PROVE TypeOK'
  <2>1. [upsert[p] EXCEPT !.at = "delete"] \in Upserts
    BY <1>a DEF Stages
  <2>2. /\ upsert' = [upsert EXCEPT ![p] = [upsert[p] EXCEPT !.at = "delete"]]
        /\ locked' = [locked EXCEPT ![p] = {upsert[p].row}] /\ {upsert[p].row} \in SUBSET RowIds
    BY <1>3, <1>a DEF Update
  <2> HIDE DEF Upserts
  <2>3. upsert' \in [Pods -> Upserts] /\ locked' \in [Pods -> SUBSET RowIds]
    BY <1>a, <2>1, <2>2
  <2> QED
    BY <1>3, <1>a, <2>3 DEF Update, TypeOK, Upserts
<1>4. ASSUME NEW p \in Pods, StartDelete(p) PROVE TypeOK'
  <2>1. [upsert[p] EXCEPT !.at = "wipe", !.copies = table \ {upsert[p].row}] \in Upserts
    BY <1>a DEF Stages
  <2>2. upsert' = [upsert EXCEPT ![p] =
          [upsert[p] EXCEPT !.at = "wipe", !.copies = table \ {upsert[p].row}]]
    BY <1>4, <1>a DEF StartDelete
  <2> HIDE DEF Upserts
  <2>3. upsert' \in [Pods -> Upserts]
    BY <1>a, <2>1, <2>2
  <2> QED
    BY <1>4, <1>a, <2>3 DEF StartDelete, TypeOK, Upserts
<1>5. ASSUME NEW p \in Pods, Wipe(p) PROVE TypeOK'
  <2>1. PICK row \in upsert[p].copies :
          /\ upsert' = [upsert EXCEPT ![p] =
               [at |-> "wipe", row |-> upsert[p].row,
                copies |-> upsert[p].copies \ {row},
                gone |-> upsert[p].gone \cup ({row} \cap table)]]
          /\ locked' = [locked EXCEPT ![p] = locked[p] \cup ({row} \cap table)]
    BY <1>5 DEF Wipe
  <2>2. [at |-> "wipe", row |-> upsert[p].row, copies |-> upsert[p].copies \ {row},
         gone |-> upsert[p].gone \cup ({row} \cap table)] \in Upserts
    BY <1>a DEF Stages
  <2>3. locked[p] \cup ({row} \cap table) \in SUBSET RowIds
    BY <1>a
  <2> HIDE DEF Upserts
  <2>4. upsert' \in [Pods -> Upserts] /\ locked' \in [Pods -> SUBSET RowIds]
    BY <1>a, <2>1, <2>2, <2>3
  <2> QED
    BY <1>5, <1>a, <2>4 DEF Wipe, TypeOK, Upserts
<1>6. ASSUME NEW p \in Pods, upsert' = [upsert EXCEPT ![p] = Idle],
             locked' = [locked EXCEPT ![p] = {}] \/ UNCHANGED locked,
             table' \subseteq RowIds, faults' \in Nat
      PROVE  TypeOK'
  <2> HIDE DEF Upserts
  <2>1. upsert' \in [Pods -> Upserts] /\ locked' \in [Pods -> SUBSET RowIds]
    BY <1>6, <1>a, <1>b
  <2> QED
    BY <1>6, <2>1 DEF TypeOK, Upserts
<1>7. ASSUME NEW p \in Pods,
             CommitUpdate(p) \/ Insert(p) \/ UpdateStale(p) \/ Deadlock(p) \/ Fail(p)
      PROVE  TypeOK'
  <2>1. table' \subseteq RowIds /\ faults' \in Nat
    BY <1>7, <1>a DEF CommitUpdate, Insert, UpdateStale, Deadlock, Fail, Rollback
  <2>2. /\ upsert' = [upsert EXCEPT ![p] = Idle]
        /\ locked' = [locked EXCEPT ![p] = {}] \/ UNCHANGED locked
    BY <1>7 DEF CommitUpdate, Insert, UpdateStale, Deadlock, Fail, Rollback
  <2> QED
    BY <1>6, <2>1, <2>2
<1>8. CASE UNCHANGED vars
  BY <1>8, <1>a DEF vars, TypeOK
<1> QED
  BY <1>1, <1>2, <1>3, <1>4, <1>5, <1>7, <1>8 DEF Next, Step

(* Row locks are held by one transaction in every state.                   *)
LEMMA AlwaysLocks == Spec => []Locks
<1>1. Init => Locks
  BY LocksInit
<1>2. Locks /\ [Next]_vars => Locks'
  BY LocksStep
<1> QED
  BY <1>1, <1>2, PTL DEF Spec

(***************************************************************************)
(* Table, upserts and locks keep their types (post_insight.py: upsert).    *)
(***************************************************************************)
THEOREM RowsKeepTypes == Spec => []TypeOK
<1>1. Init => TypeOK
  <2> SUFFICES ASSUME Init PROVE TypeOK
    OBVIOUS
  <2>1. Idle \in [at : Stages, row : RowIds \cup {NoRow},
                  copies : SUBSET RowIds, gone : SUBSET RowIds]
    BY DEF Idle, Stages
  <2>2. table \subseteq RowIds
    BY PostInsightAssumption DEF Init, RowIds
  <2> QED
    BY <2>1, <2>2 DEF Init, TypeOK
<1>2. TypeOK /\ [Next]_vars => TypeOK'
  BY TypesStep
<1> QED
  BY <1>1, <1>2, PTL DEF Spec

(***************************************************************************)
(* The row an upsert has updated is still there when it commits            *)
(* (post_insight.py: UPDATE, then DELETE of the copies, then COMMIT).      *)
(***************************************************************************)
THEOREM UpdatedRowStays == Spec => []OwnRowStays
<1>1. Locks => OwnRowStays
  BY DEF Locks
<1> QED
  BY <1>1, AlwaysLocks, PTL

(***************************************************************************)
(* No interleaving of upserts leaves a post without a row                  *)
(* (post_insight.py: upsert).                                              *)
(***************************************************************************)
THEOREM PostKeepsARow == Spec => NeverEmptied
<1>1. Locks /\ [Next]_vars => [table # {} => table' # {}]_vars
  BY LocksStep
<1> QED
  BY <1>1, AlwaysLocks, PTL DEF Spec, NeverEmptied

-----------------------------------------------------------------------------
\* What fits into the group of suggestions.
Batch(k) == k \in SUBSET Phrases /\ Cardinality(k) <= TopKeywords

RulesShape ==
    /\ spoken \in [Projects -> SUBSET Phrases]
    /\ rules \in [Projects -> Rules]
    /\ saved \in [Projects -> Rules]
    /\ raced \in [Projects -> BOOLEAN]
    /\ DOMAIN sweep = Sweepers
    /\ \A d \in Sweepers :
          /\ sweep[d].at \in {"idle", "found", "read"}
          /\ sweep[d].at # "idle" => sweep[d].project \in Projects
          /\ sweep[d].at = "found" => Batch(sweep[d].keywords)
          /\ sweep[d].at = "read" => sweep[d].new \in Rules

Keeps(r, x) == r.manual = saved[x].manual /\ r.enabled = saved[x].enabled

\* A sweep that has read a project's rules writes what was set last.
SweepsKeep ==
    \A d \in Sweepers : sweep[d].at = "read" /\ ~raced[sweep[d].project] =>
                        Keeps(sweep[d].new, sweep[d].project)

EditsKept == \A x \in Projects : ~raced[x] => Keeps(rules[x], x)

Inv == RulesShape /\ SweepsKeep /\ EditsKept

(* No suggestions are a batch of them.                                     *)
LEMMA EmptyBatch == Batch({})
  BY AutoOntologyAssumption, FS_EmptySet DEF Batch

(* Suggestions without some are a batch still.                             *)
LEMMA SmallerBatch ==
    ASSUME NEW k, Batch(k), NEW s \in SUBSET k
    PROVE  Batch(s)
  <1>1. IsFiniteSet(k)
    BY AutoOntologyAssumption, FS_Subset DEF Batch
  <1>2. Cardinality(s) <= Cardinality(k) /\ Cardinality(s) \in Nat /\ Cardinality(k) \in Nat
    BY <1>1, FS_Subset, FS_CardinalityType
  <1>3. QED BY <1>2, AutoOntologyAssumption DEF Batch

(* The best of what was said are a batch.                                  *)
LEMMA BestBatch ==
    ASSUME NEW said \in SUBSET Phrases, NEW k \in Best(said)
    PROVE  Batch(k)
  <1>1. Cardinality(k) \in Nat
    BY AutoOntologyAssumption, FS_Subset, FS_CardinalityType DEF Best
  <1>2. QED BY <1>1, AutoOntologyAssumption DEF Best, Batch

(* A project without rules has the type of rules.                          *)
LEMMA NoRulesAreRules == NoRules \in Rules
  BY EmptyBatch DEF NoRules, Rules, Batch

(* The invariant holds at the start.                                       *)
LEMMA InvInit == OntologyInit => Inv
  <1> SUFFICES ASSUME OntologyInit PROVE Inv
    OBVIOUS
  <1>1. NoRules \in Rules
    BY NoRulesAreRules
  <1>2. \A d \in Sweepers : sweep[d] = NoSweep
    BY DEF OntologyInit
  <1>3. \A d \in Sweepers : sweep[d].at = "idle"
    BY <1>2 DEF NoSweep
  <1>4. RulesShape
    BY <1>1, <1>3 DEF OntologyInit, RulesShape
  <1>5. SweepsKeep
    BY <1>3 DEF SweepsKeep
  <1>6. EditsKept
    BY DEF OntologyInit, EditsKept, Keeps
  <1>7. QED BY <1>4, <1>5, <1>6 DEF Inv

(* A sweep goes idle, and with it what it was about to write.              *)
LEMMA InvSkips ==
    ASSUME Inv, NEW d \in Sweepers, Skips(d), UNCHANGED <<spoken, rules, saved>>,
           raced' \in [Projects -> BOOLEAN], \A x \in Projects : raced[x] => raced'[x]
    PROVE  Inv'
  <1>1. /\ DOMAIN sweep' = Sweepers /\ sweep'[d].at = "idle"
        /\ \A e \in Sweepers : e # d => sweep'[e] = sweep[e]
    BY DEF Inv, RulesShape, Skips, NoSweep
  <1>2. RulesShape'
    BY <1>1 DEF Inv, RulesShape
  <1>3. SweepsKeep'
    BY <1>1 DEF Inv, RulesShape, SweepsKeep, Keeps
  <1>4. EditsKept'
    BY DEF Inv, EditsKept, Keeps
  <1>5. QED BY <1>2, <1>3, <1>4 DEF Inv

(* A merge copies manual rules and switch of the rules it is given.        *)
LEMMA InvMerge ==
    ASSUME Inv, NEW d \in Sweepers, sweep[d].at = "found", NEW r \in Rules, Merge(d, r),
           UNCHANGED <<spoken, rules, saved>>,
           raced' \in [Projects -> BOOLEAN], \A x \in Projects : raced[x] => raced'[x],
           ~raced'[sweep[d].project] => Keeps(r, sweep[d].project)
    PROVE  Inv'
  <1> DEFINE fresh == sweep[d].keywords \ Known(r)
             merged == [r EXCEPT !.auto = fresh]
  <1>1. CASE Skips(d)
    BY <1>1, InvSkips
  <1>2. CASE Writes(d, merged)
    <2>1. sweep[d].project \in Projects /\ Batch(sweep[d].keywords)
      BY DEF Inv, RulesShape
    <2>2. /\ merged \in Rules /\ merged.manual = r.manual /\ merged.enabled = r.enabled
      <3>1. Batch(fresh)
        BY <2>1, SmallerBatch
      <3> HIDE DEF fresh
      <3>2. QED BY <3>1 DEF Rules, Batch
    <2>3. /\ DOMAIN sweep' = Sweepers /\ sweep'[d].at = "read" /\ sweep'[d].new = merged
          /\ sweep'[d].project = sweep[d].project
          /\ \A e \in Sweepers : e # d => sweep'[e] = sweep[e]
      <3> HIDE DEF merged
      <3>1. QED BY <1>2 DEF Inv, RulesShape, Writes
    <2> HIDE DEF merged
    <2>4. RulesShape'
      BY <2>1, <2>2, <2>3 DEF Inv, RulesShape
    <2>5. SweepsKeep'
      BY <2>1, <2>2, <2>3 DEF Inv, RulesShape, SweepsKeep, Keeps
    <2>6. EditsKept'
      BY DEF Inv, EditsKept, Keeps
    <2>7. QED BY <2>4, <2>5, <2>6 DEF Inv
  <1>3. QED BY <1>1, <1>2 DEF Merge

(* Reads, sweeps and edits keep the invariant.                             *)
LEMMA InvStep == Inv /\ [OntologyNext]_ontologyVars => Inv'
  <1> SUFFICES ASSUME Inv, [OntologyNext]_ontologyVars PROVE Inv'
    OBVIOUS
  <1>1. ASSUME NEW x \in Projects, Post(x) PROVE Inv'
    BY <1>1 DEF Post, Inv, RulesShape, SweepsKeep, EditsKept, Keeps
  <1>2. ASSUME NEW x \in Projects, Edit(x) PROVE Inv'
    <2>1. PICK r : /\ rules' = [rules EXCEPT ![x] = r] /\ saved' = [saved EXCEPT ![x] = r]
                   /\ r \in Rules
      <3>1. PICK manual \in SUBSET Phrases, auto \in SUBSET rules[x].auto, on \in BOOLEAN :
                LET r == [manual |-> manual, auto |-> auto, enabled |-> on]
                IN  rules' = [rules EXCEPT ![x] = r] /\ saved' = [saved EXCEPT ![x] = r]
        BY <1>2 DEF Edit
      <3>2. Batch(rules[x].auto)
        BY DEF Inv, RulesShape, Rules, Batch
      <3>3. Batch(auto)
        BY <3>2, SmallerBatch
      <3>4. [manual |-> manual, auto |-> auto, enabled |-> on] \in Rules
        BY <3>3 DEF Rules, Batch
      <3>5. QED BY <3>1, <3>4
    <2>2. /\ raced' = [raced EXCEPT ![x] = \E d \in Sweepers : Holds(d, x)] /\ UNCHANGED <<spoken, sweep>>
      BY <1>2 DEF Edit
    <2>3. /\ rules' \in [Projects -> Rules] /\ saved' \in [Projects -> Rules]
          /\ raced' \in [Projects -> BOOLEAN]
          /\ rules'[x] = r /\ saved'[x] = r
          /\ raced'[x] <=> \E d \in Sweepers : Holds(d, x)
          /\ \A y \in Projects : y # x => /\ rules'[y] = rules[y] /\ saved'[y] = saved[y]
                                          /\ raced'[y] = raced[y]
      BY <2>1, <2>2 DEF Inv, RulesShape
    <2>4. RulesShape'
      BY <2>2, <2>3 DEF Inv, RulesShape
    <2>5. SweepsKeep'
      BY <2>2, <2>3 DEF Inv, RulesShape, SweepsKeep, Keeps, Holds
    <2>6. EditsKept'
      BY <2>3 DEF Inv, EditsKept, Keeps
    <2>7. QED BY <2>4, <2>5, <2>6 DEF Inv
  <1>3. ASSUME NEW d \in Sweepers, Wake(d) PROVE Inv'
    BY <1>3 DEF Wake, Inv, RulesShape, SweepsKeep, EditsKept, Keeps
  <1>4. ASSUME NEW d \in Sweepers, NEW x \in Projects, Discover(d, x) PROVE Inv'
    <2>1. PICK k \in Best(spoken[x]) :
             sweep' = [sweep EXCEPT ![d] =
                IF k = {} THEN NoSweep ELSE [at |-> "found", project |-> x, keywords |-> k]]
      BY <1>4 DEF Discover
    <2>2. UNCHANGED <<spoken, rules, saved, raced>>
      BY <1>4 DEF Discover
    <2>3. CASE k = {}
      <3>1. Skips(d)
        BY <2>1, <2>3 DEF Skips
      <3>2. QED BY <2>2, <3>1, InvSkips DEF Inv, RulesShape
    <2>4. CASE k # {}
      <3>1. /\ DOMAIN sweep' = Sweepers /\ sweep'[d].at = "found" /\ sweep'[d].project = x
            /\ sweep'[d].keywords = k
            /\ \A e \in Sweepers : e # d => sweep'[e] = sweep[e]
        BY <2>1, <2>4 DEF Inv, RulesShape
      <3>2. Batch(k)
        BY BestBatch DEF Inv, RulesShape
      <3>3. RulesShape'
        BY <2>2, <3>1, <3>2 DEF Inv, RulesShape
      <3>4. SweepsKeep'
        BY <2>2, <3>1 DEF Inv, RulesShape, SweepsKeep, Keeps
      <3>5. EditsKept'
        BY <2>2 DEF Inv, EditsKept, Keeps
      <3>6. QED BY <3>3, <3>4, <3>5 DEF Inv
    <2>5. QED BY <2>3, <2>4
  <1>5. ASSUME NEW d \in Sweepers, Read(d) PROVE Inv'
    <2>1. /\ sweep[d].at = "found" /\ Merge(d, rules[sweep[d].project])
          /\ UNCHANGED <<spoken, rules, saved, raced>>
      BY <1>5 DEF Read
    <2>2. rules[sweep[d].project] \in Rules
      BY <2>1 DEF Inv, RulesShape
    <2>3. ~raced'[sweep[d].project] => Keeps(rules[sweep[d].project], sweep[d].project)
      BY <2>1 DEF Inv, RulesShape, EditsKept
    <2>4. QED BY <2>1, <2>2, <2>3, InvMerge DEF Inv, RulesShape
  <1>6. ASSUME NEW d \in Sweepers, ReadFails(d) PROVE Inv'
    <2>1. /\ sweep[d].at = "found" /\ Merge(d, NoRules)
          /\ UNCHANGED <<spoken, rules, saved>>
          /\ raced' = [raced EXCEPT ![sweep[d].project] = TRUE]
      BY <1>6 DEF ReadFails
    <2>2. NoRules \in Rules
      BY NoRulesAreRules
    <2>3. /\ raced' \in [Projects -> BOOLEAN] /\ raced'[sweep[d].project]
          /\ \A x \in Projects : raced[x] => raced'[x]
      BY <2>1 DEF Inv, RulesShape
    <2>4. QED BY <2>1, <2>2, <2>3, InvMerge
  <1>7. ASSUME NEW d \in Sweepers, Write(d) PROVE Inv'
    <2> DEFINE x == sweep[d].project
    <2>1. /\ sweep[d].at = "read" /\ rules' = [rules EXCEPT ![x] = sweep[d].new]
          /\ Skips(d) /\ UNCHANGED <<spoken, saved, raced>>
      BY <1>7 DEF Write
    <2>2. x \in Projects /\ sweep[d].new \in Rules
          /\ (~raced[x] => Keeps(sweep[d].new, x))
      BY <2>1 DEF Inv, RulesShape, SweepsKeep
    <2>3. /\ rules' \in [Projects -> Rules] /\ rules'[x] = sweep[d].new
          /\ \A y \in Projects : y # x => rules'[y] = rules[y]
      BY <2>1, <2>2 DEF Inv, RulesShape
    <2>4. /\ DOMAIN sweep' = Sweepers /\ sweep'[d].at = "idle"
          /\ \A e \in Sweepers : e # d => sweep'[e] = sweep[e]
      BY <2>1 DEF Inv, RulesShape, Skips, NoSweep
    <2>5. RulesShape'
      BY <2>1, <2>3, <2>4 DEF Inv, RulesShape
    <2>6. SweepsKeep'
      BY <2>1, <2>4 DEF Inv, RulesShape, SweepsKeep, Keeps
    <2>7. EditsKept'
      BY <2>1, <2>2, <2>3 DEF Inv, EditsKept, Keeps
    <2>8. QED BY <2>5, <2>6, <2>7 DEF Inv
  <1>8. ASSUME NEW d \in Sweepers, SweepFails(d) \/ Restart(d) PROVE Inv'
    BY <1>8, InvSkips DEF SweepFails, Restart, Inv, RulesShape
  <1>9. CASE UNCHANGED ontologyVars
    BY <1>9 DEF ontologyVars, Inv, RulesShape, SweepsKeep, EditsKept, Keeps
  <1>10. QED BY <1>1, <1>2, <1>3, <1>4, <1>5, <1>6, <1>7, <1>8, <1>9 DEF OntologyNext, RunOnce

(***************************************************************************)
(* Rules and switch stay as they were last set, whatever pods, sweeps and  *)
(* failures there are, unless an edit meets a sweep or a read fails.       *)
(* [updater.py:254-286]                                                    *)
(***************************************************************************)
THEOREM EditsSurviveSweeps == OntologySpec => []OnlyRacesLoseEdits
  <1>1. Inv => OnlyRacesLoseEdits
    BY DEF Inv, EditsKept, Keeps, OnlyRacesLoseEdits
  <1>2. QED BY InvInit, InvStep, <1>1, PTL DEF OntologySpec

Counted ==
    /\ todo \in [Sweepers -> SUBSET Projects]
    /\ posted \in 0 .. MaxPosts /\ edited \in 0 .. MaxEdits /\ mishaps \in 0 .. MaxMishaps

(* Posts, edits and mishaps stay within their bounds.                        *)
LEMMA CountedInvariant == OntologySpec => []Counted
  <1>1. OntologyInit => Counted
    BY AutoOntologyAssumption DEF OntologyInit, Counted
  <1>2. Counted /\ [OntologyNext]_ontologyVars => Counted'
    <2> SUFFICES ASSUME Counted, [OntologyNext]_ontologyVars PROVE Counted'
      OBVIOUS
    <2> USE AutoOntologyAssumption DEF Counted
    <2>1. ASSUME NEW x \in Projects, Post(x) PROVE Counted'
      BY <2>1 DEF Post
    <2>2. ASSUME NEW x \in Projects, Edit(x) PROVE Counted'
      BY <2>2 DEF Edit
    <2>3. ASSUME NEW d \in Sweepers, Wake(d) PROVE Counted'
      BY <2>3 DEF Wake
    <2>4. ASSUME NEW d \in Sweepers, NEW x \in Projects, Discover(d, x) PROVE Counted'
      BY <2>4 DEF Discover
    <2>5. ASSUME NEW d \in Sweepers, Read(d) \/ Write(d) PROVE Counted'
      BY <2>5 DEF Read, Write
    <2>6. ASSUME NEW d \in Sweepers, ReadFails(d) \/ SweepFails(d) \/ Restart(d) PROVE Counted'
      BY <2>6 DEF ReadFails, SweepFails, Restart
    <2>7. CASE UNCHANGED ontologyVars
      BY <2>7 DEF ontologyVars
    <2>8. QED BY <2>1, <2>2, <2>3, <2>4, <2>5, <2>6, <2>7 DEF OntologyNext, RunOnce
  <1>3. QED BY <1>1, <1>2, PTL DEF OntologySpec

(***************************************************************************)
(* A project never has more than TopKeywords suggestions: the group is     *)
(* replaced, not added to, and only one batch goes in.  [updater.py:273]   *)
(***************************************************************************)
THEOREM SuggestionsStayBounded == OntologySpec => []OntologyTypeOK
  <1>1. Inv /\ Counted => OntologyTypeOK
    BY DEF Inv, RulesShape, Counted, OntologyTypeOK
  <1>2. OntologySpec => []Inv
    BY InvInit, InvStep, PTL DEF OntologySpec
  <1>3. QED BY <1>1, <1>2, CountedInvariant, PTL
=============================================================================
