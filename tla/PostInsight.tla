----------------------------- MODULE PostInsight -----------------------------
(***************************************************************************)
(* The upsert of one post's row (internal/post_insight/repository): pods   *)
(* that handle records of the same post at the same time, in PostgreSQL    *)
(* transactions at READ COMMITTED with row locks.  No unique index backs   *)
(* the key: migration 019 leaves it commented out, next to copies from     *)
(* before the upsert existed.                                              *)
(*                                                                         *)
(* A row is its id; what matters of its content is the order of            *)
(* analyzed_at, kept in byTime together with the running upserts, whose    *)
(* analyzed_at is taken by the pipeline before they start.                 *)
(***************************************************************************)
EXTENDS Naturals, FiniteSets, SequencesExt

CONSTANTS Pods,       \* consumer pods; each has one upsert of the post at most
          Leftovers,  \* ids that rows from before the upsert may have
          MaxId,      \* ids are 1 .. MaxId, in the order of a heap scan
          MaxFaults   \* bound on upserts that fail by themselves

ASSUME PostInsightAssumption ==
    /\ MaxId \in Nat /\ MaxFaults \in Nat
    /\ Pods \cap Nat = {}
    /\ Leftovers \subseteq 1 .. MaxId
    /\ Cardinality(Leftovers) + Cardinality(Pods) <= MaxId

VARIABLES table,   \* ids of the committed rows of the post
          byTime,  \* rows and running upserts, by analyzed_at
          upsert,  \* where each pod's upsert is
          locked,  \* rows each upsert has updated or deleted
          faults

vars == <<table, byTime, upsert, locked, faults>>

RowIds == 1 .. MaxId
NoRow == 0

\* row: the row it updates; copies: those it has yet to delete; gone: deleted.
Idle == [at |-> "idle", row |-> NoRow, copies |-> {}, gone |-> {}]

\* Ids of leftovers are numbered by analyzed_at.
Leftover(S) == SetToSortSeq(S, <)

Init ==
    /\ table \in SUBSET Leftovers
    /\ byTime = Leftover(table)
    /\ upsert = [p \in Pods |-> Idle]
    /\ locked = [p \in Pods |-> {}]
    /\ faults = 0

Without(S) == SelectSeq(byTime, LAMBDA x : x \notin S)
At(p, where) == upsert[p].at = where
LockedByOther(p, row) == \E q \in Pods \ {p} : row \in locked[q]
Newest == SelectLastInSeq(byTime, LAMBDA x : x \in table)

------------------------------------------------------------------------------
\* A record of the post went through the pipeline and is to be persisted.
Begin(p) ==
    /\ At(p, "idle")
    /\ byTime' = Append(byTime, p)
    /\ upsert' = [upsert EXCEPT ![p].at = "select"]
    /\ UNCHANGED <<table, locked, faults>>

\* The newest row of the key (a fresh uuid never matches by id), or none.
Select(p) ==
    /\ At(p, "select")
    /\ \/ /\ table = {}
          /\ upsert' = [upsert EXCEPT ![p] = [Idle EXCEPT !.at = "insert"]]
       \/ \E row \in table :
             /\ row = byTime[Newest]
             /\ upsert' = [upsert EXCEPT ![p] = [Idle EXCEPT !.at = "update", !.row = row]]
    /\ UNCHANGED <<table, byTime, locked, faults>>

\* Mutant: the copies are deleted without a write to the row that is kept.
UpdateUnlocked(p) ==
    /\ At(p, "update")
    /\ upsert[p].row \in table
    /\ upsert' = [upsert EXCEPT ![p].at = "delete"]
    /\ UNCHANGED <<table, byTime, locked, faults>>

\* The UPDATE that autoflush sends: it waits for the row's lock.
Update(p) ==
    /\ At(p, "update")
    /\ upsert[p].row \in table
    /\ ~ LockedByOther(p, upsert[p].row)
    /\ locked' = [locked EXCEPT ![p] = {upsert[p].row}]
    /\ upsert' = [upsert EXCEPT ![p].at = "delete"]
    /\ UNCHANGED <<table, byTime, faults>>

\* Mutant: an update deletes no copies.
StartDeleteNothing(p) ==
    /\ At(p, "delete")
    /\ upsert' = [upsert EXCEPT ![p].at = "wipe"]
    /\ UNCHANGED <<table, byTime, locked, faults>>

\* The DELETE sees the rows committed when it starts.
StartDelete(p) ==
    /\ At(p, "delete")
    /\ upsert' = [upsert EXCEPT ![p].at = "wipe",
                                ![p].copies = table \ {upsert[p].row}]
    /\ UNCHANGED <<table, byTime, locked, faults>>

IsNextCopy(p, row) == /\ row \in upsert[p].copies
                      /\ \A other \in upsert[p].copies : row <= other

\* One row of its scan: skipped when it has gone, else locked and deleted.
Wipe(p) ==
    /\ At(p, "wipe")
    /\ \E row \in upsert[p].copies :
         /\ IsNextCopy(p, row)
         /\ ~ LockedByOther(p, row)
         /\ upsert' = [upsert EXCEPT ![p] =
              [at |-> "wipe", row |-> upsert[p].row,
               copies |-> upsert[p].copies \ {row},
               gone |-> upsert[p].gone \cup ({row} \cap table)]]
         /\ locked' = [locked EXCEPT ![p] = locked[p] \cup ({row} \cap table)]
    /\ UNCHANGED <<table, byTime, faults>>

\* COMMIT of an update: the copies are gone, the row has its new analyzed_at.
CommitUpdate(p) ==
    /\ At(p, "wipe")
    /\ upsert[p].copies = {}
    /\ LET rest == Without(upsert[p].gone \cup {upsert[p].row})
       IN  byTime' = [i \in DOMAIN rest |-> IF rest[i] = p THEN upsert[p].row
                                                          ELSE rest[i]]
    /\ table' = table \ upsert[p].gone
    /\ upsert' = [upsert EXCEPT ![p] = Idle]
    /\ locked' = [locked EXCEPT ![p] = {}]
    /\ UNCHANGED faults

\* INSERT and COMMIT: nothing contends for a row with a fresh id.
Insert(p) ==
    /\ At(p, "insert")
    /\ \E row \in RowIds \ Range(byTime) :
         /\ table' = table \cup {row}
         /\ byTime' = [i \in DOMAIN byTime |-> IF byTime[i] = p THEN row ELSE byTime[i]]
    /\ upsert' = [upsert EXCEPT ![p] = Idle]
    /\ UNCHANGED <<locked, faults>>

------------------------------------------------------------------------------
Rollback(p) ==
    /\ byTime' = Without({p})
    /\ upsert' = [upsert EXCEPT ![p] = Idle]
    /\ locked' = [locked EXCEPT ![p] = {}]
    /\ UNCHANGED table

\* The row was deleted meanwhile: StaleDataError, logged by the caller.
UpdateStale(p) ==
    /\ At(p, "update")
    /\ upsert[p].row \notin table
    /\ ~ LockedByOther(p, upsert[p].row)
    /\ Rollback(p)
    /\ UNCHANGED faults

Waits(p, q) ==
    \/ At(p, "update") /\ upsert[p].row \in locked[q]
    \/ At(p, "wipe") /\ \E row \in locked[q] : IsNextCopy(p, row)

\* PostgreSQL breaks a cycle of waiting transactions.
Deadlock(p) ==
    /\ \E S \in SUBSET Pods :
         p \in S /\ \A q \in S : \E r \in S \ {q} : Waits(q, r)
    /\ Rollback(p)
    /\ UNCHANGED faults

\* Statement timeout, lost connection, or the pod dies.
Fail(p) ==
    /\ ~ At(p, "idle")
    /\ faults < MaxFaults
    /\ faults' = faults + 1
    /\ Rollback(p)

Step(p) == \/ Select(p) \/ Update(p) \/ StartDelete(p) \/ Wipe(p)
           \/ CommitUpdate(p) \/ Insert(p) \/ UpdateStale(p) \/ Deadlock(p)

Next == \E p \in Pods : Begin(p) \/ Step(p) \/ Fail(p)

Spec == Init /\ [][Next]_vars

(***************************************************************************)
(* The scheduler brings every post back; PostgreSQL gives a lock that is   *)
(* released to the transaction that waits for it, before any later one.    *)
(***************************************************************************)
FairSpec == Spec /\ \A p \in Pods : WF_vars(Begin(p)) /\ SF_vars(Step(p))

------------------------------------------------------------------------------
Stages == {"idle", "select", "update", "delete", "wipe", "insert"}

\* Types of the table, the running upserts and their locks.
TypeOK ==
    /\ table \subseteq RowIds
    /\ upsert \in [Pods -> [at : Stages, row : RowIds \cup {NoRow},
                            copies : SUBSET RowIds, gone : SUBSET RowIds]]
    /\ locked \in [Pods -> SUBSET RowIds]
    /\ faults \in Nat

(***************************************************************************)
(* A post that has a row keeps one: upserts that delete each other's rows  *)
(* as copies never leave none (post_insight.py: `PostInsight.id !=         *)
(* record.id`, after the UPDATE).                                          *)
(***************************************************************************)
NeverEmptied == [][table # {} => table' # {}]_vars

(***************************************************************************)
(* An upsert that has updated its row finds it there when it commits.      *)
(***************************************************************************)
OwnRowStays ==
    \A p \in Pods : upsert[p].at \in {"delete", "wipe"} => upsert[p].row \in table

(***************************************************************************)
(* Copies drain: with upserts coming, the post has one row in the end.     *)
(***************************************************************************)
CopiesDrain == <>[](Cardinality(table) = 1)
==============================================================================
