---------------------------- MODULE CrisisRuntime ----------------------------
(***************************************************************************)
(* What the pods of the consumer do about the crisis level of one project  *)
(* (internal/consumer/server.py): after each group a pod may push the      *)
(* level to project-srv, under a Redis lock and a Redis record of what was *)
(* last pushed, and may publish an alert.  Redis calls that fail are       *)
(* treated as "no record" and "lock granted".                              *)
(*                                                                         *)
(* Times are ages: a stamp's age stops at Cooldown and a lock's TTL at 0,  *)
(* so time may pass for ever.                                              *)
(***************************************************************************)
EXTENDS Naturals, FiniteSets

CONSTANTS Pods, NoPod,
          Levels,      \* what the pipeline may assess: some of Severity
          Policy,      \* the project's notification policy, see TriggerRank
          Cooldown,    \* adaptive_crawl cooldown, in ticks
          LockTtl,     \* 45 seconds, in ticks
          Faults,      \* what may go wrong
          MaxFaults,   \* bound on failures, crashes and slow sections
          MaxShifts    \* bound on changes of what the pipeline assesses

Severity == {"none", "watch", "warning", "critical"}
FaultKinds == {"refuse", "answer", "read", "lock", "store", "crash", "slow"}

ASSUME CrisisAssumption ==
    /\ NoPod \notin Pods
    /\ Levels \subseteq Severity
    /\ "none" \in Levels
    /\ Policy \in Severity \cup {"no_policy", "no_notification", "no_trigger"}
    /\ LockTtl \in Nat \ {0}
    /\ Cooldown \in Nat \ {0} /\ Cooldown > LockTtl   \* at least a minute
    /\ Faults \subseteq FaultKinds
    /\ MaxFaults \in Nat /\ MaxShifts \in Nat

VARIABLES failed,   \* history: the kinds of fault there have been
          trend,    \* the level that groups are assessed at now
          pods,     \* where each pod is in its crisis steps, and its token
          local,    \* _last_crisis_runtime_status of each pod
          stored,   \* smap:crisis:runtime-state
          lock,     \* smap:crisis:runtime-lock
          applied,  \* the status at project-srv
          since,    \* age of the last status project-srv took
          recorded, \* history: the pod that pushed it has written stored
          alerted,  \* history: levels of the alerts that were published
          faults, shifts

vars == <<failed, trend, pods, local, stored, lock, applied, since, recorded,
          alerted, faults, shifts>>

Idle == [at |-> "idle", target |-> "none", token |-> FALSE]
NoState == [status |-> "unset", age |-> Cooldown]
NoLock == [owner |-> NoPod, ttl |-> 0]

Init ==
    /\ failed = {}
    /\ trend = "none"
    /\ pods = [p \in Pods |-> Idle]
    /\ local = [p \in Pods |-> NoState]
    /\ stored = NoState
    /\ lock = NoLock
    /\ applied = "unset"
    /\ since = Cooldown
    /\ recorded = FALSE
    /\ alerted = {}
    /\ faults = 0
    /\ shifts = 0

Fault(kind) == /\ kind \in Faults
               /\ faults < MaxFaults
               /\ faults' = faults + 1
               /\ failed' = failed \cup {kind}

calls == <<faults, failed>>

At(p, where) == pods[p].at = where
Goto(p, where) == pods' = [pods EXCEPT ![p].at = where]
Section == {"recheck", "post", "store", "release", "delete"}

------------------------------------------------------------------------------
\* The pipeline assessed a group of the project.
Assess(p) ==
    /\ At(p, "idle")
    /\ pods' = [pods EXCEPT ![p] = [Idle EXCEPT !.at = "read", !.target = trend]]
    /\ UNCHANGED <<trend, local, stored, lock, applied, since, recorded,
                   alerted, calls, shifts>>

\* What the pod learns was pushed last: Redis, else its own memory.
LastPushed(p, last) ==
    \/ /\ last = IF stored # NoState THEN stored ELSE local[p]
       /\ UNCHANGED calls
    \/ Fault("read") /\ last = local[p]

\* The level changed, and the last push is old enough.
Due(p, last) == last.status # pods[p].target /\ last.age >= Cooldown

Read(p) ==
    /\ At(p, "read")
    /\ \E last \in {stored, local[p]} :
         /\ LastPushed(p, last)
         /\ Goto(p, IF Due(p, last) THEN "lock" ELSE "alert")
    /\ UNCHANGED <<trend, local, stored, lock, applied, since, recorded,
                   alerted, shifts>>

\* Mutant: SET without NX.
AcquireAnyway(p) ==
    /\ At(p, "lock")
    /\ lock' = [owner |-> p, ttl |-> LockTtl]
    /\ pods' = [pods EXCEPT ![p].at = "recheck", ![p].token = TRUE]
    /\ UNCHANGED <<trend, local, stored, applied, since, recorded, alerted,
                   calls, shifts>>

\* SET NX EX 45; an error counts as granted, with an empty token.
Acquire(p) ==
    /\ At(p, "lock")
    /\ \/ /\ lock = NoLock
          /\ lock' = [owner |-> p, ttl |-> LockTtl]
          /\ pods' = [pods EXCEPT ![p].at = "recheck", ![p].token = TRUE]
          /\ UNCHANGED calls
       \/ /\ lock # NoLock
          /\ Goto(p, "alert")
          /\ UNCHANGED <<lock, calls>>
       \/ /\ Fault("lock")
          /\ Goto(p, "recheck")
          /\ UNCHANGED lock
    /\ UNCHANGED <<trend, local, stored, applied, since, recorded, alerted, shifts>>

\* Mutant: what was read before the lock was taken is trusted.
RecheckNothing(p) ==
    /\ At(p, "recheck")
    /\ Goto(p, "post")
    /\ UNCHANGED <<trend, local, stored, lock, applied, since, recorded,
                   alerted, calls, shifts>>

\* The record is read again under the lock.
Recheck(p) ==
    /\ At(p, "recheck")
    /\ \E last \in {stored, local[p]} :
         /\ LastPushed(p, last)
         /\ Goto(p, IF Due(p, last) THEN "post" ELSE "release")
    /\ UNCHANGED <<trend, local, stored, lock, applied, since, recorded,
                   alerted, shifts>>

\* project-srv takes the status.
Push(p) == /\ applied' = pods[p].target
           /\ since' = 0
           /\ recorded' = FALSE

\* Mutant: a refused push is recorded like one that was taken.
PostRefusedRecorded(p) ==
    /\ At(p, "post")
    /\ \/ Push(p) /\ UNCHANGED calls
       \/ Fault("refuse") /\ UNCHANGED <<applied, since, recorded>>
    /\ Goto(p, "store")
    /\ UNCHANGED <<trend, local, stored, lock, alerted, shifts>>

\* apply_crisis_runtime: answered, refused, or taken with the answer lost.
Post(p) ==
    /\ At(p, "post")
    /\ \/ /\ Push(p)
          /\ Goto(p, "store")
          /\ UNCHANGED calls
       \/ /\ Fault("refuse")
          /\ Goto(p, "release")
          /\ UNCHANGED <<applied, since, recorded>>
       \/ /\ Fault("answer")
          /\ Push(p)
          /\ Goto(p, "release")
    /\ UNCHANGED <<trend, local, stored, lock, alerted, shifts>>

\* Mutant: the time of a push is kept, its status is not.
StoreTimeOnly(p) ==
    /\ At(p, "store")
    /\ local' = [local EXCEPT ![p] = [status |-> pods[p].target, age |-> 0]]
    /\ stored' = [stored EXCEPT !.age = 0]
    /\ recorded' = TRUE
    /\ Goto(p, "release")
    /\ UNCHANGED <<trend, lock, applied, since, alerted, calls, shifts>>

\* _set_crisis_runtime_state: memory first, then Redis; an error is swallowed.
Store(p) ==
    /\ At(p, "store")
    /\ LET state == [status |-> pods[p].target, age |-> 0]
       IN  /\ local' = [local EXCEPT ![p] = state]
           /\ \/ /\ stored' = state
                 /\ recorded' = TRUE
                 /\ UNCHANGED calls
              \/ /\ Fault("store")
                 /\ UNCHANGED <<stored, recorded>>
    /\ Goto(p, "release")
    /\ UNCHANGED <<trend, lock, applied, since, alerted, shifts>>

\* GET of the lock: only its owner goes on to delete it.
Release(p) ==
    /\ At(p, "release")
    /\ \/ /\ Goto(p, IF pods[p].token /\ lock.owner = p THEN "delete" ELSE "alert")
          /\ UNCHANGED calls
       \/ /\ Fault("read")
          /\ Goto(p, "alert")
    /\ UNCHANGED <<trend, local, stored, lock, applied, since, recorded,
                   alerted, shifts>>

\* DELETE, whoever owns the lock by now.
Delete(p) ==
    /\ At(p, "delete")
    /\ lock' = NoLock
    /\ Goto(p, "alert")
    /\ UNCHANGED <<trend, local, stored, applied, since, recorded, alerted,
                   calls, shifts>>

------------------------------------------------------------------------------
\* _level_rank
Rank(level) == CASE level = "critical" -> 4
                 [] level = "warning" -> 3
                 [] level = "watch" -> 2
                 [] OTHER -> 0

\* A missing trigger_level is read as str(None), a missing section as WARNING.
TriggerRank == CASE Policy = "no_notification" -> Rank("warning")
                 [] Policy \in {"no_policy", "no_trigger"} -> Rank("none")
                 [] OTHER -> Rank(Policy)

Alert(p) ==
    /\ At(p, "alert")
    /\ LET level == pods[p].target
       IN  alerted' = IF level # "none" /\ Rank(level) >= TriggerRank
                      THEN alerted \cup {level} ELSE alerted
    /\ pods' = [pods EXCEPT ![p] = Idle]
    /\ UNCHANGED <<trend, local, stored, lock, applied, since, recorded,
                   calls, shifts>>

------------------------------------------------------------------------------
\* The pod dies; the next one starts with an empty memory.
Crash(p) ==
    /\ Fault("crash")
    /\ pods' = [pods EXCEPT ![p] = Idle]
    /\ local' = [local EXCEPT ![p] = NoState]
    /\ UNCHANGED <<trend, stored, lock, applied, since, recorded, alerted, shifts>>

\* The level of the project's posts changes.
Shift ==
    /\ shifts < MaxShifts
    /\ shifts' = shifts + 1
    /\ trend' \in Levels \ {trend}
    /\ UNCHANGED <<pods, local, stored, lock, applied, since, recorded,
                   alerted, calls>>

Older(age) == IF age < Cooldown THEN age + 1 ELSE age
InSection(p) == pods[p].at \in Section
Holds(p) == InSection(p) /\ pods[p].token /\ lock.owner = p

\* The lock is about to run out in the middle of its owner's section.
Expiring == lock.ttl = 1 /\ \E p \in Pods : Holds(p)

\* A tick.  Nothing renews the lock and nothing bounds the section: one that
\* outlives its lock counts as a fault, and goes on without it.
Tick ==
    /\ IF Expiring THEN Fault("slow") ELSE UNCHANGED calls
    /\ lock' = IF lock.ttl <= 1 THEN NoLock ELSE [lock EXCEPT !.ttl = lock.ttl - 1]
    /\ stored' = [stored EXCEPT !.age = Older(stored.age)]
    /\ local' = [p \in Pods |-> [local[p] EXCEPT !.age = Older(local[p].age)]]
    /\ since' = Older(since)
    /\ UNCHANGED <<trend, pods, applied, recorded, alerted, shifts>>

PodStep(p) == \/ Assess(p) \/ Read(p) \/ Acquire(p) \/ Recheck(p) \/ Post(p)
              \/ Store(p) \/ Release(p) \/ Delete(p) \/ Alert(p)

Next == \/ \E p \in Pods : PodStep(p) \/ Crash(p)
        \/ Shift \/ Tick

Spec == Init /\ [][Next]_vars

(***************************************************************************)
(* Groups of the project keep coming to every pod, their tasks go on, and  *)
(* time passes.                                                            *)
(***************************************************************************)
FairSpec == Spec /\ WF_vars(Tick) /\ \A p \in Pods : WF_vars(PodStep(p))

------------------------------------------------------------------------------
States == [status : Severity \cup {"unset"}, age : 0 .. Cooldown]
Stages == Section \cup {"idle", "read", "lock", "alert"}

\* Types of the crisis state (server.py, Redis, project-srv).
TypeOK ==
    /\ trend \in Severity
    /\ pods \in [Pods -> [at : Stages, target : Severity, token : BOOLEAN]]
    /\ local \in [Pods -> States]
    /\ stored \in States
    /\ lock \in [owner : Pods \cup {NoPod}, ttl : 0 .. LockTtl]
    /\ applied \in Severity \cup {"unset"}
    /\ since \in 0 .. Cooldown
    /\ recorded \in BOOLEAN
    /\ alerted \in SUBSET (Severity \ {"none"})
    /\ failed \in SUBSET FaultKinds
    /\ faults \in 0 .. MaxFaults /\ shifts \in 0 .. MaxShifts

\* No SET of the lock has failed, and no section has outlived its lock.
Exclusive == failed \cap {"lock", "slow"} = {}

(***************************************************************************)
(* Two pods are between acquiring the lock and releasing it only if        *)
(* Redis did not answer a SET, which server.py takes for a lock granted,   *)
(* or a section has outlived the 45 seconds of its lock, which nothing     *)
(* renews; crashed pods and a DELETE that does not look at the owner are   *)
(* no such reasons.                                                        *)
(***************************************************************************)
OneInSection ==
    Exclusive => \A p, q \in Pods : InSection(p) /\ InSection(q) => p = q

(***************************************************************************)
(* project-srv re-plans a project's crawlers with every push: two pushes   *)
(* are a cooldown apart, whichever pods make them, unless the first was    *)
(* never recorded, Redis hid the record or the lock from a pod, or a       *)
(* section outlived its lock (server.py: the second check under the lock). *)
(***************************************************************************)
CooldownKept ==
    [][since' < since => \/ since = Cooldown
                         \/ ~ recorded
                         \/ "read" \in failed
                         \/ ~ Exclusive]_vars

(***************************************************************************)
(* What Redis says was pushed last is what project-srv took last, once the *)
(* pod that pushed it has written it down; only two pods let in together,  *)
(* or a second one let in by the end of a slow section's lock, can write   *)
(* their records in another order than they pushed.                        *)
(***************************************************************************)
RecordIsTrue == Exclusive /\ recorded => stored.status = applied

(***************************************************************************)
(* A level that lasts gets to project-srv in the end, though pushes are    *)
(* refused, dropped during a cooldown and while another pod holds the      *)
(* lock, and reads fail; not so when a push that project-srv took has not  *)
(* reached the record (an answer or a SET lost, a pod that died between),  *)
(* or the lock did not exclude, its SET lost or its time run out.          *)
(***************************************************************************)
LevelSettles ==
    \/ <>(failed \cap {"answer", "store", "crash", "lock", "slow"} # {})
    \/ <>[](applied = trend)
==============================================================================
