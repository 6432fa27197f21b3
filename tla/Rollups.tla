-------------------------------- MODULE Rollups --------------------------------
(***************************************************************************)
(* The loop in every analysis-api pod that refreshes the projects' rollup  *)
(* tables kpi_daily, posts_recent_top and metrics_daily (apps/api/main.py, *)
(* migration/015_per_project_refresh.sql): discovery of the projects, a    *)
(* bounded number of refreshes at once, the SQL function under its         *)
(* advisory lock, and the fallback of separate statements where the        *)
(* function is not installed.                                              *)
(*                                                                         *)
(* A project's posts are a version; a rollup is the version of the posts   *)
(* it was computed from, 0 while it has no rows.                           *)
(***************************************************************************)
EXTENDS Naturals, FiniteSets

CONSTANTS Pods, Projects,
          Concurrency,  \* ANALYTICS_MART_REFRESH_CONCURRENCY
          MaxVersion,   \* bound on the versions of a project's posts
          MaxFaults     \* bound on failed refreshes and restarts of pods

ASSUME RollupsAssumption ==
    /\ Concurrency \in Nat \ {0}
    /\ MaxVersion \in Nat /\ MaxFaults \in Nat

VARIABLES installed,  \* whether migration 015 is applied
          versions, \* version of each project's rows of post_insight
          recent,  \* whether some of them were analyzed in the recent window
          rollup,  \* the three tables of each project
          task,    \* where each pod is with each project
          staged,  \* what a pod's transaction has computed, not committed
          holder,  \* who has the project's advisory lock: a set of at most one
          faults

vars == <<installed, versions, recent, rollup, task, staged, holder, faults>>

NoRows == [kpi |-> 0, top |-> 0, metrics |-> 0]
Waiting == {"none", "queued"}
InFunction == {"kpi", "top", "metrics"}
InFallback == {"delete top", "fill top", "delete metrics", "fill metrics"}

Init ==
    /\ installed \in BOOLEAN
    /\ versions = [x \in Projects |-> 0]
    /\ recent = [x \in Projects |-> FALSE]
    /\ rollup = [x \in Projects |-> NoRows]
    /\ task = [d \in Pods |-> [x \in Projects |-> "none"]]
    /\ staged = [d \in Pods |-> [x \in Projects |-> NoRows]]
    /\ holder = [x \in Projects |-> {}]
    /\ faults = 0

Warm(x) == rollup[x] # NoRows
Asleep(d) == \A x \in Projects : task[d][x] = "none"

------------------------------------------------------------------------------
\* The consumer upserts posts of project x.
NewPosts(x) ==
    /\ versions[x] < MaxVersion
    /\ versions' = [versions EXCEPT ![x] = @ + 1]
    /\ recent' = [recent EXCEPT ![x] = TRUE]
    /\ UNCHANGED <<installed, rollup, task, staged, holder, faults>>

\* They are older than the window of the discovery.
PostsAge(x) ==
    /\ recent[x]
    /\ recent' = [recent EXCEPT ![x] = FALSE]
    /\ UNCHANGED <<installed, versions, rollup, task, staged, holder, faults>>

\* _list_projects_to_refresh: the recent posts count only without any rollup.
Discovered ==
    LET warm == {x \in Projects : Warm(x)}
    IN  IF warm # {} THEN warm ELSE {x \in Projects : recent[x]}

\* A tick whose discovery succeeds.  (One whose discovery fails changes
\* nothing and is tried again after a pause.)
StartTick(d) ==
    /\ Asleep(d)
    /\ Discovered # {}
    /\ task' = [task EXCEPT ![d] =
          [x \in Projects |-> IF x \in Discovered THEN "queued" ELSE "none"]]
    /\ UNCHANGED <<installed, versions, recent, rollup, staged, holder, faults>>

Goes(d, x, where) == task' = [task EXCEPT ![d][x] = where]
Ends(d, x) ==
    /\ Goes(d, x, "none")
    /\ staged' = [staged EXCEPT ![d][x] = NoRows]
    /\ holder' = [holder EXCEPT ![x] = @ \ {d}]
Busy(d) == {x \in Projects : task[d][x] \notin Waiting}

\* Mutant: the function does not look whether it got the lock.
StartUnlocked(d, x) ==
    /\ task[d][x] = "queued"
    /\ Cardinality(Busy(d)) < Concurrency
    /\ IF installed
       THEN Goes(d, x, "kpi") /\ holder' = [holder EXCEPT ![x] = @ \cup {d}]
       ELSE Goes(d, x, "delete top") /\ UNCHANGED holder
    /\ UNCHANGED <<installed, versions, recent, rollup, staged, faults>>

\* A refresh gets a slot: the function under the lock, or nothing when
\* another pod has it; the fallback takes no lock.
Start(d, x) ==
    /\ task[d][x] = "queued"
    /\ Cardinality(Busy(d)) < Concurrency
    /\ IF ~installed THEN Goes(d, x, "delete top") /\ UNCHANGED holder
       ELSE IF holder[x] # {} THEN Goes(d, x, "none") /\ UNCHANGED holder
       ELSE Goes(d, x, "kpi") /\ holder' = [holder EXCEPT ![x] = {d}]
    /\ UNCHANGED <<installed, versions, recent, rollup, staged, faults>>

\* refresh_project_rollups: three statements, each with a snapshot of its
\* own, and the commit of all three.
Compute(d, x) ==
    /\ task[d][x] \in {"kpi", "top"}
    /\ staged' = [staged EXCEPT ![d][x][task[d][x]] = versions[x]]
    /\ Goes(d, x, IF task[d][x] = "kpi" THEN "top" ELSE "metrics")
    /\ UNCHANGED <<installed, versions, recent, rollup, holder, faults>>

Commit(d, x) ==
    /\ task[d][x] = "metrics"
    /\ rollup' = [rollup EXCEPT ![x] = [staged[d][x] EXCEPT !.metrics = versions[x]]]
    /\ Ends(d, x)
    /\ UNCHANGED <<installed, versions, recent, faults>>

\* The fallback's statements, each committed by itself.
Delete(d, x) ==
    /\ \/ /\ task[d][x] = "delete top"
          /\ rollup' = [rollup EXCEPT ![x].top = 0]
          /\ Goes(d, x, "fill top")
       \/ /\ task[d][x] = "delete metrics"
          /\ rollup' = [rollup EXCEPT ![x].metrics = 0]
          /\ Goes(d, x, "fill metrics")
    /\ UNCHANGED <<installed, versions, recent, staged, holder, faults>>

\* Rows that another pod has put there in between violate the primary key.
Fill(d, x) ==
    /\ \/ /\ task[d][x] = "fill top"
          /\ IF rollup[x].top = 0
             THEN rollup' = [rollup EXCEPT ![x].top = versions[x]] /\ Goes(d, x, "delete metrics")
             ELSE UNCHANGED rollup /\ Goes(d, x, "none")
       \/ /\ task[d][x] = "fill metrics"
          /\ rollup' = [rollup EXCEPT ![x].metrics = IF @ = 0 THEN versions[x] ELSE @]
          /\ Goes(d, x, "none")
    /\ UNCHANGED <<installed, versions, recent, staged, holder, faults>>

\* Mutant: the lock is the session's and outlives a failed call.
FailLocked(d, x) ==
    /\ task[d][x] \notin Waiting
    /\ faults < MaxFaults
    /\ faults' = faults + 1
    /\ Goes(d, x, "none")
    /\ staged' = [staged EXCEPT ![d][x] = NoRows]
    /\ UNCHANGED <<installed, versions, recent, rollup, holder>>

\* A refresh fails (statement_timeout, lock_timeout, connection): the tick
\* goes on with the other projects.
Fail(d, x) ==
    /\ task[d][x] \notin Waiting
    /\ faults < MaxFaults
    /\ faults' = faults + 1
    /\ Ends(d, x)
    /\ UNCHANGED <<installed, versions, recent, rollup>>

\* The pod is restarted: lifespan cancels the loop, its connections close.
Restart(d) ==
    /\ ~Asleep(d)
    /\ faults < MaxFaults
    /\ faults' = faults + 1
    /\ task' = [task EXCEPT ![d] = [x \in Projects |-> "none"]]
    /\ staged' = [staged EXCEPT ![d] = [x \in Projects |-> NoRows]]
    /\ holder' = [x \in Projects |-> holder[x] \ {d}]
    /\ UNCHANGED <<installed, versions, recent, rollup>>

Refresh(d, x) == Start(d, x) \/ Compute(d, x) \/ Commit(d, x) \/ Delete(d, x) \/ Fill(d, x)

Next ==
    \/ \E x \in Projects : NewPosts(x) \/ PostsAge(x)
    \/ \E d \in Pods : StartTick(d) \/ Restart(d)
    \/ \E d \in Pods, x \in Projects : Refresh(d, x) \/ Fail(d, x)

Spec == Init /\ [][Next]_vars

\* The loop sleeps and ticks for ever; a statement ends or times out.
FairSpec ==
    /\ Spec
    /\ \A d \in Pods : WF_vars(StartTick(d))
    /\ \A d \in Pods, x \in Projects : WF_vars(Refresh(d, x))

------------------------------------------------------------------------------
Rows == [kpi : 0 .. MaxVersion, top : 0 .. MaxVersion, metrics : 0 .. MaxVersion]

\* Types of the rollup tables, the rows staged for them and the advisory locks.
TypeOK ==
    /\ installed \in BOOLEAN
    /\ versions \in [Projects -> 0 .. MaxVersion]
    /\ recent \in [Projects -> BOOLEAN]
    /\ rollup \in [Projects -> Rows]
    /\ task \in [Pods -> [Projects -> Waiting \cup InFunction \cup InFallback]]
    /\ staged \in [Pods -> [Projects -> Rows]]
    /\ holder \in [Projects -> SUBSET Pods]
    /\ faults \in 0 .. MaxFaults

\* Under the function no table of a project is ever emptied or set back to
\* older posts, however the ticks of the pods overlap and wherever they fail.
NeverBack ==
    [][installed => \A x \in Projects : /\ rollup'[x].kpi >= rollup[x].kpi
                                        /\ rollup'[x].top >= rollup[x].top
                                        /\ rollup'[x].metrics >= rollup[x].metrics]_vars

\* _list_projects_to_refresh: "projects that already have rollup rows (so the
\* loop keeps them warm)": once posts stop coming, their rollups catch up.
\* Pods in the fallback undo each other's work but get there, unless one of
\* its refreshes is cut off: a project left without rows is forgotten.
KeptWarm ==
    \A x \in Projects :
        Warm(x) /\ versions[x] = MaxVersion ~>
            \/ rollup[x].top = MaxVersion /\ rollup[x].metrics = MaxVersion
            \/ ~installed /\ faults > 0
=============================================================================
