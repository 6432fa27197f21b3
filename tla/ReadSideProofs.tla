---------------------------- MODULE ReadSideProofs ----------------------------
(***************************************************************************)
(* Proofs about what the API reads.  First Rollups, for any number of pods *)
(* and projects: under the SQL function of migration 015 no rollup is      *)
(* emptied or set back.  The advisory lock leaves one pod in a project's   *)
(* function, so the rows it has computed are no older than those it will   *)
(* replace.                                                                *)
(*                                                                         *)
(* Then Dashboard, for any targets, contents and analyses: what is kept of *)
(* a project's tables when rows of other projects are written, moved or    *)
(* marked, hence that the tables of a project without open changes are     *)
(* those of its posts, hence that the endpoints answer the same from       *)
(* either.                                                                 *)
(***************************************************************************)
EXTENDS Dashboard, Rollups, TLAPS, FiniteSetTheorems, WellFoundedInduction

Places == Waiting \cup InFunction \cup InFallback
Tables == {"kpi", "top", "metrics"}

(* A pod goes on with a project, and with nothing else.                    *)
LEMMA GoesOn ==
    ASSUME task \in [Pods -> [Projects -> Places]], NEW d \in Pods, NEW x \in Projects,
           NEW where \in Places, Goes(d, x, where)
    PROVE  /\ task' \in [Pods -> [Projects -> Places]]
           /\ task'[d][x] = where
           /\ \A e \in Pods, y \in Projects : e # d \/ y # x => task'[e][y] = task[e][y]
  BY DEF Goes

(* Tables without a row are tables.                                        *)
LEMMA NoRowsAreRows == NoRows \in Rows /\ NoRows.kpi = 0 /\ NoRows.top = 0 /\ NoRows.metrics = 0
  BY RollupsAssumption DEF NoRows, Rows

(* A table refreshed to a version is a table.                              *)
LEMMA RowsChange ==
    ASSUME NEW r \in Rows, NEW v \in 0 .. MaxVersion
    PROVE  /\ [r EXCEPT !.kpi = v] \in Rows
           /\ [r EXCEPT !.top = v] \in Rows
           /\ [r EXCEPT !.metrics = v] \in Rows
  BY DEF Rows

(* A refresh that ends gives up its lock and touches no other.             *)
LEMMA EndsSo ==
    ASSUME TypeOK, NEW d \in Pods, NEW x \in Projects, Ends(d, x)
    PROVE  /\ task' \in [Pods -> [Projects -> Places]]
           /\ task'[d][x] = "none"
           /\ \A e \in Pods, y \in Projects : e # d \/ y # x =>
                 task'[e][y] = task[e][y] /\ staged'[e][y] = staged[e][y]
           /\ staged' \in [Pods -> [Projects -> Rows]]
           /\ holder' \in [Projects -> SUBSET Pods]
           /\ \A y \in Projects : y # x => holder'[y] = holder[y]
           /\ holder'[x] = holder[x] \ {d}
  <1>1. task \in [Pods -> [Projects -> Places]] /\ "none" \in Places /\ Goes(d, x, "none")
    BY DEF TypeOK, Places, Waiting, Ends
  <1>2. staged' = [staged EXCEPT ![d][x] = NoRows] /\ holder' = [holder EXCEPT ![x] = @ \ {d}]
    BY DEF Ends
  <1>3. staged \in [Pods -> [Projects -> Rows]] /\ holder \in [Projects -> SUBSET Pods]
    BY DEF TypeOK
  <1>4. QED BY <1>1, <1>2, <1>3, GoesOn, NoRowsAreRows

(* Types hold at the start.                                                *)
LEMMA TypeInit == Init => TypeOK
  BY NoRowsAreRows, RollupsAssumption DEF Init, TypeOK, Waiting

(* Every step keeps the types.                                             *)
LEMMA TypeStep == TypeOK /\ [Next]_vars => TypeOK'
  <1> SUFFICES ASSUME TypeOK, [Next]_vars PROVE TypeOK'
    OBVIOUS
  <1> USE RollupsAssumption
  <1>1. ASSUME NEW x \in Projects, NewPosts(x) \/ PostsAge(x) PROVE TypeOK'
    <2>1. versions' \in [Projects -> 0 .. MaxVersion]
      BY <1>1 DEF NewPosts, PostsAge, TypeOK
    <2>2. recent' \in [Projects -> BOOLEAN]
      BY <1>1 DEF NewPosts, PostsAge, TypeOK
    <2>3. UNCHANGED <<installed, rollup, task, staged, holder, faults>>
      BY <1>1 DEF NewPosts, PostsAge
    <2>4. QED BY <2>1, <2>2, <2>3 DEF TypeOK
  <1>2. ASSUME NEW d \in Pods, StartTick(d) PROVE TypeOK'
    <2>1. task' \in [Pods -> [Projects -> Places]]
      BY <1>2 DEF StartTick, TypeOK, Places, Waiting
    <2>2. QED BY <1>2, <2>1 DEF StartTick, TypeOK, Places
  <1>3. ASSUME NEW d \in Pods, Restart(d) PROVE TypeOK'
    <2>1. task' \in [Pods -> [Projects -> Places]]
      BY <1>3 DEF Restart, TypeOK, Places, Waiting
    <2>2. staged' \in [Pods -> [Projects -> Rows]]
      BY <1>3, NoRowsAreRows DEF Restart, TypeOK
    <2>3. QED BY <1>3, <2>1, <2>2 DEF Restart, TypeOK, Places
  <1>4. ASSUME NEW d \in Pods, NEW x \in Projects, Start(d, x) PROVE TypeOK'
    <2>1. task' \in [Pods -> [Projects -> Places]]
      <3>1. Goes(d, x, "delete top") \/ Goes(d, x, "none") \/ Goes(d, x, "kpi")
        BY <1>4 DEF Start
      <3>2. QED BY <3>1, GoesOn DEF TypeOK, Places, Waiting, InFunction, InFallback
    <2>2. holder' \in [Projects -> SUBSET Pods]
      <3>1. UNCHANGED holder \/ holder' = [holder EXCEPT ![x] = {d}]
        BY <1>4 DEF Start
      <3>2. QED BY <3>1 DEF TypeOK
    <2>3. QED BY <1>4, <2>1, <2>2 DEF Start, TypeOK, Places
  <1>5. ASSUME NEW d \in Pods, NEW x \in Projects, Compute(d, x) PROVE TypeOK'
    <2>1. task' \in [Pods -> [Projects -> Places]]
      <3>1. Goes(d, x, "top") \/ Goes(d, x, "metrics")
        BY <1>5 DEF Compute
      <3>2. QED BY <3>1, GoesOn DEF TypeOK, Places, InFunction
    <2>2. staged' \in [Pods -> [Projects -> Rows]]
      <3>1. task[d][x] \in Tables /\ versions[x] \in 0 .. MaxVersion
        BY <1>5 DEF Compute, TypeOK, Tables
      <3>2. \A r \in Rows, t \in Tables, v \in 0 .. MaxVersion : [r EXCEPT ![t] = v] \in Rows
        BY RowsChange DEF Tables
      <3>3. QED BY <1>5, <3>1, <3>2 DEF Compute, TypeOK
    <2>3. QED BY <1>5, <2>1, <2>2 DEF Compute, TypeOK, Places
  <1>6. ASSUME NEW d \in Pods, NEW x \in Projects, Commit(d, x) PROVE TypeOK'
    <2>1. Ends(d, x) /\ UNCHANGED <<installed, versions, recent, faults>>
      BY <1>6 DEF Commit
    <2>2. rollup' \in [Projects -> Rows]
      <3>1. versions[x] \in 0 .. MaxVersion /\ staged[d][x] \in Rows
        BY DEF TypeOK
      <3>2. [staged[d][x] EXCEPT !.metrics = versions[x]] \in Rows
        BY <3>1, RowsChange
      <3>3. QED BY <1>6, <3>2 DEF Commit, TypeOK
    <2>3. QED BY <2>1, <2>2, EndsSo DEF TypeOK, Places
  <1>7. ASSUME NEW d \in Pods, NEW x \in Projects, Delete(d, x) \/ Fill(d, x) PROVE TypeOK'
    <2>1. task' \in [Pods -> [Projects -> Places]]
      <3>1. PICK where \in {"none", "fill top", "fill metrics", "delete metrics"} : Goes(d, x, where)
        BY <1>7 DEF Delete, Fill
      <3>2. QED BY <3>1, GoesOn DEF TypeOK, Places, Waiting, InFallback
    <2>2. rollup' \in [Projects -> Rows]
      <3>1. versions[x] \in 0 .. MaxVersion /\ rollup \in [Projects -> Rows]
        BY DEF TypeOK
      <3>2. rollup[x] \in Rows /\ rollup[x].metrics \in 0 .. MaxVersion
        BY <3>1 DEF Rows
      <3>3. PICK r \in Rows : rollup' = [rollup EXCEPT ![x] = r] \/ UNCHANGED rollup
        <4>1. CASE UNCHANGED rollup
          BY <3>2, <4>1
        <4>2. ASSUME NEW v \in 0 .. MaxVersion,
                     \/ rollup' = [rollup EXCEPT ![x].top = v]
                     \/ rollup' = [rollup EXCEPT ![x].metrics = v]
              PROVE  \E r \in Rows : rollup' = [rollup EXCEPT ![x] = r]
          <5>1. [rollup[x] EXCEPT !.top = v] \in Rows /\ [rollup[x] EXCEPT !.metrics = v] \in Rows
            BY <3>2, RowsChange
          <5>2. QED BY <4>2, <5>1
        <4>3. \/ UNCHANGED rollup
              \/ \E v \in 0 .. MaxVersion : \/ rollup' = [rollup EXCEPT ![x].top = v]
                                            \/ rollup' = [rollup EXCEPT ![x].metrics = v]
          <5>1. 0 \in 0 .. MaxVersion
            OBVIOUS
          <5>2. \/ rollup' = [rollup EXCEPT ![x].top = 0]
                \/ rollup' = [rollup EXCEPT ![x].metrics = 0]
                \/ rollup' = [rollup EXCEPT ![x].top = versions[x]]
                \/ rollup' = [rollup EXCEPT ![x].metrics = versions[x]]
                \/ rollup' = [rollup EXCEPT ![x].metrics = rollup[x].metrics]
                \/ UNCHANGED rollup
            BY <1>7, <3>1 DEF Delete, Fill
          <5>3. QED BY <3>1, <3>2, <5>1, <5>2
        <4>4. QED BY <4>1, <4>2, <4>3
      <3>4. QED BY <3>1, <3>3
    <2>3. QED BY <1>7, <2>1, <2>2 DEF Delete, Fill, TypeOK, Places
  <1>8. ASSUME NEW d \in Pods, NEW x \in Projects, Fail(d, x) PROVE TypeOK'
    BY <1>8, EndsSo DEF Fail, TypeOK, Places
  <1>9. CASE UNCHANGED vars
    BY <1>9 DEF vars, TypeOK
  <1>10. QED
    BY <1>1, <1>2, <1>3, <1>4, <1>5, <1>6, <1>7, <1>8, <1>9 DEF Next, Refresh

(***************************************************************************)
(* The loop keeps its types: what is in a rollup or about to be is a       *)
(* version of the project's posts.                                         *)
(***************************************************************************)
THEOREM RollupTypes == Spec => []TypeOK
  BY TypeInit, TypeStep, PTL DEF Spec

------------------------------------------------------------------------------
\* The function of a project runs in the pod that has its lock.
FunctionLocked ==
    \A d \in Pods, x \in Projects :
        /\ task[d][x] \in Waiting \cup InFunction
        /\ task[d][x] \in InFunction => holder[x] = {d}

\* Rollups are of posts there have been.
NotAhead ==
    \A x \in Projects : /\ rollup[x].kpi <= versions[x] /\ rollup[x].top <= versions[x]
                        /\ rollup[x].metrics <= versions[x]

\* What a pod has computed is no older than what it will replace.
StagedNewer ==
    \A d \in Pods, x \in Projects :
        /\ task[d][x] \in {"top", "metrics"} =>
              rollup[x].kpi <= staged[d][x].kpi /\ staged[d][x].kpi <= versions[x]
        /\ task[d][x] = "metrics" =>
              rollup[x].top <= staged[d][x].top /\ staged[d][x].top <= versions[x]

Ordered == FunctionLocked /\ NotAhead /\ StagedNewer

(* Versions are numbers.                                                   *)
LEMMA Versions ==
    ASSUME TypeOK, NEW x \in Projects
    PROVE  /\ versions[x] \in Nat
           /\ rollup[x].kpi \in Nat /\ rollup[x].top \in Nat /\ rollup[x].metrics \in Nat
           /\ \A d \in Pods : staged[d][x].kpi \in Nat /\ staged[d][x].top \in Nat
  BY RollupsAssumption DEF TypeOK, Rows

(* Tables are ordered at the start.                                        *)
LEMMA OrderedInit == Init => Ordered
  BY NoRowsAreRows
     DEF Init, Ordered, FunctionLocked, NotAhead, StagedNewer, Waiting, InFunction

(* A refresh that ends without a commit, or has not begun.                 *)
LEMMA OrderedEnds ==
    ASSUME TypeOK, Ordered, NEW d \in Pods, NEW x \in Projects, Ends(d, x),
           UNCHANGED <<versions, rollup>>
    PROVE  Ordered'
  <1>1. FunctionLocked'
    <2>1. FunctionLocked
      BY DEF Ordered
    <2>2. /\ task'[d][x] = "none" /\ holder'[x] = holder[x] \ {d}
          /\ \A e \in Pods, y \in Projects : e # d \/ y # x => task'[e][y] = task[e][y]
          /\ \A y \in Projects : y # x => holder'[y] = holder[y]
      BY EndsSo
    <2>3. ASSUME NEW e \in Pods, NEW y \in Projects
          PROVE  /\ task'[e][y] \in Waiting \cup InFunction
                 /\ task'[e][y] \in InFunction => holder'[y] = {e}
      <3>1. CASE e = d /\ y = x
        BY ONLY <2>2, <3>1 DEF Waiting, InFunction
      <3>2. CASE e # d \/ y # x
        <4>1. task'[e][y] = task[e][y]
          BY ONLY <2>2, <2>3, <3>2
        <4>2. holder[y] = {e} => holder'[y] = {e}
          BY ONLY <2>2, <2>3, <3>2
        <4>3. QED BY ONLY <2>1, <2>3, <4>1, <4>2 DEF FunctionLocked
      <3>3. QED BY ONLY <3>1, <3>2
    <2>4. QED BY ONLY <2>3 DEF FunctionLocked
  <1>a. NotAhead /\ StagedNewer
    BY DEF Ordered
  <1>b. UNCHANGED versions /\ UNCHANGED rollup
    OBVIOUS
  <1>2. NotAhead'
    BY ONLY <1>a, <1>b DEF NotAhead
  <1>3. StagedNewer'
    <2>1. \A e \in Pods, y \in Projects :
              \/ task'[e][y] = "none"
              \/ task'[e][y] = task[e][y] /\ staged'[e][y] = staged[e][y]
      BY EndsSo
    <2>2. QED BY ONLY <1>a, <1>b, <2>1 DEF StagedNewer
  <1>4. QED BY <1>1, <1>2, <1>3 DEF Ordered

(* A refresh that starts has the lock to itself.                           *)
LEMMA OrderedStart ==
    ASSUME TypeOK, Ordered, installed, NEW d \in Pods, NEW x \in Projects, Start(d, x)
    PROVE  Ordered'
  <1>1. PICK where \in {"none", "kpi"} :
           /\ Goes(d, x, where)
           /\ where = "none" => UNCHANGED holder
           /\ where = "kpi" => holder[x] = {} /\ holder' = [holder EXCEPT ![x] = {d}]
    BY DEF Start
  <1>2. /\ task'[d][x] = where
        /\ \A e \in Pods, y \in Projects : e # d \/ y # x => task'[e][y] = task[e][y]
    BY <1>1, GoesOn DEF TypeOK, Places, Waiting, InFunction
  <1>3. FunctionLocked'
    <2>1. holder \in [Projects -> SUBSET Pods]
      BY DEF TypeOK
    <2>2. where = "kpi" => \A e \in Pods : task[e][x] \notin InFunction
      BY <1>1 DEF Ordered, FunctionLocked
    <2>3. QED BY <1>1, <1>2, <2>1, <2>2 DEF Ordered, FunctionLocked, Waiting, InFunction
  <1>4. UNCHANGED <<versions, rollup, staged>>
    BY DEF Start
  <1>5. NotAhead' /\ StagedNewer'
    BY <1>1, <1>2, <1>4 DEF Ordered, NotAhead, StagedNewer
  <1>6. QED BY <1>3, <1>5 DEF Ordered

(* What a refresh computes is no older than the tables.                    *)
LEMMA OrderedCompute ==
    ASSUME TypeOK, Ordered, NEW d \in Pods, NEW x \in Projects, Compute(d, x)
    PROVE  Ordered'
  <1>1. /\ task[d][x] \in {"kpi", "top"}
        /\ task'[d][x] = IF task[d][x] = "kpi" THEN "top" ELSE "metrics"
        /\ \A e \in Pods, y \in Projects : e # d \/ y # x => task'[e][y] = task[e][y]
    BY GoesOn DEF Compute, TypeOK, Places, InFunction
  <1>2. UNCHANGED <<versions, rollup, holder>>
    BY DEF Compute
  <1>3. /\ \A e \in Pods, y \in Projects : e # d \/ y # x => staged'[e][y] = staged[e][y]
        /\ task[d][x] = "kpi" => staged'[d][x].kpi = versions[x]
        /\ task[d][x] = "top" => /\ staged'[d][x].top = versions[x]
                                 /\ staged'[d][x].kpi = staged[d][x].kpi
    <2>1. staged' = [staged EXCEPT ![d][x][task[d][x]] = versions[x]]
      BY DEF Compute
    <2>2. staged \in [Pods -> [Projects -> Rows]]
      BY DEF TypeOK
    <2>3. QED BY <1>1, <2>1, <2>2 DEF Rows
  <1>4. FunctionLocked'
    BY <1>1, <1>2 DEF Ordered, FunctionLocked, Waiting, InFunction
  <1>5. NotAhead'
    BY <1>2 DEF Ordered, NotAhead
  <1>6. StagedNewer'
    BY <1>1, <1>2, <1>3, Versions DEF Ordered, NotAhead, StagedNewer
  <1>7. QED BY <1>4, <1>5, <1>6 DEF Ordered

(* The three tables move forward together.                                 *)
LEMMA Committed ==
    ASSUME TypeOK, NEW d \in Pods, NEW x \in Projects, Commit(d, x)
    PROVE  /\ rollup'[x].kpi = staged[d][x].kpi /\ rollup'[x].top = staged[d][x].top
           /\ rollup'[x].metrics = versions[x]
           /\ \A y \in Projects : y # x => rollup'[y] = rollup[y]
  <1>1. rollup \in [Projects -> Rows] /\ staged[d][x] \in Rows
    BY DEF TypeOK
  <1>2. QED BY <1>1 DEF Commit, Rows

(* A commit replaces what is no newer.                                     *)
LEMMA OrderedCommit ==
    ASSUME TypeOK, Ordered, NEW d \in Pods, NEW x \in Projects, Commit(d, x)
    PROVE  Ordered'
  <1>1. task[d][x] = "metrics" /\ Ends(d, x) /\ UNCHANGED versions
    BY DEF Commit
  <1>2. FunctionLocked'
    BY <1>1, EndsSo DEF Ordered, FunctionLocked, Waiting, InFunction
  <1>3. NotAhead'
    BY <1>1, Committed, Versions DEF Ordered, NotAhead, StagedNewer
  <1>4. \A e \in Pods : task'[e][x] \notin InFunction
    <2>1. holder[x] = {d}
      BY <1>1 DEF Ordered, FunctionLocked, InFunction
    <2>2. \A e \in Pods : e # d => task[e][x] \notin InFunction
      BY <2>1 DEF Ordered, FunctionLocked
    <2>3. /\ task'[d][x] = "none"
          /\ \A e \in Pods : e # d => task'[e][x] = task[e][x]
      BY <1>1, EndsSo
    <2>4. QED BY <2>2, <2>3 DEF InFunction
  <1>5. StagedNewer'
    BY <1>1, <1>4, Committed, EndsSo DEF Ordered, StagedNewer, InFunction
  <1>6. QED BY <1>2, <1>3, <1>5 DEF Ordered

(* Every step under the SQL function keeps the order of versions.          *)
LEMMA OrderedStep == TypeOK /\ (installed => Ordered) /\ [Next]_vars => (installed => Ordered)'
  <1> SUFFICES ASSUME TypeOK, installed => Ordered, [Next]_vars, installed' PROVE Ordered'
    OBVIOUS
  <1>1. installed
    BY DEF Next, vars, NewPosts, PostsAge, StartTick, Restart, Refresh, Start, Compute, Commit,
           Delete, Fill, Fail
  <1>2. Ordered
    BY <1>1
  <1>3. ASSUME NEW x \in Projects, NewPosts(x) PROVE Ordered'
    <2>1. /\ \A y \in Projects : versions'[y] >= versions[y] /\ versions'[y] \in Nat
          /\ UNCHANGED <<rollup, task, staged, holder>>
      BY <1>3, RollupsAssumption DEF NewPosts, TypeOK
    <2>2. FunctionLocked'
      BY <1>2, <2>1 DEF Ordered, FunctionLocked
    <2>3. NotAhead'
      BY <1>2, <2>1, Versions DEF Ordered, NotAhead
    <2>4. StagedNewer'
      BY <1>2, <2>1, Versions DEF Ordered, StagedNewer
    <2>5. QED BY <2>2, <2>3, <2>4 DEF Ordered
  <1>4. ASSUME NEW x \in Projects, PostsAge(x) PROVE Ordered'
    BY <1>2, <1>4 DEF PostsAge, Ordered, FunctionLocked, NotAhead, StagedNewer
  <1>5. ASSUME NEW d \in Pods, StartTick(d) \/ Restart(d) PROVE Ordered'
    <2>1. /\ \A x \in Projects : task'[d][x] \in Waiting
          /\ \A e \in Pods, x \in Projects : e # d =>
                 task'[e][x] = task[e][x] /\ staged'[e][x] = staged[e][x]
      <3>1. PICK places \in [Projects -> Waiting], rows \in [Projects -> Rows] :
               task' = [task EXCEPT ![d] = places] /\ staged' = [staged EXCEPT ![d] = rows]
        <4>1. CASE StartTick(d)
          <5>1. [x \in Projects |-> IF x \in Discovered THEN "queued" ELSE "none"]
                  \in [Projects -> Waiting]
            BY DEF Waiting
          <5>2. staged' = [staged EXCEPT ![d] = staged[d]] /\ staged[d] \in [Projects -> Rows]
            BY <4>1 DEF StartTick, TypeOK
          <5>3. QED BY <4>1, <5>1, <5>2 DEF StartTick
        <4>2. CASE Restart(d)
          <5>1. /\ [x \in Projects |-> "none"] \in [Projects -> Waiting]
                /\ [x \in Projects |-> NoRows] \in [Projects -> Rows]
            BY NoRowsAreRows DEF Waiting
          <5>2. QED BY <4>2, <5>1 DEF Restart
        <4>3. QED BY <1>5, <4>1, <4>2
      <3>2. task \in [Pods -> [Projects -> Places]] /\ staged \in [Pods -> [Projects -> Rows]]
        BY DEF TypeOK, Places
      <3>3. QED BY <3>1, <3>2
    <2>2. \A x \in Projects : holder'[x] = holder[x] \/ holder'[x] = holder[x] \ {d}
      BY <1>5 DEF StartTick, Restart
    <2>3. UNCHANGED <<versions, rollup>>
      BY <1>5 DEF StartTick, Restart
    <2>4. FunctionLocked'
      BY <1>2, <2>1, <2>2 DEF Ordered, FunctionLocked, Waiting, InFunction
    <2>5. NotAhead' /\ StagedNewer'
      BY <1>2, <2>1, <2>3 DEF Ordered, NotAhead, StagedNewer, Waiting
    <2>6. QED BY <2>4, <2>5 DEF Ordered
  <1>6. ASSUME NEW d \in Pods, NEW x \in Projects, Fail(d, x) PROVE Ordered'
    BY <1>2, <1>6, OrderedEnds DEF Fail
  <1>7. ASSUME NEW d \in Pods, NEW x \in Projects, Delete(d, x) \/ Fill(d, x) PROVE FALSE
    BY <1>2, <1>7 DEF Ordered, FunctionLocked, Delete, Fill, Waiting, InFunction
  <1>8. CASE UNCHANGED vars
    BY <1>2, <1>8 DEF vars, Ordered, FunctionLocked, NotAhead, StagedNewer
  <1>9. QED
    BY <1>1, <1>2, <1>3, <1>4, <1>5, <1>6, <1>7, <1>8, OrderedStart, OrderedCompute, OrderedCommit
       DEF Next, Refresh

(***************************************************************************)
(* Where migration 015 is installed, no step of any number of pods empties *)
(* a rollup or sets it back to older posts.  [refresh_project_rollups]     *)
(***************************************************************************)
THEOREM RollupsNeverGoBack == Spec => NeverBack
  <1>1. TypeOK /\ (installed => Ordered) /\ [Next]_vars =>
            [installed => \A x \in Projects : /\ rollup'[x].kpi >= rollup[x].kpi
                                              /\ rollup'[x].top >= rollup[x].top
                                              /\ rollup'[x].metrics >= rollup[x].metrics]_vars
    <2> SUFFICES ASSUME TypeOK, Ordered, Next, NEW x \in Projects
                 PROVE  /\ rollup'[x].kpi >= rollup[x].kpi
                        /\ rollup'[x].top >= rollup[x].top
                        /\ rollup'[x].metrics >= rollup[x].metrics
      BY DEF vars
    <2>1. CASE UNCHANGED rollup
      BY <2>1, Versions
    <2>2. ASSUME NEW d \in Pods, NEW y \in Projects, Commit(d, y)
          PROVE  /\ rollup'[x].kpi >= rollup[x].kpi
                 /\ rollup'[x].top >= rollup[x].top
                 /\ rollup'[x].metrics >= rollup[x].metrics
      <3>1. task[d][y] = "metrics"
        BY <2>2 DEF Commit
      <3>2. QED BY <2>2, <3>1, Committed, Versions DEF Ordered, NotAhead, StagedNewer
    <2>3. ASSUME NEW d \in Pods, NEW y \in Projects, Delete(d, y) \/ Fill(d, y) PROVE FALSE
      BY <2>3 DEF Ordered, FunctionLocked, Delete, Fill, Waiting, InFunction
    <2>4. QED
      BY <2>1, <2>2, <2>3
         DEF Next, Refresh, NewPosts, PostsAge, StartTick, Restart, Start, Compute, Fail
  <1>2. Init => (installed => Ordered)
    BY OrderedInit
  <1>3. TypeOK /\ (installed => Ordered) /\ [Next]_vars => (TypeOK /\ (installed => Ordered))'
    BY TypeStep, OrderedStep
  <1>4. QED BY TypeInit, <1>1, <1>2, <1>3, PTL DEF Spec, NeverBack

------------------------------------------------------------------------------
\* The latest rows of contents, and the most recent ones of a table.

(* A set of numbers that is not empty has a least one.                     *)
LEMMA LeastNat ==
    ASSUME NEW A, A \subseteq Nat, A # {}
    PROVE  \E m \in A : \A n \in A : m <= n
  <1> DEFINE T == {1 .. n : n \in A}
             R == StrictSubsetOrdering(Nat)
  <1>1. IsWellFoundedOn(R, FiniteSubsetsOf(Nat))
    BY FS_StrictSubsetOrderingWellFounded
  <1>2. T \subseteq FiniteSubsetsOf(Nat) /\ T # {}
    <2>1. ASSUME NEW n \in A PROVE 1 .. n \in FiniteSubsetsOf(Nat)
      <3>1. n \in Int /\ 1 \in Int /\ 1 .. n \subseteq Nat
        OBVIOUS
      <3>2. IsFiniteSet(1 .. n)
        BY <3>1, FS_Interval
      <3>3. QED BY <3>1, <3>2 DEF FiniteSubsetsOf
    <2>2. T # {}
      OBVIOUS
    <2>3. QED BY <2>1, <2>2
  <1>3. \E x \in T : \A y \in T : ~ (<<y, x>> \in R)
    <2> HIDE DEF T, R
    <2>1. QED BY <1>1, <1>2, WFMin
  <1>4. PICK m \in A : \A y \in T : <<y, 1 .. m>> \notin R
    BY <1>3
  <1>5. ASSUME NEW n \in A, ~(m <= n) PROVE FALSE
    <2>1. <<1 .. n, 1 .. m>> \notin R
      BY <1>4
    <2>2. 1 .. n \subseteq 1 .. m /\ m \in 1 .. m /\ m \notin 1 .. n
      BY <1>5
    <2>3. QED BY <2>1, <2>2 DEF StrictSubsetOrdering
  <1>6. QED BY <1>5

\* The rows of new at the places B are those of old at the places A, in the
\* same order.
SameRows(old, A, new, B, order) ==
    /\ A \subseteq Int /\ B \subseteq Int
    /\ \A n \in B : order[n] \in A /\ new[n] = old[order[n]]
    /\ \A i \in A : \E n \in B : order[n] = i
    /\ \A k, n \in B : k > n <=> order[k] > order[n]

(* Then their latest rows are the same.                                    *)
LEMMA SameLatest ==
    ASSUME NEW old, NEW new, NEW A, NEW B, NEW order, SameRows(old, A, new, B, order)
    PROVE  Latest(new, B) = Latest(old, A)
  <1> USE DEF SameRows
  <1>1. ASSUME NEW r \in Latest(new, B) PROVE r \in Latest(old, A)
    <2>1. PICK n \in B : r = new[n] /\ \A k \in B : k > n => new[k].content # new[n].content
      BY DEF Latest
    <2>2. \A k \in A : k > order[n] => old[k].content # old[order[n]].content
      BY <2>1
    <2>3. QED BY <2>1, <2>2 DEF Latest
  <1>2. ASSUME NEW r \in Latest(old, A) PROVE r \in Latest(new, B)
    <2>1. PICK i \in A : r = old[i] /\ \A k \in A : k > i => old[k].content # old[i].content
      BY DEF Latest
    <2>2. PICK n \in B : order[n] = i
      OBVIOUS
    <2>3. ASSUME NEW k \in B, k > n PROVE new[k].content # new[n].content
      <3>1. order[k] \in A /\ order[k] > i /\ new[k] = old[order[k]] /\ new[n] = old[i]
        BY <2>2, <2>3
      <3>2. QED BY <2>1, <3>1
    <2>4. QED BY <2>1, <2>2, <2>3 DEF Latest
  <1>3. QED BY <1>1, <1>2

(* A content has one latest row.                                           *)
LEMMA OneLatest ==
    ASSUME NEW rows, NEW A, A \subseteq Int, NEW r \in Latest(rows, A), NEW q \in Latest(rows, A),
           r.content = q.content
    PROVE  r = q
  <1>1. PICK i \in A : r = rows[i] /\ \A k \in A : k > i => rows[k].content # rows[i].content
    BY DEF Latest
  <1>2. PICK j \in A : q = rows[j] /\ \A k \in A : k > j => rows[k].content # rows[j].content
    BY DEF Latest
  <1>3. i > j \/ j > i \/ i = j
    OBVIOUS
  <1>4. QED BY <1>1, <1>2, <1>3

(* Every content among the rows at some places has its latest.             *)
LEMMA LatestThere ==
    ASSUME NEW rows, NEW n \in Nat, NEW A \in SUBSET (1 .. n), NEW i \in A
    PROVE  \E r \in Latest(rows, A) : r.content = rows[i].content
  <1> DEFINE same == {j \in A : rows[j].content = rows[i].content}
             after == {n - j : j \in same}
  <1>1. after \subseteq Nat /\ after # {}
    OBVIOUS
  <1>2. PICK m \in after : \A l \in after : m <= l
    <2> HIDE DEF after
    <2>1. QED BY <1>1, LeastNat
  <1>3. PICK k \in same : m = n - k
    OBVIOUS
  <1>4. ASSUME NEW j \in A, j > k PROVE rows[j].content # rows[k].content
    <2>1. CASE j \in same
      <3>1. n - j \in after /\ n - k <= n - j
        BY <1>2, <1>3, <2>1
      <3>2. j \in Int /\ k \in Int
        OBVIOUS
      <3>3. QED BY <1>4, <3>1, <3>2
    <2>2. QED BY <2>1
  <1>5. rows[k] \in Latest(rows, A)
    BY <1>4 DEF Latest
  <1>6. QED BY <1>3, <1>5

(* They are finitely many.                                                 *)
LEMMA LatestFinite ==
    ASSUME NEW R, NEW rows \in Seq(R), NEW A \in SUBSET (DOMAIN rows)
    PROVE  /\ Latest(rows, A) \in SUBSET R
           /\ IsFiniteSet(Latest(rows, A))
  <1> DEFINE places == {j \in A : \A k \in A : k > j => rows[k].content # rows[j].content}
             f == [j \in places |-> rows[j]]
  <1>1. DOMAIN rows = 1 .. Len(rows) /\ Len(rows) \in Int /\ 1 \in Int
    OBVIOUS
  <1>2. IsFiniteSet(DOMAIN rows)
    BY <1>1, FS_Interval
  <1>3. IsFiniteSet(places)
    <2>1. places \in SUBSET (DOMAIN rows)
      OBVIOUS
    <2> HIDE DEF places
    <2>2. QED BY <1>2, <2>1, FS_Subset
  <1>4. Latest(rows, A) = {f[j] : j \in places}
    BY DEF Latest
  <1> HIDE DEF places
  <1>5. f \in Surjection(places, Latest(rows, A))
    BY <1>4 DEF Surjection
  <1>6. IsFiniteSet(Latest(rows, A))
    <2> HIDE DEF f
    <2>1. QED BY <1>3, <1>5, FS_Surjection
  <1>7. Latest(rows, A) \in SUBSET R
    BY <1>1 DEF Latest
  <1>8. QED BY <1>6, <1>7

(* If the most recent rows of a project leave some out, they are as many as*)
(* the table holds: of the rows left out, one with the fewest newer ones   *)
(* has only rows in the table above it.                                    *)
LEMMA TopIsFull ==
    ASSUME NEW rows, IsFiniteSet(rows),
           \A r \in rows : About(r).at \in Int /\ r.engagement \in Int,
           NEW r \in rows, r \notin TopOf(rows)
    PROVE  Cardinality(TopOf(rows)) >= TopRows
  <1> DEFINE newer(q) == {s \in rows : Newer(s, q)}
             out == rows \ TopOf(rows)
             counts == {Cardinality(newer(q)) : q \in out}
  <1>1. ASSUME NEW q \in rows
        PROVE  newer(q) \in SUBSET rows /\ IsFiniteSet(newer(q)) /\ Cardinality(newer(q)) \in Nat
    <2>1. newer(q) \in SUBSET rows
      OBVIOUS
    <2> HIDE DEF newer
    <2>2. QED BY <2>1, FS_Subset, FS_CardinalityType
  <1>2. PICK m \in counts : \A n \in counts : m <= n
    <2>1. counts \subseteq Nat /\ counts # {}
      BY <1>1
    <2> HIDE DEF counts
    <2>2. QED BY <2>1, LeastNat
  <1>3. PICK q \in out : m = Cardinality(newer(q))
    OBVIOUS
  <1>4. ASSUME NEW s \in newer(q) PROVE s \in TopOf(rows)
    <2>1. newer(s) \in SUBSET newer(q) /\ s \in newer(q) /\ s \notin newer(s)
      BY DEF Newer
    <2>2. Cardinality(newer(s)) < Cardinality(newer(q))
      <3>1. /\ IsFiniteSet(newer(q)) /\ newer(s) # newer(q)
            /\ Cardinality(newer(q)) \in Nat /\ Cardinality(newer(s)) \in Nat
        BY <1>1, <2>1
      <3> HIDE DEF newer
      <3>2. QED BY <2>1, <3>1, FS_Subset
    <2>3. s \in out => Cardinality(newer(q)) <= Cardinality(newer(s))
      BY <1>2, <1>3
    <2>4. Cardinality(newer(q)) \in Nat /\ Cardinality(newer(s)) \in Nat
      BY <1>1
    <2>5. QED BY <2>2, <2>3, <2>4
  <1>5. Cardinality(newer(q)) >= TopRows
    <2>1. ~(Cardinality(newer(q)) < TopRows)
      BY DEF TopOf
    <2>2. Cardinality(newer(q)) \in Nat /\ TopRows \in Nat
      BY <1>1, DashboardAssumption
    <2> HIDE DEF newer
    <2>3. QED BY <2>1, <2>2
  <1>6. newer(q) \in SUBSET TopOf(rows) /\ IsFiniteSet(TopOf(rows))
    <2>1. newer(q) \in SUBSET TopOf(rows) /\ TopOf(rows) \in SUBSET rows
      BY <1>4 DEF TopOf
    <2>2. QED BY <2>1, FS_Subset
  <1>7. Cardinality(newer(q)) <= Cardinality(TopOf(rows)) /\ Cardinality(TopOf(rows)) \in Nat
    <2> HIDE DEF newer
    <2>1. QED BY <1>6, FS_Subset, FS_CardinalityType
  <1>8. Cardinality(newer(q)) \in Nat /\ TopRows \in Nat
    BY <1>1, DashboardAssumption
  <1> HIDE DEF newer
  <1>9. QED BY <1>5, <1>7, <1>8

(* They are all there, while the table can hold them.                      *)
LEMMA TopHoldsAll ==
    ASSUME NEW rows, IsFiniteSet(rows),
           \A r \in rows : About(r).at \in Int /\ r.engagement \in Int,
           Cardinality(rows) <= TopRows
    PROVE  TopOf(rows) = rows
  <1> SUFFICES ASSUME NEW r \in rows
               PROVE  Cardinality({q \in rows : Newer(q, r)}) < TopRows
    BY DEF TopOf
  <1> DEFINE newer == {q \in rows : Newer(q, r)}
  <1>1. newer \in SUBSET rows /\ r \notin newer
    BY DEF Newer
  <1> HIDE DEF newer
  <1>2. /\ Cardinality(newer) <= Cardinality(rows) /\ Cardinality(newer) # Cardinality(rows)
        /\ IsFiniteSet(newer)
    BY <1>1, FS_Subset
  <1>3. Cardinality(newer) \in Nat /\ Cardinality(rows) \in Nat /\ TopRows \in Nat
    BY <1>2, FS_CardinalityType, DashboardAssumption
  <1>4. Cardinality(newer) < TopRows
    BY <1>2, <1>3
  <1>5. QED BY <1>4 DEF newer

Insights == [target : DOMAIN Targets, content : DOMAIN Contents, relevance : Int,
             sentiment : {a.sentiment : a \in Analyses}, engagement : Int, flushed : BOOLEAN]

(* An order of places is one of all of them.                               *)
LEMMA OrderOfAll ==
    ASSUME NEW n \in Nat, NEW K \in SUBSET (1 .. n), NEW order \in InOrder(K)
    PROVE  /\ Cardinality(K) \in Nat
           /\ order \in [1 .. Cardinality(K) -> K]
           /\ \A i \in K : \E l \in 1 .. Cardinality(K) : order[l] = i
           /\ \A k, l \in 1 .. Cardinality(K) : k > l <=> order[k] > order[l]
  <1> DEFINE N == Cardinality(K)
  <1>1. IsFiniteSet(K) /\ N \in Nat
    <2>1. IsFiniteSet(1 .. n)
      BY FS_Interval
    <2>2. IsFiniteSet(K)
      BY <2>1, FS_Subset
    <2>3. QED BY <2>2, FS_CardinalityType
  <1>0. K \subseteq Int
    OBVIOUS
  <1>2. /\ order \in [1 .. N -> K]
        /\ \A k, l \in 1 .. N : k < l => order[k] < order[l]
    BY DEF InOrder
  <1>3. IsFiniteSet(1 .. N) /\ Cardinality(1 .. N) = N
    BY <1>1, FS_Interval
  <1>4. order \in Injection(1 .. N, K)
    <2>1. ASSUME NEW k \in 1 .. N, NEW l \in 1 .. N, order[k] = order[l] PROVE k = l
      <3>1. k < l \/ l < k \/ k = l
        BY <1>1
      <3>2. order[k] \in Int /\ order[l] \in Int
        BY <1>0, <1>2
      <3>3. QED BY <1>2, <2>1, <3>1, <3>2
    <2> HIDE DEF N
    <2>2. QED BY <1>2, <2>1 DEF Injection, IsInjective
  <1>5. order \in Surjection(1 .. N, K)
    BY <1>1, <1>3, <1>4, FS_Injection
  <1>6. \A i \in K : \E l \in 1 .. N : order[l] = i
    <2> HIDE DEF N
    <2>1. QED BY <1>5 DEF Surjection
  <1>7. ASSUME NEW k \in 1 .. N, NEW l \in 1 .. N PROVE k > l <=> order[k] > order[l]
    <2>1. order[k] \in Int /\ order[l] \in Int
      BY <1>0, <1>2
    <2>2. k < l \/ l < k \/ k = l
      BY <1>1
    <2>3. QED BY <1>2, <2>1, <2>2
  <1>8. QED BY <1>1, <1>2, <1>6, <1>7

(* Leaving rows of other projects out, and adding some behind, changes     *)
(* nothing in a project's slice.                                           *)
LEMMA SliceStays ==
    ASSUME posts \in Seq(Insights), NEW K \in SUBSET (DOMAIN posts), NEW order \in InOrder(K),
           NEW tail \in Seq(Insights), NEW p,
           \A i \in DOMAIN posts : ProjectOf(posts[i]) = p => i \in K,
           \A i \in DOMAIN tail : ProjectOf(tail[i]) # p
    PROVE  Slice(p, RowsAt(order) \o tail) = Slice(p, posts)
  <1> DEFINE N == Cardinality(K)
             new == RowsAt(order) \o tail
             mine(r) == ProjectOf(r) = p /\ Dated(r) /\ Eligible(r)
             A == {i \in DOMAIN posts : mine(posts[i])}
             B == {i \in DOMAIN new : mine(new[i])}
  <1>1. /\ N \in Nat
        /\ order \in [1 .. N -> K]
        /\ \A i \in K : \E l \in 1 .. N : order[l] = i
        /\ \A k, l \in 1 .. N : k > l <=> order[k] > order[l]
    <2>1. DOMAIN posts = 1 .. Len(posts) /\ Len(posts) \in Nat
      OBVIOUS
    <2>2. QED BY <2>1, OrderOfAll
  <1>2. /\ DOMAIN new = 1 .. N + Len(tail)
        /\ \A n \in 1 .. N : new[n] = posts[order[n]]
        /\ \A n \in DOMAIN new : n \notin 1 .. N => \E i \in DOMAIN tail : new[n] = tail[i]
    <2>1. RowsAt(order) \in Seq(Insights) /\ Len(RowsAt(order)) = N
      BY <1>1 DEF RowsAt
    <2>2. \A n \in 1 .. N : RowsAt(order)[n] = posts[order[n]]
      BY <1>1 DEF RowsAt
    <2> DEFINE front == RowsAt(order)
    <2> HIDE DEF N, front
    <2>3. DOMAIN (front \o tail) = 1 .. N + Len(tail)
      <3>1. front \in Seq(Insights) /\ Len(front) = N
        BY <2>1 DEF front
      <3>2. front \o tail \in Seq(Insights)
        BY <3>1
      <3>3. Len(front \o tail) = N + Len(tail)
        BY <3>1
      <3>4. QED BY <3>2, <3>3
    <2>4. ASSUME NEW n \in 1 .. N PROVE (front \o tail)[n] = front[n]
      BY <1>1, <2>1 DEF front
    <2>5. ASSUME NEW n \in 1 .. N + Len(tail), n \notin 1 .. N
          PROVE  \E i \in DOMAIN tail : (front \o tail)[n] = tail[i]
      <3>1. n - N \in DOMAIN tail /\ (front \o tail)[n] = tail[n - N]
        BY <1>1, <2>1, <2>5 DEF front
      <3>2. QED BY <3>1
    <2>6. QED BY <2>2, <2>3, <2>4, <2>5 DEF front
  <1>3. ASSUME NEW n \in B PROVE n \in 1 .. N /\ order[n] \in A /\ new[n] = posts[order[n]]
    <2>1. n \in 1 .. N
      <3>1. n \in DOMAIN new /\ ProjectOf(new[n]) = p
        OBVIOUS
      <3> HIDE DEF new, N
      <3>2. QED BY <1>2, <3>1
    <2>2. new[n] = posts[order[n]] /\ order[n] \in DOMAIN posts
      BY <1>1, <1>2, <2>1
    <2>3. QED BY <2>1, <2>2
  <1>4. ASSUME NEW i \in A PROVE \E n \in B : order[n] = i
    <2>1. PICK n \in 1 .. N : order[n] = i
      BY <1>1
    <2>2. n \in DOMAIN new /\ new[n] = posts[i]
      BY <1>1, <1>2, <2>1
    <2>3. QED BY <2>1, <2>2
  <1>5. A \subseteq Int /\ B \subseteq Int
    BY <1>2
  <1>6. \A k, l \in B : k > l <=> order[k] > order[l]
    BY <1>1, <1>3
  <1>7. Latest(new, B) = Latest(posts, A)
    <2>1. \A n \in B : order[n] \in A /\ new[n] = posts[order[n]]
      BY <1>3
    <2>2. \A i \in A : \E n \in B : order[n] = i
      BY <1>4
    <2>3. SameRows(posts, A, new, B, order)
      BY <1>5, <1>6, <2>1, <2>2 DEF SameRows
    <2> HIDE DEF new, A, B
    <2>4. QED BY <2>3, SameLatest
  <1>8. QED BY <1>7 DEF Slice

(* Without the mart, the queries find every content they ask for.          *)
LEMMA QueriesFindAll == posts \in Seq(Insights) => FlushHidesOnlyItsRows
  <1> SUFFICES ASSUME posts \in Seq(Insights), ~useMart,
                      NEW S \in Everyone, NEW scope \in Scopes
               PROVE  {r.content : r \in Base(S, scope, NoFilter)} =
                        {r.content : r \in {q \in Range(posts) :
                            ProjectOf(q) \in S /\ Worthy(q, scope) /\ InScope(q, scope)}}
    BY DEF FlushHidesOnlyItsRows
  <1> DEFINE asked(r) == ProjectOf(r) \in S /\ Worthy(r, scope) /\ InScope(r, scope)
             A == {i \in DOMAIN posts : asked(posts[i])}
             rows == {q \in Range(posts) : asked(q)}
  <1>1. Base(S, scope, NoFilter) = Latest(posts, A)
    BY DEF Base, FilterFirst, Asked
  <1>2. \A r \in Latest(posts, A) : r \in rows
    BY DEF Latest, Range
  <1>3. ASSUME NEW q \in rows PROVE \E r \in Latest(posts, A) : r.content = q.content
    <2>1. PICK i \in A : q = posts[i]
      BY DEF Range
    <2>2. Len(posts) \in Nat /\ A \in SUBSET (1 .. Len(posts))
      OBVIOUS
    <2> HIDE DEF A, rows
    <2>3. QED BY <2>1, <2>2, LatestThere
  <1>4. {r.content : r \in Latest(posts, A)} = {r.content : r \in rows}
    <2> HIDE DEF A, rows
    <2>1. QED BY <1>2, <1>3
  <1>5. QED BY <1>1, <1>4

------------------------------------------------------------------------------
\* The rollup tables of the dashboard.

TableRows == [kpi : SUBSET Insights, top : SUBSET Insights, metrics : SUBSET Insights]

\* What the state of the dashboard is made of.
DashboardTypes ==
    /\ posts \in Seq(Insights)
    /\ mart \in SUBSET Insights /\ IsFiniteSet(mart)
    /\ tables \in [CrawledProjects -> TableRows]
    /\ refresh \in [project : SUBSET CrawledProjects, kpi : SUBSET Insights,
                    top : SUBSET Insights, done : 0 .. 2]
    /\ behind \in SUBSET CrawledProjects
    /\ DOMAIN heap = {"at", "mentions", "keywords", "torn"}

\* What the rollup tables of p hold when they are up to date.
UpToDate(p) == [kpi     |-> Slice(p, posts),
                top     |-> TopOf(Slice(p, posts)),
                metrics |-> Slice(p, posts)]

\* The tables of a project whose posts have not changed since its refresh began,
\* and what this refresh has computed while it runs, are those of its posts.
TablesTold ==
    /\ \A p, q \in refresh.project : p = q
    /\ \A p \in refresh.project \ behind :
          /\ refresh.kpi = Slice(p, posts)
          /\ refresh.done = 2 => refresh.top = TopOf(Slice(p, posts))
    /\ \A p \in CrawledProjects \ (behind \cup refresh.project) : tables[p] = UpToDate(p)

(* What a statement selects for a project are rows of posts.               *)
LEMMA SliceRows ==
    ASSUME posts \in Seq(Insights), NEW p
    PROVE  /\ Slice(p, posts) \in SUBSET Insights
           /\ IsFiniteSet(Slice(p, posts))
           /\ TopOf(Slice(p, posts)) \in SUBSET Insights
  <1> DEFINE A == {i \in DOMAIN posts : /\ ProjectOf(posts[i]) = p
                                        /\ Dated(posts[i]) /\ Eligible(posts[i])}
  <1>1. A \in SUBSET (DOMAIN posts)
    OBVIOUS
  <1>2. Slice(p, posts) = Latest(posts, A)
    BY DEF Slice
  <1>3. Slice(p, posts) \in SUBSET Insights /\ IsFiniteSet(Slice(p, posts))
    <2> HIDE DEF A
    <2>1. QED BY <1>1, <1>2, LatestFinite
  <1>4. TopOf(Slice(p, posts)) \in SUBSET Slice(p, posts)
    BY DEF TopOf
  <1>5. QED BY <1>3, <1>4

(* At the start the tables are those of the posts.                         *)
LEMMA DashboardStarts == DashboardInit => DashboardTypes /\ TablesTold
  <1> SUFFICES ASSUME DashboardInit PROVE DashboardTypes /\ TablesTold
    OBVIOUS
  <1>1. posts \in Seq(Insights) /\ posts = <<>>
    BY DEF DashboardInit
  <1>2. \A p : Slice(p, posts) = {}
    BY <1>1 DEF Slice, Latest
  <1>3. TopOf({}) = {}
    BY DEF TopOf
  <1>4. NoTables \in TableRows /\ NoTables = [kpi |-> {}, top |-> {}, metrics |-> {}]
    BY DEF NoTables, TableRows
  <1>5. IsFiniteSet({})
    BY FS_EmptySet
  <1>6. DashboardTypes
    <2>1. tables \in [CrawledProjects -> TableRows]
      BY <1>4 DEF DashboardInit
    <2>2. refresh \in [project : SUBSET CrawledProjects, kpi : SUBSET Insights,
                       top : SUBSET Insights, done : 0 .. 2]
      BY DEF DashboardInit, NoRefresh
    <2>3. DOMAIN heap = {"at", "mentions", "keywords", "torn"}
      BY DEF DashboardInit, NoHeap
    <2>4. mart = {} /\ behind = {}
      BY DEF DashboardInit
    <2>5. QED BY <1>1, <1>5, <2>1, <2>2, <2>3, <2>4 DEF DashboardTypes
  <1>7. TablesTold
    <2>1. refresh.project = {}
      BY DEF DashboardInit, NoRefresh
    <2>2. \A p \in CrawledProjects : tables[p] = UpToDate(p)
      BY <1>2, <1>3, <1>4 DEF DashboardInit, UpToDate
    <2>3. QED BY <2>1, <2>2 DEF TablesTold
  <1>8. QED BY <1>6, <1>7

(* The consumer's upsert, with or without the row it replaces.             *)
LEMMA AnalyseKeeps ==
    ASSUME DashboardTypes, TablesTold, NEW t \in DOMAIN Targets, NEW c \in DOMAIN Contents,
           NEW a \in Analyses, Analyse(t, c, a)
    PROVE  DashboardTypes' /\ TablesTold'
  <1> DEFINE row == [target |-> t, content |-> c, relevance |-> a.relevance,
                     sentiment |-> a.sentiment, engagement |-> a.engagement, flushed |-> FALSE]
             own == {i \in DOMAIN posts :
                        posts[i].content = c /\ ProjectOf(posts[i]) = ProjectOf(row)}
  <1>1. row \in Insights /\ ProjectOf(row) \in CrawledProjects
    BY DashboardAssumption DEF Insights, ProjectOf, CrawledProjects
  <1>2. /\ \E before \in {DOMAIN posts \ own, DOMAIN posts} :
              \E order \in InOrder(before) : posts' = Append(RowsAt(order), row)
        /\ behind' = behind \cup {ProjectOf(row)}
        /\ UNCHANGED <<mart, tables, refresh, heap>>
    BY DEF Analyse
  <1>3. PICK before \in {DOMAIN posts \ own, DOMAIN posts} :
            \E order \in InOrder(before) : posts' = Append(RowsAt(order), row)
    BY <1>2
  <1>4. PICK order \in InOrder(before) : posts' = Append(RowsAt(order), row)
    BY <1>3
  <1>5. before \in SUBSET (DOMAIN posts) /\ posts \in Seq(Insights)
    BY DEF DashboardTypes
  <1>6. RowsAt(order) \in Seq(Insights)
    <2>1. DOMAIN posts = 1 .. Len(posts) /\ Len(posts) \in Nat
      BY <1>5
    <2> HIDE DEF own
    <2>2. Cardinality(before) \in Nat /\ order \in [1 .. Cardinality(before) -> before]
      BY <1>5, <2>1, OrderOfAll
    <2>3. QED BY <1>5, <2>2 DEF RowsAt
  <1>7. posts' \in Seq(Insights) /\ posts' = RowsAt(order) \o <<row>>
    <2> HIDE DEF row
    <2>1. QED BY <1>1, <1>4, <1>6
  <1>8. ASSUME NEW p, p # ProjectOf(row) PROVE Slice(p, posts') = Slice(p, posts)
    <2>1. \A i \in DOMAIN posts : ProjectOf(posts[i]) = p => i \in before
      BY <1>8
    <2> HIDE DEF own, row
    <2>2. <<row>> \in Seq(Insights) /\ \A i \in DOMAIN <<row>> : ProjectOf(<<row>>[i]) # p
      BY <1>1, <1>8
    <2>3. Slice(p, RowsAt(order) \o <<row>>) = Slice(p, posts)
      BY <1>5, <2>1, <2>2, SliceStays
    <2>4. QED BY <1>7, <2>3
  <1> HIDE DEF row, own
  <1>9. DashboardTypes'
    BY <1>1, <1>2, <1>7 DEF DashboardTypes
  <1>10. TablesTold'
    BY <1>2, <1>8 DEF TablesTold, UpToDate
  <1>11. QED BY <1>9, <1>10

(* A flush, which marks the rows of a target and puts them last.           *)
LEMMA HideKeeps ==
    ASSUME DashboardTypes, TablesTold, NEW t \in DOMAIN Targets, Hide(t)
    PROVE  DashboardTypes' /\ TablesTold'
  <1> DEFINE mine == {i \in DOMAIN posts : posts[i].target = t /\ ~posts[i].flushed}
             marked(order) == [n \in DOMAIN order |-> [posts[order[n]] EXCEPT !.flushed = TRUE]]
  <1>1. /\ \E order \in InOrder(mine), others \in InOrder(DOMAIN posts \ mine) :
              posts' = RowsAt(others) \o marked(order)
        /\ behind' = behind \cup {ProjectOf(posts[i]) : i \in mine}
        /\ UNCHANGED <<mart, tables, refresh, heap>>
    BY DEF Hide
  <1>2. PICK order \in InOrder(mine), others \in InOrder(DOMAIN posts \ mine) :
            posts' = RowsAt(others) \o marked(order)
    BY <1>1
  <1>3. posts \in Seq(Insights) /\ DOMAIN posts = 1 .. Len(posts) /\ Len(posts) \in Nat
    BY DEF DashboardTypes
  <1>4. mine \in SUBSET (DOMAIN posts) /\ DOMAIN posts \ mine \in SUBSET (DOMAIN posts)
    OBVIOUS
  <1>5. /\ Cardinality(mine) \in Nat /\ order \in [1 .. Cardinality(mine) -> mine]
        /\ Cardinality(DOMAIN posts \ mine) \in Nat
        /\ others \in [1 .. Cardinality(DOMAIN posts \ mine) -> DOMAIN posts \ mine]
    <2> DEFINE rest == DOMAIN posts \ mine
    <2>1. mine \in SUBSET (1 .. Len(posts)) /\ rest \in SUBSET (1 .. Len(posts))
      BY <1>3, <1>4
    <2>2. order \in InOrder(mine) /\ others \in InOrder(rest)
      BY <1>2
    <2> HIDE DEF mine, rest
    <2>3. /\ Cardinality(mine) \in Nat /\ order \in [1 .. Cardinality(mine) -> mine]
          /\ Cardinality(rest) \in Nat /\ others \in [1 .. Cardinality(rest) -> rest]
      BY <1>3, <2>1, <2>2, OrderOfAll
    <2>4. QED BY <2>3 DEF rest
  <1>6. ASSUME NEW i \in DOMAIN posts
        PROVE  /\ [posts[i] EXCEPT !.flushed = TRUE] \in Insights
               /\ ProjectOf([posts[i] EXCEPT !.flushed = TRUE]) = ProjectOf(posts[i])
               /\ ProjectOf(posts[i]) \in CrawledProjects
    <2>1. posts[i] \in Insights
      BY <1>3
    <2>2. QED BY <2>1 DEF Insights, ProjectOf, CrawledProjects
  <1>7. /\ marked(order) \in Seq(Insights)
        /\ \A n \in DOMAIN marked(order) :
              \E i \in mine : ProjectOf(marked(order)[n]) = ProjectOf(posts[i])
    <2>1. \A n \in DOMAIN order : order[n] \in mine /\ order[n] \in DOMAIN posts
      BY <1>4, <1>5
    <2>2. marked(order) \in [1 .. Cardinality(mine) -> Insights]
      <3> HIDE DEF mine
      <3>1. QED BY <1>5, <1>6, <2>1
    <2>3. marked(order) \in Seq(Insights)
      <3> HIDE DEF mine, marked
      <3>1. QED BY <1>5, <2>2
    <2>4. \A n \in DOMAIN marked(order) : ProjectOf(marked(order)[n]) = ProjectOf(posts[order[n]])
      <3> HIDE DEF mine
      <3>1. QED BY <1>6, <2>1
    <2> HIDE DEF mine
    <2>5. \A n \in DOMAIN marked(order) : n \in DOMAIN order
      OBVIOUS
    <2> HIDE DEF marked
    <2>6. QED BY <2>1, <2>3, <2>4, <2>5
  <1>8. RowsAt(others) \in Seq(Insights)
    <2> DEFINE N == Cardinality(DOMAIN posts \ mine)
    <2>1. \A n \in 1 .. N : others[n] \in DOMAIN posts
      BY <1>4, <1>5
    <2>2. DOMAIN others = 1 .. N /\ N \in Nat
      BY <1>5
    <2> HIDE DEF N, mine
    <2>3. \A n \in 1 .. N : posts[others[n]] \in Insights
      BY <1>3, <2>1
    <2>4. QED BY <2>2, <2>3 DEF RowsAt
  <1>9. posts' \in Seq(Insights)
    <2> HIDE DEF mine, marked
    <2>1. QED BY <1>2, <1>7, <1>8
  <1>10. ASSUME NEW p, p \notin {ProjectOf(posts[i]) : i \in mine}
         PROVE  Slice(p, posts') = Slice(p, posts)
    <2> DEFINE rest == DOMAIN posts \ mine
    <2>1. \A i \in DOMAIN posts : ProjectOf(posts[i]) = p => i \in rest
      BY <1>10
    <2>2. \A n \in DOMAIN marked(order) : ProjectOf(marked(order)[n]) # p
      <3> HIDE DEF mine, marked
      <3>1. QED BY <1>7, <1>10
    <2>3. others \in InOrder(rest) /\ rest \in SUBSET (DOMAIN posts)
      BY <1>2, <1>4
    <2>4. marked(order) \in Seq(Insights)
      BY <1>7
    <2> DEFINE tail == marked(order)
    <2>5. Slice(p, RowsAt(others) \o tail) = Slice(p, posts)
      <3> HIDE DEF mine, marked, rest, tail
      <3>1. tail \in Seq(Insights) /\ \A i \in DOMAIN tail : ProjectOf(tail[i]) # p
        BY <2>2, <2>4 DEF tail
      <3>2. QED BY <1>3, <2>1, <2>3, <3>1, SliceStays
    <2>6. QED BY <1>2, <2>5
  <1>11. {ProjectOf(posts[i]) : i \in mine} \subseteq CrawledProjects
    BY <1>4, <1>6
  <1> HIDE DEF mine, marked
  <1>12. DashboardTypes'
    BY <1>1, <1>9, <1>11 DEF DashboardTypes
  <1>13. TablesTold'
    BY <1>1, <1>10 DEF TablesTold, UpToDate
  <1>14. QED BY <1>12, <1>13

\* While no refresh of the mart came in between, the heap's counts are those of
\* the mart, and its keywords' counts no larger.
HeapTold ==
    /\ heap.at # "none" => reader = "heap"
    /\ heap.at = "asked" /\ ~heap.torn =>
          \A p \in DOMAIN heap.mentions : heap.mentions[p] = Totals(Recent({p}))
    /\ heap.at = "answered" /\ ~heap.torn =>
          \A p \in DOMAIN heap.keywords : \A w \in DOMAIN heap.keywords[p] :
              heap.keywords[p][w].mentions <= heap.mentions[p].mentions

(* The refresh of a project, statement by statement.                       *)
LEMMA RefreshKeeps ==
    ASSUME DashboardTypes, TablesTold,
           (\E p \in CrawledProjects : BeginRefresh(p)) \/ FillTop \/ CommitRefresh
    PROVE  DashboardTypes' /\ TablesTold'
  <1>0. /\ posts \in Seq(Insights)
        /\ refresh \in [project : SUBSET CrawledProjects, kpi : SUBSET Insights,
                        top : SUBSET Insights, done : 0 .. 2]
        /\ tables \in [CrawledProjects -> TableRows]
    BY DEF DashboardTypes
  <1>1. ASSUME NEW p \in CrawledProjects, BeginRefresh(p) PROVE DashboardTypes' /\ TablesTold'
    <2>1. /\ refresh' = [project |-> {p}, kpi |-> Slice(p, posts), top |-> {}, done |-> 1]
          /\ refresh.project = {} /\ behind' = behind \ {p}
          /\ UNCHANGED <<posts, mart, tables, heap>>
      BY <1>1 DEF BeginRefresh, NoRefresh
    <2>2. Slice(p, posts) \in SUBSET Insights
      BY <1>0, SliceRows
    <2>3. DashboardTypes'
      BY <2>1, <2>2 DEF DashboardTypes
    <2>4. TablesTold'
      BY <2>1 DEF TablesTold, UpToDate
    <2>5. QED BY <2>3, <2>4
  <1>2. ASSUME FillTop PROVE DashboardTypes' /\ TablesTold'
    <2>1. PICK p \in refresh.project :
              refresh' = [refresh EXCEPT !.top = TopOf(Slice(p, posts)), !.done = 2]
      BY <1>2 DEF FillTop
    <2>2. UNCHANGED <<posts, mart, tables, behind, heap>>
      BY <1>2 DEF FillTop
    <2>3. TopOf(Slice(p, posts)) \in SUBSET Insights
      BY <1>0, SliceRows
    <2>4. /\ refresh'.project = refresh.project /\ refresh'.kpi = refresh.kpi
          /\ refresh'.top = TopOf(Slice(p, posts))
          /\ refresh' \in [project : SUBSET CrawledProjects, kpi : SUBSET Insights,
                           top : SUBSET Insights, done : 0 .. 2]
      <3> DEFINE top == TopOf(Slice(p, posts))
      <3>1. top \in SUBSET Insights /\ refresh' = [refresh EXCEPT !.top = top, !.done = 2]
        BY <2>1, <2>3
      <3> HIDE DEF top
      <3>2. refresh' \in [project : SUBSET CrawledProjects, kpi : SUBSET Insights,
                          top : SUBSET Insights, done : 0 .. 2]
        <4>1. refresh' = [project |-> refresh.project, kpi |-> refresh.kpi, top |-> top, done |-> 2]
          BY <1>0, <3>1
        <4>2. refresh.project \in SUBSET CrawledProjects /\ refresh.kpi \in SUBSET Insights
          BY <1>0
        <4>3. QED BY <3>1, <4>1, <4>2
      <3>3. refresh'.project = refresh.project /\ refresh'.kpi = refresh.kpi /\ refresh'.top = top
        BY <1>0, <3>1
      <3>4. QED BY <3>2, <3>3 DEF top
    <2>5. DashboardTypes'
      BY <2>2, <2>4 DEF DashboardTypes
    <2>6. TablesTold'
      BY <2>1, <2>2, <2>4 DEF TablesTold, UpToDate
    <2>7. QED BY <2>5, <2>6
  <1>3. ASSUME CommitRefresh PROVE DashboardTypes' /\ TablesTold'
    <2>1. PICK p \in refresh.project :
              tables' = [tables EXCEPT ![p] = [kpi |-> refresh.kpi, top |-> refresh.top,
                                               metrics |-> Slice(p, posts)]]
      BY <1>3 DEF CommitRefresh
    <2>2. /\ refresh.done = 2
          /\ refresh' = [project |-> {}, kpi |-> {}, top |-> {}, done |-> 0]
          /\ UNCHANGED <<posts, mart, behind, heap>>
      BY <1>3 DEF CommitRefresh, NoRefresh
    <2>3. /\ Slice(p, posts) \in SUBSET Insights
          /\ [kpi |-> refresh.kpi, top |-> refresh.top, metrics |-> Slice(p, posts)] \in TableRows
      <3>1. Slice(p, posts) \in SUBSET Insights
        BY <1>0, SliceRows
      <3>2. QED BY <1>0, <3>1 DEF TableRows
    <2>4. DashboardTypes'
      <3>1. tables' \in [CrawledProjects -> TableRows]
        BY <1>0, <2>1, <2>3
      <3>2. QED BY <2>2, <3>1 DEF DashboardTypes
    <2>5. TablesTold'
      <3>1. ASSUME NEW q \in CrawledProjects \ behind PROVE tables'[q] = UpToDate(q)
        <4>1. CASE q = p
          <5>1. refresh.kpi = Slice(p, posts) /\ refresh.top = TopOf(Slice(p, posts))
            BY <2>2, <3>1, <4>1 DEF TablesTold
          <5>2. QED BY <1>0, <2>1, <4>1, <5>1 DEF UpToDate
        <4>2. CASE q # p
          <5>1. q \notin refresh.project
            BY <4>2 DEF TablesTold
          <5>2. QED BY <1>0, <2>1, <3>1, <4>2, <5>1 DEF TablesTold
        <4>3. QED BY <4>1, <4>2
      <3>2. QED BY <2>2, <3>1 DEF TablesTold, UpToDate
    <2>6. QED BY <2>4, <2>5
  <1>4. QED BY <1>1, <1>2, <1>3

(* The others leave posts and tables alone.                                *)
LEMMA OthersKeep ==
    ASSUME DashboardTypes, TablesTold,
           \/ RefreshMart \/ AnswerHeap \/ HeapSent \/ Tick
           \/ \E S \in SUBSET CrawledProjects \ {{}} : AskHeap(S)
           \/ UNCHANGED dashboardVars
    PROVE  DashboardTypes' /\ TablesTold'
  <1> DEFINE Fields == {"at", "mentions", "keywords", "torn"}
  <1>1. UNCHANGED <<posts, tables, refresh, behind>>
    BY DEF RefreshMart, AnswerHeap, HeapSent, Tick, AskHeap, dashboardVars
  <1>2. TablesTold'
    BY <1>1 DEF TablesTold, UpToDate
  <1>3. mart' \in SUBSET Insights /\ IsFiniteSet(mart')
    <2>1. CASE mart' = MartOf(posts)
      <3> DEFINE A == {i \in DOMAIN posts : Eligible(posts[i])}
      <3>1. posts \in Seq(Insights) /\ A \in SUBSET (DOMAIN posts) /\ mart' = Latest(posts, A)
        BY <2>1 DEF DashboardTypes, MartOf
      <3> HIDE DEF A
      <3>2. QED BY <3>1, LatestFinite
    <2>2. CASE mart' = mart
      BY <2>2 DEF DashboardTypes
    <2>3. QED BY <2>1, <2>2 DEF RefreshMart, AnswerHeap, HeapSent, Tick, AskHeap, dashboardVars
  <1>4. DOMAIN heap' = Fields
    <2>1. DOMAIN heap = Fields /\ DOMAIN NoHeap = Fields
      BY DEF DashboardTypes, NoHeap
    <2>2. CASE RefreshMart
      BY <2>1, <2>2 DEF RefreshMart
    <2>3. CASE AnswerHeap
      BY <2>1, <2>3 DEF AnswerHeap
    <2>4. CASE heap' = heap \/ heap' = NoHeap
      BY <2>1, <2>4
    <2>5. ASSUME NEW S \in SUBSET CrawledProjects \ {{}}, AskHeap(S) PROVE DOMAIN heap' = Fields
      BY <2>1, <2>5 DEF AskHeap
    <2>6. QED BY <2>2, <2>3, <2>4, <2>5 DEF HeapSent, Tick, dashboardVars
  <1>5. DashboardTypes'
    BY <1>1, <1>3, <1>4 DEF DashboardTypes
  <1>6. QED BY <1>2, <1>5

(* Every step keeps what the tables tell.                                  *)
LEMMA DashboardStep ==
    DashboardTypes /\ TablesTold /\ [DashboardNext]_dashboardVars => DashboardTypes' /\ TablesTold'
  BY AnalyseKeeps, HideKeeps, RefreshKeeps, OthersKeep DEF DashboardNext

(* A part of a finite set of rows has no more mentions.                    *)
LEMMA FewerMentions ==
    ASSUME NEW S, IsFiniteSet(S), NEW T \in SUBSET S
    PROVE  Totals(T).mentions <= Totals(S).mentions
  <1>1. Totals(T).mentions = Cardinality(T) /\ Totals(S).mentions = Cardinality(S)
    BY DEF Totals
  <1>2. QED BY <1>1, FS_Subset

(* The heap's first query.                                                 *)
LEMMA AskKeeps ==
    ASSUME NEW S \in SUBSET CrawledProjects \ {{}}, AskHeap(S)
    PROVE  HeapTold'
  <1> DEFINE key == [r \in Recent(S) |-> ProjectOf(r)]
  <1>1. /\ reader = "heap" /\ UNCHANGED <<reader, mart, now>>
        /\ heap' = [NoHeap EXCEPT !.at = "asked", !.mentions = GroupBy(key)]
    BY DEF AskHeap, env
  <1>2. heap'.at = "asked" /\ heap'.mentions = GroupBy(key)
    BY <1>1 DEF NoHeap
  <1>3. ASSUME NEW p \in DOMAIN GroupBy(key) PROVE GroupBy(key)[p] = Totals(Recent({p}))
    <2>1. p \in Range(key) /\ GroupBy(key)[p] = Totals({r \in DOMAIN key : key[r] = p})
      BY DEF GroupBy
    <2>2. p \in S
      BY <2>1 DEF Range, Recent
    <2>3. {r \in DOMAIN key : key[r] = p} = Recent({p})
      BY <2>2 DEF Recent
    <2>4. QED BY <2>1, <2>3
  <1>4. Recent({})' = Recent({}) /\ \A p : Recent({p})' = Recent({p})
    BY <1>1 DEF Recent
  <1> HIDE DEF key
  <1>5. QED BY <1>1, <1>2, <1>3, <1>4 DEF HeapTold

(* Its second one.                                                         *)
LEMMA AnswerKeeps ==
    ASSUME DashboardTypes, HeapTold, AnswerHeap
    PROVE  HeapTold'
  <1> DEFINE volumes(p) == KeywordVolumes(HeapRows(p))
             keywords(kept) == [p \in DOMAIN kept |-> [w \in kept[p] |-> volumes(p)[w]]]
  <1>1. PICK kept \in [DOMAIN heap.mentions -> SUBSET Words] :
            /\ \A p \in DOMAIN kept : kept[p] \in Largest(KeywordsPerProject, volumes(p))
            /\ heap' = [heap EXCEPT !.at = "answered", !.keywords = keywords(kept)]
    BY DEF AnswerHeap
  <1>2. /\ heap'.at = "answered" /\ heap'.keywords = keywords(kept)
        /\ heap'.mentions = heap.mentions /\ (heap'.torn <=> heap.torn)
        /\ heap.at = "asked" /\ reader' = reader
    <2> HIDE DEF keywords
    <2>1. heap'.at = "answered" /\ heap'.keywords = keywords(kept) /\ heap'.mentions = heap.mentions
      BY <1>1 DEF DashboardTypes
    <2>2. heap'.torn = heap.torn
      BY <1>1 DEF DashboardTypes
    <2>3. heap.at = "asked" /\ reader' = reader
      BY DEF AnswerHeap, env
    <2>4. QED BY <2>1, <2>2, <2>3
  <1>3. ASSUME ~heap.torn, NEW p \in DOMAIN kept, NEW w \in kept[p]
        PROVE  keywords(kept)[p][w].mentions <= heap.mentions[p].mentions
    <2> DEFINE rows == Recent({p})
               with == {r \in rows : w \in About(r).words}
    <2>1. heap.mentions[p] = Totals(rows)
      BY <1>2, <1>3 DEF HeapTold
    <2>2. w \in DOMAIN volumes(p)
      <3>1. kept[p] \in Largest(KeywordsPerProject, volumes(p))
        BY <1>1
      <3> HIDE DEF volumes
      <3>2. kept[p] \in SUBSET (DOMAIN volumes(p))
        BY <3>1 DEF Largest
      <3>3. QED BY <1>3, <3>2
    <2>3. volumes(p)[w] = Totals(with)
      BY <2>2 DEF KeywordVolumes, HeapRows
    <2>4. keywords(kept)[p][w] = volumes(p)[w]
      <3> HIDE DEF volumes
      <3>1. QED BY <1>3
    <2>5. IsFiniteSet(rows) /\ with \in SUBSET rows
      <3>1. rows \in SUBSET mart /\ IsFiniteSet(mart)
        BY DEF Recent, DashboardTypes
      <3> HIDE DEF rows
      <3>2. QED BY <3>1, FS_Subset
    <2> HIDE DEF rows, with, volumes, keywords
    <2>6. Totals(with).mentions <= Totals(rows).mentions
      BY <2>5, FewerMentions
    <2>7. QED BY <2>1, <2>3, <2>4, <2>6
  <1>4. DOMAIN keywords(kept) = DOMAIN kept
        /\ \A p \in DOMAIN kept : DOMAIN (keywords(kept)[p]) = kept[p]
    <2> HIDE DEF volumes
    <2>1. QED OBVIOUS
  <1> HIDE DEF keywords
  <1>5. ASSUME ~heap'.torn, NEW p \in DOMAIN heap'.keywords, NEW w \in DOMAIN heap'.keywords[p]
        PROVE  heap'.keywords[p][w].mentions <= heap'.mentions[p].mentions
    BY <1>2, <1>3, <1>4, <1>5
  <1>6. heap'.at # "none" => reader' = "heap"
    BY <1>2 DEF HeapTold
  <1>7. QED BY <1>2, <1>5, <1>6 DEF HeapTold

(* The other steps leave the heap or what it was computed from alone.      *)
LEMMA HeapStep ==
    ASSUME DashboardTypes, HeapTold, [DashboardNext]_dashboardVars
    PROVE  HeapTold'
  <1>1. CASE heap.at = "none" /\ heap' = heap
    BY <1>1 DEF HeapTold
  <1>2. CASE heap' = NoHeap
    BY <1>2 DEF HeapTold, NoHeap
  <1>3. ASSUME heap' = heap, UNCHANGED <<reader, mart, now>> PROVE HeapTold'
    <2>1. \A p : Recent({p})' = Recent({p})
      BY <1>3 DEF Recent
    <2>2. QED BY <1>3, <2>1 DEF HeapTold
  <1>4. CASE RefreshMart
    <2>1. /\ heap' = [heap EXCEPT !.torn = heap.torn \/ heap.at = "asked"]
          /\ reader' = reader
      BY <1>4 DEF RefreshMart, env
    <2>2. /\ heap'.at = heap.at /\ heap'.mentions = heap.mentions
          /\ heap'.keywords = heap.keywords
      BY <2>1 DEF DashboardTypes
    <2>3. heap'.torn <=> heap.torn \/ heap.at = "asked"
      BY <2>1 DEF DashboardTypes
    <2>4. QED BY <2>1, <2>2, <2>3 DEF HeapTold
  <1>5. CASE Tick
    BY <1>1, <1>5 DEF Tick, HeapTold
  <1>6. QED
    BY <1>2, <1>3, <1>4, <1>5, AskKeeps, AnswerKeeps
       DEF DashboardNext, Analyse, Hide, BeginRefresh, FillTop, CommitRefresh, HeapSent,
           dashboardVars, env

------------------------------------------------------------------------------
\* What the endpoints answer.

(* The tables of projects whose refresh saw their last change.             *)
LEMMA SettledTables ==
    ASSUME TablesTold, NEW S \in Everyone, Settled(S), NEW p \in S
    PROVE  /\ tables[p].kpi = Slice(p, posts)
           /\ tables[p].top = TopOf(Slice(p, posts))
           /\ tables[p].metrics = Slice(p, posts)
  <1>1. p \in CrawledProjects \ (behind \cup refresh.project)
    BY DEF Settled, Everyone
  <1>2. tables[p] = UpToDate(p)
    BY <1>1 DEF TablesTold
  <1>3. QED BY <1>2 DEF UpToDate

(* What a row says of its time and its engagement can be compared.         *)
LEMMA RowsCompare ==
    ASSUME posts \in Seq(Insights), NEW p
    PROVE  /\ IsFiniteSet(Slice(p, posts))
           /\ \A r \in Slice(p, posts) : About(r).at \in Int /\ r.engagement \in Int
  <1>1. Slice(p, posts) \in SUBSET Insights /\ IsFiniteSet(Slice(p, posts))
    BY SliceRows
  <1>2. ASSUME NEW r \in Insights PROVE About(r).at \in Int /\ r.engagement \in Int
    BY DashboardAssumption DEF Insights, About
  <1>3. QED BY <1>1, <1>2

(* Tables that are told agree with the posts.                              *)
LEMMA TablesDoAgree ==
    ASSUME DashboardTypes, TablesTold
    PROVE  TablesAgree
  <1> SUFFICES ASSUME NEW S \in Everyone, Settled(S)
               PROVE  /\ Totals(Kpi(S)) = Totals(Metrics(S))
                      /\ Top(S) \subseteq Kpi(S)
                      /\ \A r \in Kpi(S) \ Top(S) :
                            \E p \in S : Cardinality(tables[p].top) >= TopRows
    BY DEF TablesAgree
  <1>1. \A p \in S : /\ tables[p].kpi = Slice(p, posts)
                     /\ tables[p].top = TopOf(Slice(p, posts))
                     /\ tables[p].metrics = Slice(p, posts)
    BY SettledTables
  <1>2. Kpi(S) = Metrics(S)
    BY <1>1 DEF Kpi, Metrics
  <1>3. \A rows : TopOf(rows) \subseteq rows
    BY DEF TopOf
  <1>4. Top(S) \subseteq Kpi(S)
    BY <1>1, <1>3 DEF Top, Kpi
  <1>5. ASSUME NEW r \in Kpi(S) \ Top(S)
        PROVE  \E p \in S : Cardinality(tables[p].top) >= TopRows
    <2>1. PICK p \in S : r \in tables[p].kpi
      BY <1>5 DEF Kpi
    <2>2. r \notin tables[p].top
      BY <1>5 DEF Top
    <2> DEFINE rows == Slice(p, posts)
    <2>3. tables[p].kpi = rows /\ tables[p].top = TopOf(rows)
      BY <1>1
    <2>4. /\ IsFiniteSet(rows)
          /\ \A q \in rows : About(q).at \in Int /\ q.engagement \in Int
      BY RowsCompare DEF DashboardTypes
    <2> HIDE DEF rows
    <2>5. Cardinality(TopOf(rows)) >= TopRows
      BY <2>1, <2>2, <2>3, <2>4, TopIsFull
    <2>6. QED BY <2>3, <2>5
  <1>6. QED BY <1>2, <1>4, <1>5

(* Nothing is filtered out of what can be compared.                        *)
LEMMA NothingFiltered ==
    ASSUME NEW S \in Everyone, NEW r, Visible(r)
    PROVE  InScope(r, Everything) /\ Asked(r, NoFilter)
  <1>1. InScope(r, Everything)
    BY DEF InScope, Everything
  <1>2. Asked(r, NoFilter)
    BY DEF Asked
  <1>3. QED BY <1>1, <1>2

(* Where they can be compared, the query finds the rows of the tables.     *)
LEMMA QueryFindsTables ==
    ASSUME DashboardTypes, TablesTold, NEW S \in Everyone, Comparable(S)
    PROVE  /\ Base(S, Everything, NoFilter) = Kpi(S)
           /\ MostEngaging(Kpi(S)) = Kpi(S)
  <1> DEFINE dom == DOMAIN posts
             of(p) == {i \in dom : /\ ProjectOf(posts[i]) = p
                                   /\ Dated(posts[i]) /\ Eligible(posts[i])}
             good == {i \in dom : Eligible(posts[i])}
             rows == {r \in Latest(posts, good) : ProjectOf(r) \in S}
  <1>1. /\ posts \in Seq(Insights) /\ dom = 1 .. Len(posts) /\ dom \subseteq Int
        /\ \A i \in dom : posts[i] \in Range(posts)
    BY DEF DashboardTypes, Range
  <1>2. /\ Settled(S)
        /\ \A i \in dom : Dated(posts[i]) /\ Visible(posts[i])
        /\ \A i, j \in dom : posts[i].content = posts[j].content
                              => ProjectOf(posts[i]) = ProjectOf(posts[j])
    BY <1>1 DEF Comparable
  <1>3. ASSUME NEW p PROVE Slice(p, posts) = Latest(posts, of(p))
    BY DEF Slice
  <1>4. Kpi(S) = UNION {Latest(posts, of(p)) : p \in S}
    <2>1. \A p \in S : tables[p].kpi = Latest(posts, of(p))
      BY <1>2, <1>3, SettledTables
    <2> HIDE DEF of
    <2>2. QED BY <2>1 DEF Kpi
  <1>5. ASSUME NEW p \in S, NEW r \in Latest(posts, of(p)) PROVE r \in rows
    <2>1. PICK i \in of(p) :
              r = posts[i] /\ \A k \in of(p) : k > i => posts[k].content # posts[i].content
      BY DEF Latest
    <2>2. ASSUME NEW k \in good, k > i PROVE posts[k].content # posts[i].content
      <3>1. CASE ProjectOf(posts[k]) = p
        <4>1. k \in of(p)
          BY <1>2, <3>1
        <4>2. QED BY <2>1, <2>2, <4>1
      <3>2. CASE ProjectOf(posts[k]) # p
        BY <1>2, <3>2
      <3>3. QED BY <3>1, <3>2
    <2>3. i \in good /\ ProjectOf(posts[i]) = p
      OBVIOUS
    <2>4. r \in Latest(posts, good)
      <3> HIDE DEF good, of
      <3>1. QED BY <2>1, <2>2, <2>3 DEF Latest
    <2>5. QED BY <2>1, <2>3, <2>4
  <1>6. ASSUME NEW r \in rows PROVE \E p \in S : r \in Latest(posts, of(p))
    <2>1. PICK i \in good :
              r = posts[i] /\ \A k \in good : k > i => posts[k].content # posts[i].content
      BY DEF Latest
    <2> DEFINE p == ProjectOf(r)
    <2>2. i \in of(p) /\ p \in S
      BY <1>2, <2>1
    <2>3. \A k \in of(p) : k \in good
      OBVIOUS
    <2>4. r \in Latest(posts, of(p))
      <3> HIDE DEF good, of, p
      <3>1. QED BY <2>1, <2>2, <2>3 DEF Latest
    <2>5. QED BY <2>2, <2>4
  <1>7. Kpi(S) = rows
    <2> HIDE DEF of, rows
    <2>1. QED BY <1>4, <1>5, <1>6
  <1>8. ASSUME NEW r \in rows PROVE r \in Insights /\ Visible(r)
    BY <1>1, <1>2 DEF Latest
  <1>9. MostEngaging(rows) = rows
    <2>1. ASSUME NEW r \in rows, NEW q \in rows, q.content = r.content
          PROVE  q.engagement <= r.engagement
      <3>1. good \subseteq Int
        BY <1>1
      <3>2. q = r
        <4> HIDE DEF good
        <4>1. QED BY <2>1, <3>1, OneLatest
      <3>3. r.engagement \in Int
        BY <1>8 DEF Insights
      <3>4. QED BY <3>2, <3>3
    <2> HIDE DEF rows
    <2>2. QED BY <2>1 DEF MostEngaging
  <1>10. Base(S, Everything, NoFilter) = rows
    <2>1. CASE useMart
      <3>1. mart = Latest(posts, good)
        BY <2>1 DEF Comparable, MartOf
      <3>2. {r \in mart : /\ ProjectOf(r) \in S /\ InScope(r, Everything)
                          /\ Asked(r, NoFilter)} = rows
        BY <1>8, <3>1, NothingFiltered
      <3> HIDE DEF rows
      <3>3. QED BY <1>9, <2>1, <3>2 DEF Base
    <2>2. CASE ~useMart
      <3> DEFINE A == {i \in dom : ProjectOf(posts[i]) \in S}
      <3>1. \A i \in dom : Worthy(posts[i], Everything) /\ Eligible(posts[i])
        <4>1. \A i \in dom : Worthy(posts[i], Everything)
          BY <1>1, <2>2 DEF Comparable
        <4>2. ASSUME NEW i \in dom PROVE posts[i].relevance \in Int
          <5>1. posts[i] \in Insights
            BY <1>1
          <5>2. QED BY <5>1 DEF Insights
        <4>3. QED BY <4>1, <4>2 DEF Worthy, Everything, Eligible
      <3>2. Base(S, Everything, NoFilter) = Latest(posts, A)
        <4>1. {i \in dom : /\ ProjectOf(posts[i]) \in S /\ Worthy(posts[i], Everything)
                           /\ InScope(posts[i], Everything) /\ Asked(posts[i], NoFilter)} = A
          BY <1>2, <3>1, NothingFiltered
        <4> HIDE DEF A
        <4>2. QED BY <2>2, <4>1 DEF Base, FilterFirst
      <3>3. ASSUME NEW r \in Latest(posts, A) PROVE r \in rows
        <4>1. PICK i \in A :
                  r = posts[i] /\ \A k \in A : k > i => posts[k].content # posts[i].content
          BY DEF Latest
        <4>2. ASSUME NEW k \in good, k > i PROVE posts[k].content # posts[i].content
          <5>1. posts[k].content = posts[i].content => ProjectOf(posts[k]) = ProjectOf(posts[i])
            BY <1>2
          <5>2. ProjectOf(posts[k]) = ProjectOf(posts[i]) => k \in A
            OBVIOUS
          <5>3. QED BY <4>1, <4>2, <5>1, <5>2
        <4>3. i \in good /\ ProjectOf(posts[i]) \in S
          BY <3>1
        <4>4. r \in Latest(posts, good)
          <5> HIDE DEF good, A
          <5>1. QED BY <4>1, <4>2, <4>3 DEF Latest
        <4>5. QED BY <4>1, <4>3, <4>4
      <3>4. ASSUME NEW r \in rows PROVE r \in Latest(posts, A)
        <4>1. PICK i \in good :
                  r = posts[i] /\ \A k \in good : k > i => posts[k].content # posts[i].content
          BY DEF Latest
        <4>2. i \in A /\ \A k \in A : k \in good
          BY <3>1, <4>1
        <4> HIDE DEF good, A
        <4>3. QED BY <4>1, <4>2 DEF Latest
      <3> HIDE DEF A, rows
      <3>5. QED BY <3>2, <3>3, <3>4
    <2>3. QED BY <2>1, <2>2
  <1>11. QED BY <1>7, <1>9, <1>10

(* The endpoints over the tables answer what their queries would.          *)
LEMMA EndpointsDoAgree ==
    ASSUME DashboardTypes, TablesTold, NEW S \in Everyone, Comparable(S)
    PROVE  LET rows == Base(S, Everything, NoFilter)
           IN  /\ Kpis(S, Everything).total = Totals(rows)
               /\ \A f \in PlatformMeta :
                     Platforms(S, Everything).stats[f].total
                         = Totals({r \in rows : About(r).platform = f})
               /\ Sentiment(S, Everything).donut
                     = [l \in Labels |-> Cardinality({r \in rows : r.sentiment = l})]
               /\ Top(S) # {} /\ (\A p \in S : Cardinality(tables[p].kpi) <= TopRows) =>
                     Posts(S, Everything, NoFilter) = rows
  <1> DEFINE rows == Base(S, Everything, NoFilter)
  <1>1. rows = Kpi(S) /\ MostEngaging(Kpi(S)) = Kpi(S)
    BY QueryFindsTables
  <1>2. \A p \in S : /\ tables[p].kpi = Slice(p, posts)
                     /\ tables[p].top = TopOf(Slice(p, posts))
                     /\ tables[p].metrics = Slice(p, posts)
    BY SettledTables DEF Comparable
  <1>3. Metrics(S) = rows
    BY <1>1, <1>2 DEF Kpi, Metrics
  <1>4. Kpis(S, Everything).total = Totals(rows)
    <2>1. \A clock, x : KpisOf(clock, x).total = Totals(x)
      BY DEF KpisOf
    <2> HIDE DEF rows
    <2>2. Kpis(S, Everything) \in {KpisOf("kpi", Kpi(S)), KpisOf("query", rows)}
      BY DEF Kpis, KpisFromRollup, rows
    <2>3. QED BY <1>1, <2>1, <2>2
  <1>5. ASSUME NEW f \in PlatformMeta
        PROVE  Platforms(S, Everything).stats[f].total
                  = Totals({r \in rows : About(r).platform = f})
    <2>1. ASSUME NEW clock, NEW x
          PROVE  PlatformsOf(clock, x).stats[f].total = Totals({r \in x : About(r).platform = f})
      BY DEF PlatformsOf
    <2> DEFINE known == {r \in rows : About(r).platform # Unknown}
    <2>2. {r \in known : About(r).platform = f} = {r \in rows : About(r).platform = f}
      BY DashboardAssumption DEF Unknown
    <2>3. Platforms(S, Everything) \in
              {PlatformsOf("metrics", Metrics(S)), PlatformsOf("query", known)}
      <3> HIDE DEF rows
      <3>1. QED BY DEF Platforms, PlatformsFromRollup, rows
    <2> HIDE DEF rows, known
    <2>4. QED BY <1>3, <2>1, <2>2, <2>3
  <1>6. Sentiment(S, Everything).donut
            = [l \in Labels |-> Cardinality({r \in rows : r.sentiment = l})]
    <2>1. ASSUME NEW clock, NEW x, NEW timed
          PROVE  SentimentOf(clock, x, timed).donut
                   = [l \in Labels |-> Cardinality({r \in x : r.sentiment = l})]
      BY DEF SentimentOf
    <2>2. Sentiment(S, Everything) \in
              {SentimentOf("metrics", Metrics(S), Metrics(S)),
               SentimentOf("query", rows, {r \in rows : About(r).platform # Unknown})}
      BY DEF Sentiment, SentimentFromRollup
    <2> HIDE DEF rows
    <2>3. QED BY <1>3, <2>1, <2>2
  <1>7. ASSUME Top(S) # {}, \A p \in S : Cardinality(tables[p].kpi) <= TopRows
        PROVE  Posts(S, Everything, NoFilter) = rows
    <2>1. ASSUME NEW p \in S PROVE tables[p].top = tables[p].kpi
      <3> DEFINE slice == Slice(p, posts)
      <3>1. /\ IsFiniteSet(slice) /\ Cardinality(slice) <= TopRows
            /\ \A q \in slice : About(q).at \in Int /\ q.engagement \in Int
        BY <1>2, <1>7, RowsCompare DEF DashboardTypes
      <3> HIDE DEF slice
      <3>2. TopOf(slice) = slice
        BY <3>1, TopHoldsAll
      <3>3. QED BY <1>2, <3>2 DEF slice
    <2>2. Top(S) = Kpi(S)
      BY <2>1 DEF Top, Kpi
    <2>3. Posts(S, Everything, NoFilter) = MostEngaging(Top(S))
      BY <1>7 DEF Posts, Unfiltered, Everything
    <2>4. QED BY <1>1, <2>2, <2>3
  <1>8. QED BY <1>4, <1>5, <1>6, <1>7

(* However the refreshes, the flushes and the analyses interleave, the     *)
(* tables of a project whose last change a refresh has seen agree with one *)
(* another and, where they can be compared, with the queries they stand    *)
(* for; and no keyword of the heap has more mentions than its project.     *)
THEOREM AnswersDoAgree == DashboardSpec => []AnswersAgree
  <1> DEFINE Told == DashboardTypes /\ TablesTold /\ HeapTold
  <1>1. DashboardInit => Told
    <2>1. DashboardInit => HeapTold
      BY DEF DashboardInit, NoHeap, HeapTold
    <2>2. QED BY <2>1, DashboardStarts
  <1>2. Told /\ [DashboardNext]_dashboardVars => Told'
    BY DashboardStep, HeapStep
  <1>3. Told => AnswersAgree
    <2>1. Told => TablesAgree
      BY TablesDoAgree
    <2>2. Told => (heap.at = "answered" /\ ~heap.torn =>
                      \A p \in DOMAIN heap.keywords : \A w \in DOMAIN heap.keywords[p] :
                          heap.keywords[p][w].mentions <= heap.mentions[p].mentions)
      BY DEF HeapTold
    <2>3. QED BY <2>1, <2>2, EndpointsDoAgree DEF AnswersAgree
  <1> HIDE DEF Told
  <1>4. QED BY <1>1, <1>2, <1>3, PTL DEF DashboardSpec

(* Without the mart no flush, and no later analysis out of scope, takes a  *)
(* content off the dashboard that another row still shows.                 *)
THEOREM ContentsStayShown == DashboardSpec => []FlushHidesOnlyItsRows
  <1>1. DashboardInit => DashboardTypes /\ TablesTold
    BY DashboardStarts
  <1>2. DashboardTypes /\ TablesTold /\ [DashboardNext]_dashboardVars
           => DashboardTypes' /\ TablesTold'
    BY DashboardStep
  <1>3. DashboardTypes => FlushHidesOnlyItsRows
    BY QueriesFindAll DEF DashboardTypes
  <1>4. QED BY <1>1, <1>2, <1>3, PTL DEF DashboardSpec

------------------------------------------------------------------------------
\* Periods.

(* A date is half a moment, rounded down, and does not skip a day.         *)
LEMMA DaysPass ==
    ASSUME NEW t \in Int, NEW u \in {t, t + 1}
    PROVE  /\ Date(t) \in Int /\ Date(u) \in Int
           /\ Date(t) <= Date(u) /\ Date(u) <= Date(t) + 1
  BY DEF Date

(* A post goes from one period to the one before it, by every clock.       *)
THEOREM PeriodsAdjoin == DashboardSpec => WindowsAdjacent
  <1> DEFINE Timed == now \in Int
  <1>1. DashboardInit => Timed
    BY DashboardAssumption DEF DashboardInit
  <1>2. Timed /\ [DashboardNext]_dashboardVars => now' \in {now, now + 1}
    BY DEF DashboardNext, dashboardVars, env, Analyse, Hide, BeginRefresh, FillTop, CommitRefresh,
           RefreshMart, AskHeap, AnswerHeap, HeapSent, Tick
  <1>3. Timed /\ now' \in {now, now + 1} => Timed'
    OBVIOUS
  <1>4. ASSUME now \in Int, now' \in {now, now + 1} PROVE ChangesPeriod
    <2> SUFFICES ASSUME NEW c \in {d \in DOMAIN Contents : Contents[d].dated}
                 PROVE  ChangesPeriod!(c)
      BY DEF ChangesPeriod
    <2> DEFINE r == [content |-> c]
    <2>1. About(r) = Contents[c] /\ Dated(r) /\ About(r).at \in Int /\ Period \in Nat \ {0}
      BY DashboardAssumption DEF About, Dated
    <2> DEFINE at == About(r).at
    <2>2. /\ ~(QueryPeriod(r, 0)' /\ QueryPeriod(r, 1)')
          /\ QueryPeriod(r, 0) /\ ~(QueryPeriod(r, 0)') => QueryPeriod(r, 1)'
          /\ QueryPeriod(r, 1) => ~(QueryPeriod(r, 0)')
      <3> HIDE DEF r
      <3>1. QED BY <1>4, <2>1 DEF QueryPeriod, About, Dated
    <2>3. /\ Date(now) \in Int /\ Date(now') \in Int /\ Day(r) \in Int
          /\ Date(now) <= Date(now') /\ Date(now') <= Date(now) + 1
      <3> HIDE DEF r
      <3>1. QED BY <1>4, <2>1, DaysPass DEF Day
    <2>4. /\ ~(KpiPeriod(r, 0)' /\ KpiPeriod(r, 1)')
          /\ KpiPeriod(r, 0) /\ ~(KpiPeriod(r, 0)') => KpiPeriod(r, 1)'
          /\ KpiPeriod(r, 1) => ~(KpiPeriod(r, 0)')
      <3>1. /\ KpiPeriod(r, 0) <=> Day(r) >= Date(now) - (Period - 1)
            /\ KpiPeriod(r, 1) <=> Day(r) \in Date(now) - (2 * Period - 1) .. Date(now) - Period
            /\ KpiPeriod(r, 0)' <=> Day(r) >= Date(now') - (Period - 1)
            /\ KpiPeriod(r, 1)' <=> Day(r) \in Date(now') - (2 * Period - 1) .. Date(now') - Period
        <4> HIDE DEF r
        <4>1. QED BY DEF KpiPeriod, Date, Day, About
      <3> DEFINE a == Date(now)
                 b == Date(now')
                 d == Day(r)
      <3> HIDE DEF a, b, d, r
      <3>2. QED BY <2>1, <2>3, <3>1 DEF a, b, d
    <2>5. /\ ~(MetricsPeriod(r, 0)' /\ MetricsPeriod(r, 1)')
          /\ MetricsPeriod(r, 0) /\ ~(MetricsPeriod(r, 0)') => MetricsPeriod(r, 1)'
          /\ MetricsPeriod(r, 1) => ~(MetricsPeriod(r, 0)')
      <3>1. /\ MetricsPeriod(r, 0) <=> Day(r) >= Date(now) - Period
            /\ MetricsPeriod(r, 1) <=> /\ Day(r) >= Date(now) - 2 * Period
                                       /\ Day(r) < Date(now) - Period
            /\ MetricsPeriod(r, 0)' <=> Day(r) >= Date(now') - Period
            /\ MetricsPeriod(r, 1)' <=> /\ Day(r) >= Date(now') - 2 * Period
                                        /\ Day(r) < Date(now') - Period
        <4> HIDE DEF r
        <4>1. QED BY <2>1, <2>3 DEF MetricsPeriod, Date, Day, About
      <3> HIDE DEF r
      <3>2. QED BY <2>1, <2>3, <3>1
    <2>6. QED BY <2>2, <2>4, <2>5
  <1>5. Timed /\ [DashboardNext]_dashboardVars => Timed' /\ [ChangesPeriod]_dashboardVars
    BY <1>2, <1>3, <1>4
  <1> HIDE DEF Timed
  <1>6. QED BY <1>1, <1>5, PTL DEF DashboardSpec, WindowsAdjacent
==============================================================================
