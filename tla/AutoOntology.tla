------------------------------ MODULE AutoOntology ------------------------------
(***************************************************************************)
(* The loop of every consumer pod that suggests ontology keywords          *)
(* (internal/auto_ontology/updater.py, opted into with                     *)
(* ANALYTICS_AUTO_ONTOLOGY in internal/consumer/server.py): for each       *)
(* project with enough recent posts, extract their phrases, read the       *)
(* project's rules from Redis, merge, write them back.  Nothing holds the  *)
(* key in between, other pods sweep too and project-srv edits the same     *)
(* key; pkg/redis/redis.py turns a read that fails into "no rules".        *)
(*                                                                         *)
(* The rules of a project are the phrases of its manual groups, those of   *)
(* the group "auto-discovered" ({} when there is none) and the switch.     *)
(***************************************************************************)
EXTENDS Naturals, FiniteSets

CONSTANTS Sweepers,     \* the pods whose sweeps are switched on
          Projects, Phrases,
          TopKeywords,  \* ANALYTICS_AUTO_ONTOLOGY_TOP_K
          MaxPosts,     \* bound on the changes of what posts say
          MaxEdits,     \* bound on the edits made through project-srv
          MaxMishaps    \* bound on failed calls and restarts of pods

ASSUME AutoOntologyAssumption ==
    /\ IsFiniteSet(Phrases)
    /\ TopKeywords \in Nat \ {0}
    /\ MaxPosts \in Nat /\ MaxEdits \in Nat /\ MaxMishaps \in Nat

VARIABLES spoken,  \* the phrases of each project's recent posts
          rules,   \* what Redis has under the project's key
          saved,   \* history: the rules of the last edit
          raced,   \* history: an edit met a sweep under way, or a read failed
          todo,    \* the projects a pod's sweep has still to look at
          sweep,   \* what the pod does with the one it looks at
          posted, edited, mishaps

ontologyVars == <<spoken, rules, saved, raced, todo, sweep, posted, edited, mishaps>>

NoRules == [manual |-> {}, auto |-> {}, enabled |-> TRUE]
NoSweep == [at |-> "idle"]
Known(r) == r.manual \cup r.auto

OntologyInit ==
    /\ spoken = [x \in Projects |-> {}]
    /\ rules = [x \in Projects |-> NoRules]
    /\ saved = [x \in Projects |-> NoRules]
    /\ raced = [x \in Projects |-> FALSE]
    /\ todo = [d \in Sweepers |-> {}]
    /\ sweep = [d \in Sweepers |-> NoSweep]
    /\ posted = 0 /\ edited = 0 /\ mishaps = 0

\* The pod has read the rules of x and not yet written them back.
Holds(d, x) == sweep[d].at = "read" /\ sweep[d].project = x

------------------------------------------------------------------------------
\* Posts come and grow older than window_hours.
Post(x) ==
    /\ posted < MaxPosts
    /\ posted' = posted + 1
    /\ \E said \in SUBSET Phrases : spoken' = [spoken EXCEPT ![x] = said]
    /\ UNCHANGED <<rules, saved, raced, todo, sweep, edited, mishaps>>

\* project-srv: manual rules and the switch are set, suggestions pruned.
Edit(x) ==
    /\ edited < MaxEdits
    /\ edited' = edited + 1
    /\ \E manual \in SUBSET Phrases, auto \in SUBSET rules[x].auto, on \in BOOLEAN :
          LET r == [manual |-> manual, auto |-> auto, enabled |-> on]
          IN  rules' = [rules EXCEPT ![x] = r] /\ saved' = [saved EXCEPT ![x] = r]
    /\ raced' = [raced EXCEPT ![x] = \E d \in Sweepers : Holds(d, x)]
    /\ UNCHANGED <<spoken, todo, sweep, posted, mishaps>>

\* run_once: the projects with recent posts (_fetch_candidates).
Wake(d) ==
    /\ sweep[d] = NoSweep /\ todo[d] = {}
    /\ todo' = [todo EXCEPT ![d] = {x \in Projects : spoken[x] # {}}]
    /\ todo'[d] # {}
    /\ UNCHANGED <<spoken, rules, saved, raced, sweep, posted, edited, mishaps>>

\* _discover_for: the best phrases, up to top_keywords; their scores are open.
Best(said) ==
    {k \in SUBSET said : Cardinality(k) = TopKeywords \/ (k = said /\ Cardinality(k) < TopKeywords)}

\* Nothing is found when the posts have gone or the extraction fails.
Discover(d, x) ==
    /\ sweep[d] = NoSweep /\ x \in todo[d]
    /\ todo' = [todo EXCEPT ![d] = @ \ {x}]
    /\ \E k \in Best(spoken[x]) :
          sweep' = [sweep EXCEPT ![d] =
             IF k = {} THEN NoSweep ELSE [at |-> "found", project |-> x, keywords |-> k]]
    /\ UNCHANGED <<spoken, rules, saved, raced, posted, edited, mishaps>>

Writes(d, r) ==
    sweep' = [sweep EXCEPT ![d] = [at |-> "read", project |-> sweep[d].project,
                                   keywords |-> sweep[d].keywords, new |-> r]]
Skips(d) == sweep' = [sweep EXCEPT ![d] = NoSweep]

\* Mutant: the switch is not carried over.
MergeSwitchedOn(d, r) ==
    LET fresh == sweep[d].keywords \ Known(r)
    IN  IF fresh = {} THEN Skips(d) ELSE Writes(d, [r EXCEPT !.auto = fresh, !.enabled = TRUE])

\* Mutant: one keyword that is known makes the sweep skip the project.
MergeAllOrNone(d, r) ==
    IF sweep[d].keywords \cap Known(r) # {} THEN Skips(d)
    ELSE Writes(d, [r EXCEPT !.auto = sweep[d].keywords])

\* _publish with the rules it has read: silent when every keyword is known,
\* otherwise the keywords that are not known replace the group.
Merge(d, r) ==
    LET fresh == sweep[d].keywords \ Known(r)
    IN  IF fresh = {} THEN Skips(d) ELSE Writes(d, [r EXCEPT !.auto = fresh])

Read(d) ==
    /\ sweep[d].at = "found"
    /\ Merge(d, rules[sweep[d].project])
    /\ UNCHANGED <<spoken, rules, saved, raced, todo, posted, edited, mishaps>>

\* RedisCache.get has used up its retries, or what it returns is no JSON.
ReadFails(d) ==
    /\ sweep[d].at = "found"
    /\ mishaps < MaxMishaps
    /\ mishaps' = mishaps + 1
    /\ Merge(d, NoRules)
    /\ raced' = [raced EXCEPT ![sweep[d].project] = TRUE]
    /\ UNCHANGED <<spoken, rules, saved, todo, posted, edited>>

Write(d) ==
    /\ sweep[d].at = "read"
    /\ rules' = [rules EXCEPT ![sweep[d].project] = sweep[d].new]
    /\ Skips(d)
    /\ UNCHANGED <<spoken, saved, raced, todo, posted, edited, mishaps>>

\* The extraction or the write fails: only logged, the next project follows.
SweepFails(d) ==
    /\ sweep[d] # NoSweep
    /\ mishaps < MaxMishaps
    /\ mishaps' = mishaps + 1
    /\ Skips(d)
    /\ UNCHANGED <<spoken, rules, saved, raced, todo, posted, edited>>

\* The consumer is shut down, which cancels the loop, and comes back.
Restart(d) ==
    /\ sweep[d] # NoSweep \/ todo[d] # {}
    /\ mishaps < MaxMishaps
    /\ mishaps' = mishaps + 1
    /\ Skips(d)
    /\ todo' = [todo EXCEPT ![d] = {}]
    /\ UNCHANGED <<spoken, rules, saved, raced, posted, edited>>

RunOnce(d) == Wake(d) \/ (\E x \in Projects : Discover(d, x)) \/ Read(d) \/ Write(d)

OntologyNext ==
    \/ \E x \in Projects : Post(x) \/ Edit(x)
    \/ \E d \in Sweepers : RunOnce(d) \/ ReadFails(d) \/ SweepFails(d) \/ Restart(d)

OntologySpec == OntologyInit /\ [][OntologyNext]_ontologyVars

\* The loop wakes every period_seconds; its calls end.
FairOntology == OntologySpec /\ \A d \in Sweepers : WF_ontologyVars(RunOnce(d))

------------------------------------------------------------------------------
Rules == [manual : SUBSET Phrases,
          auto : {k \in SUBSET Phrases : Cardinality(k) <= TopKeywords},
          enabled : BOOLEAN]

\* "the cache stays bounded to one merged batch per project"
\* (updater.py:273): never more than top_keywords suggestions.
OntologyTypeOK ==
    /\ spoken \in [Projects -> SUBSET Phrases]
    /\ rules \in [Projects -> Rules] /\ saved \in [Projects -> Rules]
    /\ raced \in [Projects -> BOOLEAN]
    /\ todo \in [Sweepers -> SUBSET Projects]
    /\ \A d \in Sweepers :
          /\ sweep[d].at \in {"idle", "found", "read"}
          /\ sweep[d].at = "read" => sweep[d].new \in Rules
    /\ posted \in 0 .. MaxPosts /\ edited \in 0 .. MaxEdits /\ mishaps \in 0 .. MaxMishaps

\* The manual rules and the switch stay as they were last set, across the
\* sweeps of all pods, their failed writes and restarts; they are at risk
\* only when the edit meets a sweep between its read and its write
\* (updater.py:254-286), or a read fails.
OnlyRacesLoseEdits ==
    \A x \in Projects : ~raced[x] =>
        rules[x].manual = saved[x].manual /\ rules[x].enabled = saved[x].enabled

\* A phrase that posts never stop using, and that top_keywords has room for,
\* is among the project's rules again and again, though the group that
\* replaces the last one (updater.py:275) need not keep it.
Suggested ==
    \A x \in Projects, p \in Phrases :
        <>[](p \in spoken[x] /\ Cardinality(spoken[x]) <= TopKeywords)
            => []<>(p \in Known(rules[x]))
=============================================================================
