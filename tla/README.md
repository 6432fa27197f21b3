# A TLA+ verification of analysis-srv

analysis-srv consumes unified social posts (UAP records) from Kafka, runs them in
batches through an NLP pipeline, keeps an insight row per post in PostgreSQL,
publishes contract topics for knowledge-srv, pushes a project's crisis level to
project-srv and serves analytics over HTTP behind several caches. This directory
models the parts of it whose correctness depends on order, failure, concurrency or
non-local algorithms, checks the models with TLC and proves theorems about them with
TLAPS. Paths below are relative to the repository; `PROJECT.json` maps every
definition that models code to its lines.

## 1. Inventory

| Part (source) | State it keeps | Operations | Talks to | What is hard | What makes it correct |
|---|---|---|---|---|---|
| Kafka consumer loop (`pkg/kafka/consumer.py`, `internal/consumer/server.py`) | fetch positions, batch in hand, committed offsets | fetch, hand over, commit, cancel, stop | group coordinator, batch handler | rebalance or cancellation between fetch and commit | offsets never pass a record nobody handled; no committed record is replayed; no record stalls its partition |
| Kafka producer (`pkg/kafka/producer.py`) | accumulator, open flag | send, stop | broker | `send` returns before delivery; two topics are unordered | messages of a partition arrive in order |
| Contract publisher (`internal/contract_publisher`) | one buffer | `publish_one`, `flush`, `close` | producer | copies, clears and refills its buffer around awaits, without a lock; retries | no document vanishes or overtakes; a digest belongs to its batch |
| Consumer server (`internal/consumer/server.py`, `registry.py`, `apps/consumer/main.py`) | where the task is, groups, facts | parse, group, run, persist, publish, flush, commit, shut down | all of the above, pipeline, PostgreSQL | partial failure of a group; shutdown from three places | every record is accounted for; documents stay with their project; the pod gets through the topic |
| Crisis runtime (`internal/consumer/server.py:738-894`) | local and Redis record of the last push, Redis lock | read, check cooldown, lock, check again, push, record, unlock | Redis, project-srv | pods race; every call can fail or be lost | pushes are a cooldown apart; the record is true; the level arrives |
| Post insight (`internal/post_insight`) | rows of a post | upsert with removal of copies | PostgreSQL | concurrent upserts, no unique index, deadlocks | the post keeps a row; copies drain |
| Pipeline (`internal/pipeline`) | facts of a run | nine stages | stage use cases | a stage sees what earlier ones left, none of them or an empty list | facts belong to the records that called for them |
| Normalization (`internal/normalization`) | none | mention per record, language gate | pipeline | ids of mentions and documents differ | identity, parent and root are kept |
| Deduplication (`internal/dedup`) | union-find forest of a batch | exact and near clusters | pipeline | hash order, oversized buckets, the brute-force pass, two kinds of cluster on one map | clusters are the components; weights count contents |
| Threads (`internal/threads`) | none | contexts, summaries | pipeline | the root is found by a fallback order | a comment is read under its post |
| Spam (`internal/spam`) | none | author profiles, burst | pipeline | times in any order, with and without zone | burst is the densest window |
| NLP batch and sentiment (`internal/analytics`, `internal/sentiment_analysis`, `pkg/phobert_onnx`) | positions of a batch | three passes, two batched model calls | stages of one record, model | answers matched by position after skips, failures, repeats | batching is invisible |
| Preprocessing, intent, keywords, impact, relevance, builder (`internal/text_preprocessing`, `intent_classification`, `keyword_extraction`, `impact_calculation`, `relevance.py`, `builder`) | none | one record at a time | NLP batch | caps, bonuses and thresholds that meet; a failed stage leaves defaults that later ones read | more evidence never counts less; context alone is not enough; a failure never raises a post |
| Enrichment (`internal/enrichment`, `internal/ontology`) | none kept across runs | entities, aspects, issues, sentiments, topics | pipeline | facts corroborate each other across a thread, clusters by union-find | a thread is judged by what is said in it; topics split the batch |
| Reporting, crisis assessment (`internal/reporting`, `internal/crisis`) | none kept across runs | aggregates, cards, digest, level | pipeline, crisis runtime | the same mention counted under several keys and limits; thresholds a project can move | volumes count mentions; the level follows from the signals |
| HTTP dashboards (`internal/http/analytics_service.py`, `migration/008`, `014`, `015`) | `post_insight`, mart, rollup tables, hidden targets | analyse, hide, refresh, query | PostgreSQL | one figure computed from three sources that age apart, by date in one and by moment in another | all paths give one answer; a flush hides what it should; periods meet |
| HTTP posts endpoint (`internal/http`) | response cache, windows, contexts, negative cache, semaphore | page requests, `hide_crawl_target` | PostgreSQL, project-srv | stale caches feeding each other; queries running across a flush | what was hidden or removed is soon gone; the cache is bounded |
| Rollup loop (`apps/api/main.py`) | three tables per project | discover, refresh, fall back | PostgreSQL | pods overlap; a fallback refresh stops half-way | tables never go back and catch up |
| Auto ontology (`internal/auto_ontology`) | a project's rules in Redis | sweep | PostgreSQL, Redis, project-srv | read-merge-write without a lock | only a race loses an edit; phrases get suggested |
| Review, outbox, storage, evaluation | queue, table, files, none | – | – | not reached by the running service (section 8) | – |
| Ingestion, config, runtime, observability, clients, scripts | read at start, or none | – | – | – | – |

The parts meet at five points. The consumer loop calls the server's batch handler and
commits whatever way it ends. The server calls the publisher, whose one buffer outlives
groups and batches, and shutdown calls it from another task. The pipeline hands the facts
of each stage to the next, and the level the last one finds is what the crisis runtime
pushes. Pods meet in PostgreSQL (upserts, rollups) and in Redis (crisis
record and lock, ontology rules). The API reads what the consumers write, through the
rollups and its caches.

## 2. Plan

| Order | Modules | Composes | State |
|---|---|---|---|
| 1 | `OffsetHandoff`, `ConsumerGroup`, `ConsumerGroupProofs` | `ConsumerGroup` implements `OffsetHandoff` | done |
| 2 | `KafkaProducer`, `ContractPublisher` (proofs in `ConsumerServerProofs`) | `ContractPublisher` EXTENDS `KafkaProducer` | done |
| 3 | `ConsumerServer`, `ConsumerServerProofs` | EXTENDS `ContractPublisher`, whose actions it calls | done |
| 4 | `CrisisRuntime`, `CrisisRuntimeProofs` | – | done |
| 5 | `PostInsight` (proofs in `WriteSideProofs`) | – | done |
| 6 | `PostsCache`, `PostsCacheProofs`, `Rollups` (proofs in `ReadSideProofs`) | `PostsCache` has the rollup's effect as one action | done |
| 7 | `AutoOntology`, `WriteSideProofs` | `WriteSideProofs` has the proofs of `PostInsight` too | done |
| 8 | `Normalization`, `Threads`, `Dedup`, `Spam`, `NlpBatch`, `Pipeline` | `Pipeline` EXTENDS the stages, which EXTEND `Normalization` | done for what section 4 lists |
| 9 | `Relevance`, `Impact`, `KeywordExtraction`, `PostAnalysis`, `PipelineProofs` | `NlpBatch` EXTENDS `PostAnalysis`, which EXTENDS the others | done |
| 10 | `Registry`, `Entities`, `Semantics`, `Topics`, `Enrichment`, `Reports`, `CrisisScore` | each EXTENDS what it reads; `Pipeline` EXTENDS all | done |
| 11 | `ClusterProofs` | EXTENDS `PipelineProofs`: union-find, topics, clusters and weights | done |
| 12 | `Dashboard`, `ReadSideProofs` | `ReadSideProofs` has the proofs of `Rollups` too | done |
| 13 | process lifecycle and probes (`apps/consumer/main.py`, `server.py:546-655`); the rules of the language gate; the enrichment summary attached to published messages (`run_pipeline.py`); the export of posts | `ConsumerServer`, `Normalization`, `Dashboard` | open |

Abstract specifications: `OffsetHandoff` says what a consumer group promises about
offsets and is implemented by `ConsumerGroup`. Next in
line is a record of the last push, which `CrisisRuntime` should implement as long as no
lock request fails.

Theorems: those of section 7 are done, and every safety property of the runs is among them. A
property of a stage added later needs the stage's loops written so that their result can be told without
induction over the sequence: by places and counting (as `At`, `Windows` and `Sorted` are), or as a
recursive function over an interval (as `Find`, `Unions`, `Lefts` and `Ranked`): its values exist
by `LoopRuns`, and what holds of each follows by `StepByStep`.

## 3. How the modules are laid out

A module models one component: its state as VARIABLES, an action per handler or per
stretch of code between two awaits (what runs without an await is one step of the event
loop), faults as actions counted by a bound, `Spec`, and where progress is claimed a
`FairSpec`. `MC<Module>` gives names to the values a `.cfg` assigns. Definitions
commented `Mutant:` are plausible bugs of the definition below them; no action uses them.
They show that the property they belong to can fail. The proofs about a module are in
`<Module>Proofs`; `WriteSideProofs` and `ReadSideProofs` have those of two components each, which is
why `AutoOntology` and `Dashboard` name their parts `OntologySpec`, `DashboardSpec` and so on, and
`ClusterProofs` goes on where `PipelineProofs` ends. Modules without variables (the stages of a run) hold operators only, and
`Pipeline` is the state machine that applies them. No module uses RECURSIVE; recursion
over sequences is a fold or a recursive function over an interval (`Find`, `Unions`, `Lefts`,
`EntityFacts`, `Ranked`, `Digest`).

## 4. Modules and code

**ConsumerGroup** (`pkg/kafka/consumer.py:118-215`, `server.py` start and shutdown). `phase[c]`
is where pod c's task stands in `consume_batch`: `polling` in `getmany`, `handling` in the
batch handler, `committing` in the `finally` block, `stopping` once cancelled, `drained`
before `stop()`. `Poll` moves the positions at fetch time, the handler ends by returning,
raising or being cancelled, and `Commit` commits the *current* positions, as
`consumer.commit()` without arguments does. `Rebalance`, `Expel` and `Rejoin` are the
coordinator, external, modelled from how the loop uses it: positions of a new owner start
at the committed offset. `attempts`, `rebalances` and `fate` are history.

**OffsetHandoff**. Two variables, records whose handling ended and committed offsets, and
two actions. It is the promise `ImplementsHandoff` refers to.

**KafkaProducer** (`pkg/kafka/producer.py`). `sent` is the accumulator; `Deliver` appends a
message of which no earlier one of the same topic and key is pending; `Lose` drops one after
`send` returned, since the delivery future is never awaited.

**ContractPublisher** (`contract_publisher/usecase/usecase.py:70-175`, `publish_order.py`).
A document is named by its place in `handed`. `Take` empties the buffer before the first
await; `flight[t]` is the flush task t is in: about to send the batch, then the digest.
`SendFails` puts the documents back in front, which is the `except` block; a payload that
cannot be built and a cancellation pass that block, so their documents go to `dropped`.
`Close` runs only after the consumer task is done. `Restart` forgets all memory. `now` is
the clock run ids are made of, with a resolution of one second.

**ConsumerServer** (`internal/consumer/server.py:400-545`, `registry.py:318-345`). `at` is the
await the consumer task is at. `FetchBatch` parses and groups (no await in between); groups and facts are sets,
taken in the order of their first records (`First`, `FirstGroup`), as the dictionary of the
code has them. `RunGroup` is the pipeline in its thread, each fact is skipped by the quality gate or
persisted and published, `FlushGroup` follows each group, `BatchHandled`/`Commit` end the
batch. `Cancel` cuts off what is left. It reaches the task only where it waits (`Suspended`): in a send,
in the pipeline and the calls around it, in the row of the next fact, in the commit; between the last fact
and the flush nothing is awaited. `StopCommit` is the `finally` commit of the cancelled
loop, `ClosePublisher` the task that `registry.shutdown` creates, one per shutdown, `StopServer` the producer's
end in main. Every publisher step is the action of `ContractPublisher`, so that the server implements
`ContractPublisher!Spec` holds by construction: it is a lemma that carries the publisher's
theorems over, not a result.

**CrisisRuntime** (`server.py:738-894`). `pods[p].at` runs through read, lock, second read,
the pushes and the record. Each call is a step that succeeds or fails in a kind named by
`failed` (refused, answer lost, read, lock, store, slow, crash). A section that is still running when
the 45 s of its lock end is such a fault too (`slow`, in `Tick`): the code does not renew the lock. `local` is the pod's own memory,
`stored` and `lock` are Redis with ages in ticks, `applied` is what project-srv has.

**PostInsight** (`post_insight/repository/postgre/post_insight.py:60-180`). An upsert selects,
updates the newest row, deletes the others, or inserts, in one transaction at READ COMMITTED.
`locked` are its row locks; a step that needs another's lock waits, `Fail` and a cycle of
waiting upserts abort one. `byTime` orders rows and running upserts by `analyzed_at`.

**PostsCache** (`http/analytics_service.py`: `_cache_get`, `_cache_set`, `_prune_response_cache`,
`_guarded`, the posts handler, `hide_crawl_target`; `project_client.py`'s campaign cache).
`cache[p]` is the one dictionary that pages, windows and contexts share, `req[c]` a client's
request between its awaits. An entry keeps whether it shows the posts concerned and the
ticks it has left; expired entries stay until looked up or pruned, as in the code.

**Rollups** (`apps/api/main.py:130-300`, `migration/015_per_project_refresh.sql`). A rollup is the
version of the posts it was computed from. With `installed`, a refresh computes three tables
in one transaction under `pg_try_advisory_xact_lock`; without, it deletes and refills them
in separate statements.

**AutoOntology** (`auto_ontology/updater.py:190-300`, `pkg/redis/redis.py`). A sweep looks for
projects with posts, extracts, reads the rules, merges and writes. `pkg/redis` turns a failed
read into "no rules", which `ReadFails` has. `Edit` is project-srv writing the same key.

**Pipeline** (`pipeline/usecase/run_pipeline.py`). One action per stage. `facts` is
`PipelineFacts`; a stage whose flag is off is passed over (`NextStage`), one without mentions
returns early, one that raises ends the run. What is computed from characters comes with the
scenario: whether the language gate supports a record, which texts are alike and which share a
bucket, the words of a text, the signals (`traits`, `says`) in it, the model's opinion of it.
What the code does with these is modelled in the following modules.

**Normalization, Threads, Dedup, Spam.** `Normalization` has what later stages share: places of
a list, the pairs of two nested loops, and the union-find that dedup and topics have as
two copies in the code. `Dedup` builds exact clusters, compares the pairs of each bucket and, in small
batches, all pairs, and unites what is alike. Fingerprints order the exact clusters in some way.
`Threads` resolves the root mention with the code's order. `Spam` slides its window.

**NlpBatch, PostAnalysis, KeywordExtraction, Impact, Relevance** (`analytics/usecase/batch_enricher.py`,
`process.py` and the stages it calls). `NlpBatch` flattens windows over all records,
deduplicates texts and maps answers back by position. `PostAnalysis` takes one record through
preprocessing, intent, keywords, calibrated sentiment, impact, relevance and the builder, each
of which may raise and then leaves what the code leaves. `Relevance` and `Impact` keep the
code's weights, caps and thresholds as integers (hundredths of a percent, percent), so that
comparisons at a threshold come out as in the code. `KeywordExtraction` has the lookup map, the
dictionary match, YAKE's and spaCy's proposals (external), and the cut.

**Registry, Entities, Semantics, Topics, Enrichment** (`internal/ontology`, `internal/enrichment`).
`Registry` merges a project's rules into the phrases of its domain. `Entities` looks the
names of a mention up in the aliases, scans for the entities no name brought up, and gathers the
unknown names several mentions share. `Semantics` splits a text into segments, finds anchors,
negation, hearsay and escalation, scores them, and lets issues and aspects of a thread
corroborate each other. `Topics` assigns known topics,
links the remaining documents by shared top words, and reports clusters. Confidences are kept as
integers in hundredths.

**Reports, CrisisScore** (`internal/reporting`, `internal/crisis`). Share of voice, buzz, issue
pressure, thread controversy, cards and the digest as aggregates over the bundle with the
code's cut of rows; the three signals, the thresholds a project may move, and the level.

**Dashboard** (`http/analytics_service.py`, `migration/014_latest_post_insight_mart.sql`, `015`).
`posts` is `post_insight`, `mart` the materialized view, `tables` the rollup tables, each kept as
the rows it was computed from. `Analyse` upserts, `Hide` flushes a target, `BeginRefresh`,
`FillTop` and `CommitRefresh` are the statements of a project's refresh, each with its own view
of `posts`; `AskHeap` and `AnswerHeap` are the two queries of the heap, between which the mart may
change. The figures are operators on what they read: `Kpis`, `Platforms`, `Sentiment`,
`Keywords`, `ProjectStats`, `Posts`, each with the query and, where there is one, the path over
rollup tables. The three ways the code says "the last 30 days" are `QueryPeriod`, `KpiPeriod`
and `MetricsPeriod`.

## 5. Runs, bounds, and what they show

| Run | Bounds | Why they are enough | Shows |
|---|---|---|---|
| `consumer_group` | 2 pods, 1 partition of 2 records, polls of ≤ 2, 2 faults | a hand-over needs two pods; two records let a batch be half covered by an offset; two faults let a crash hit a recovery | offsets are handed off safely (`PositionsBacked`, `ImplementsHandoff`), no committed record is replayed, a record is retried at most once per assignment, every record is handled |
| `publisher` | 3 hand-overs of a document, batch size 2, messages of ≤ 2, 1 closer, 2 faults, 1 lost message, 2 seconds | with three documents a failed flush meets a new one and outgrows a message; runs within and across a second | a failed send neither loses nor reorders, batch and digest are paired, a digest ends a batch's repetition, retries settle while groups keep coming |
| `server` | 3 records of 2 projects, polls of 3, batch size 2, messages of ≤ 2, 2 closing tasks, 1 trouble (row, commit or publisher fault) | two interleaved projects form two groups in one batch; any single failure at any step; two shutdowns | every record is accounted for, messages stay within a project until something fails, flushes do not overlap, the pod gets to the end |
| `crisis` | 2 pods, 3 levels (policy warning), cooldown 2, lock 1 tick, 2 changes of level, 1 fault of 7 kinds | the race is between two pods; the properties name the kinds of failure they exclude, and one of any kind suffices to separate them | exclusion, a true record, the cooldown, arrival of a level that lasts, and which failure breaks which |
| `post_insight` | 2 pods, up to 3 copies, ids ≤ 7, 2 failures | two upserts can keep different copies of three and delete the third | the row an upsert has updated is there at its commit, copies drain |
| `posts_cache` | 2 clients, 1 pod, 1 database slot, 3 entries, every TTL 1 tick, clock 8 | three entries force pruning of context, window and page; caches of two pods do not touch, so one is enough; the time limits are reached within a few ticks of their bound | `CachesForget`: how long a flushed target and a removed project can be shown, and the cache's bound |
| `rollups` | 2 pods, 2 projects, concurrency 1, 2 versions of posts, 1 fault | overlap of two ticks on one project while another waits | under the SQL function no table goes back; rollups catch up |
| `ontology` | 2 pods, 1 project, 3 phrases of which 2 fit, 1 change of posts, 1 edit, 1 fault | an edit can meet either pod's sweep; three phrases overflow the limit | only a race or a failed read loses an edit; a lasting phrase is suggested again and again |
| `dashboard` | 2 projects with 3 targets, one of them a focused page, 2 contents, 2 kinds of analysis, 2 rows, 2 analyses, periods of 1 day, clock of 6 half days | a content found by two targets of a project or of two; an analysis between any two statements; half days separate a moment from its date; one row of a rollup and one keyword per project reach both limits | queries, mart and rollup tables give one answer; a flush hides its rows only; periods meet |
| `pipeline` | 24 306 groups of 1–5 records in eight families | see below | twelve properties of the nine stages |
| `shutdown_flush` | 2 records of 2 projects, 2 faults | a failed send puts a document back, and the task is cancelled in the second group | finding 1 |
| `thread_lineage` | the thread family of `pipeline` | – | finding 2 |

Families of `pipeline` (`MCPipeline`). The run is deterministic after its initial state, so
these families are its coverage:

- `DedupRuns`: all ways to give four posts (or three, one of them delivered twice) up to three
  long texts and a short one, similarity relations up to renaming, all relations on four texts,
  two buckets, with the brute-force limit at 2 signatures and buckets of ≤ 3, so that both the
  bucket path and the brute-force path decide.
- `ThreadRuns`: every ordered choice of up to four out of a post, two comments and two replies,
  each passed or rejected by the language gate, through reporting and crisis assessment.
- `SpamRuns`: three mentions of two authors and four of one at six times around a window of 60
  minutes, naive and aware.
- `NlpRuns`: three records with all fates, texts repeated or empty, and each batched call failing.
- `FlagRuns`: all 512 sets of enabled stages.
- `AnalysisRuns`: three mentions in five shapes of threads, one with a redelivered comment and one with a
  comment that names no parent, with ten texts about three entities, two aspects and issues, a topic, and a project's rules;
  the two shapes with a reply only with the first five texts and the rules. Review, which does nothing, is left to `FlagRuns`.
- `SaidRuns`: one post or comment with every set of signals in nine forms of text and seven contexts.
- `JudgedRuns`: one comment with every mix of mood, intent, opinion, counts and failing stages.

Limits are scaled so that these groups reach them: 2 for the 64 signatures of the brute-force
pass, 2 for the 10 rows of a report, 2 for the 96 documents compared pairwise, 4 for 8 top tokens,
4 for 6 topic terms, 2 for 8 candidates of a mention, 3 words for the 14 characters a negation
reaches, 3 for 5 dictionary keywords below which AI is asked, 3 for 10 proposals, 4 for 30
keywords. Weights and thresholds of relevance, impact, issues and crisis are the code's.

Deadlock is checked in `consumer_group`, `crisis`, `post_insight` and `posts_cache`. The
other runs stop where the modelled work ends: the bounded hand-overs, faults and posts are
used up, or the pipeline's run is over.

Properties worth a second look: `PositionsBacked` is the whole reason why committing
*positions* after the handler is sound. `NoReplayAfterDigest` and `DigestFollowsItsBatch`
matter because a batch message carries no run id and knowledge-srv takes a digest for "run
complete". `FlushesAlone` is what replaces a lock: the publisher is correct only while
its flushes follow each other, whatever consumer task and shutdowns do.

Some properties except by name what the code does not prevent, and so do not catch it: a section longer than its
lock (`Exclusive`), documents whose flush was cancelled or could not build a payload
(`dropped`), a message grown too large (`Outgrown`), a topic that falls idle with documents put
back (`FlushesKeepComing`), a fallback refresh cut off half-way (`KeptWarm`), a refresh of the mart between
the two queries of the heap (`AnswersAgree`). `PROJECT.json` lists these hazards with a note.

The twelve properties of `pipeline` compare a run with something computed otherwise.
`NearAreComponents` and `TopicsAreComponents` compare the two uses of union-find with connected
components. `WeightsCountContents` says that a mention weighs one over the number of mentions of its
content, and `DigestVolume` accounts for every mention across the keys it is counted under.
`NlpFactsAligned` compares a batch with its records alone, `SemanticLocal` a
group with its threads, their mentions the other way round, `FailuresOnlyHide` a run with the same run
without failures, `MoreSaidNeverLess` a text with one that says more (terms, and the traits their words may
bring; `SameMatter` leaves out where the word cod turns a text into one about a game, see section 8). `LoneContextNeverIndexed`,
`RepliesMeanControversy`, `CommentSeesPost` and `BurstIsDensest` follow what an early stage found
through all weights, fallbacks and thresholds to the end. `AnswersAgree` has preconditions
(`Comparable`) because the paths do not agree without them; section 8 lists where.

Type invariants are stated in every module with variables but `Pipeline` and `Dashboard`, whose
values are computed. Where a proof covers one (section 7) the run leaves it to the proof.

## 6. Fairness

- `ConsumerGroup`, `ConsumerServer`: the event loop runs each task that is ready (WF on the
  steps of a task), Kubernetes restarts an exited pod (WF on `Start` and `RestartServer`), the
  coordinator completes a rebalance. Faults and signals are not fair.
- `ContractPublisher`: tasks go on after an await; a failing send is fair only once the producer is
  closed. `flush` is not fair: it comes after groups that yield facts, so `RetriesSettle` has "such groups
  keep coming" (`FlushesKeepComing`) as its premise.
- `CrisisRuntime`: groups of the project keep coming to every pod and time passes. No lock is
  fair: a pod that loses the race comes again with the next group.
- `PostInsight`: every post is crawled again (WF on `Begin`). SF on an upsert's steps: a row
  lock is released and taken again by others any number of times, and PostgreSQL serves the
  waiters in order.
- `Rollups`, `AutoOntology`: the loops sleep and wake for ever, and a statement ends or times out.
- `PostsCache`, `Dashboard` and `Pipeline` claim safety only; time in `PostsCache` cannot pass a statement's
  timeout, which is `statement_timeout` in the code.

## 7. What is proved

All proofs hold for every value of the constants under the named assumptions of the modules
(`ConsumerGroupAssumption`, `KafkaProducerAssumption`, `PublisherAssumption`,
`ServerAssumption`, `CrisisAssumption`, `PostInsightAssumption`, `PostsCacheAssumption`,
`RollupsAssumption`, `DashboardAssumption`, `AutoOntologyAssumption`, and for the pipeline
`KeywordAssumption`, `SpamAssumption`, `DedupAssumption`, `NlpAssumption`, `RegistryAssumption`,
`EntitiesAssumption`, `SemanticsAssumption`, `ReportsAssumption` and `PipelineAssumption`), which say no more than the types of the configuration
values and inputs and how they relate. One theorem names more:
`OwnProjectWhileWell` takes `BatchSize <= MaxMessage` (a full buffer fits into a message).

**Consumer group.** `TypeCorrect` comes first. `AccountedCommits` (no commit covers a record
whose handler has not ended) is not inductive: a commit takes the current positions, so the
invariant must say what lies below a position. `HandoffInv` adds `PositionsBacked` (between
committed offset and position every record is ended or in its owner's running batch) and
`BatchesEnded` (a batch being committed has ended). `PositionsStayBacked`, `AccountedCommits`,
`CommittedStaysCommitted` and the refinement `GroupImplementsHandoff` follow. `AttemptsInv` adds that
a record an owner has not fetched was handed out fewer times than there were assignments, and
gives `RedeliveryNeedsRebalance`.

**Contract publisher.** `Alone` (types, a flush holds documents exactly while it runs, closing
tasks wait for the consumer task, nothing is buffered while a flush runs) is inductive and
gives `TypeCorrect` and `FlushesNeverOverlap`: the absence of a lock is justified by
the order of the calls. `Paired` adds that a flush about to send its digest has its batch as
the last message, which yields `DigestRightAfterBatch`; `Safe` adds where documents are and
yields `NoDocumentVanishes` and `NoOvertaking`. `NeverReplayed` (no document is published after
the digest of its run) needs to know where a document can still come from: `Unrepeated` says that
what waits in the buffer or in a flush before its digest is not among what a digest covered.

**Consumer server.** `ServerStepsPublisher` shows action by action that a step of the server is a
step or a stutter of the publisher; it needs the types of the task's own state (`ServerTypes`),
which in turn need the publisher's, so the two are one invariant. `ServerKeepsPromises` follows: what was proved of the publisher need not be proved again.
`NoRecordIsSkipped` is not inductive by itself, because a restart goes back to the committed offset
with empty memory: `Skipless` adds that outside a batch the task has nothing in hand (`Calm`), and
that all records before the committed offset were left out or handed over. `OwnProjectWhileWell`
needs, besides the messages, that groups, what is left of one with what is in the buffer
(`BufferOwn`), and every flush are of one project; the explicit flush after a group is what
leaves the buffer empty when the next one starts.

**Crisis runtime.** `CrisisTypes` has the types. `Safe` says that a lock somebody holds runs out
(`LockHeld`), that a pod in its section holds the lock (`OwnSection`, from which `OnePodInSection`
follows), that a push not yet written down is of the pod in the section (`PushUnwritten`,
from which `RecordTellsTruth`), that the record is no older than the push (`RecordAge`), and
that a pod about to push has seen a record a cooldown old (`PushDue`): together they give
`PushesKeepCooldown`. The properties themselves name the calls that must not have failed and the
slow section (`Exclusive`); `ExclusiveBefore` says that what excludes now has always excluded.

**Post insight.** `Locks` says which rows an upsert holds at each stage, that no two
hold the same, and that it deletes only what it holds. `UpdatedRowStays` and `PostKeepsARow` follow:
no interleaving of upserts, failures and deadlocks removes a post's last row. `RowsKeepTypes` has
the types.

**Posts endpoint.** `CachesAlwaysForget` bounds in time what the caches still show. Each cache is filled from
the next, so each has a limit that is the sum of the limits behind it: `Limit` for windows, pages and
the campaign's context, `StatementLimit` for a statement's rows. `Forgetting` says that what an entry
has left to live, added to the time since the event, stays within the limit of its kind. The one
part that is not local is a request that waits for a slot of the database while others hold it:
after a removal it may start as late as all other clients have finished. `Debts` are the ticks that
the clients at or before a statement can still take, counted as a set; every tick removes one as long as a client
is at work (`Patience`), and a client that moves on never owes more than before.

**Rollups.** Under the SQL function, `Ordered` says that a pod past the lock has it
(`FunctionLocked`), that no table is ahead of the posts (`NotAhead`), and that what a pod has computed is
no older than what it will replace (`StagedNewer`); the last is where the lock is needed.
`RollupsNeverGoBack` follows.

**Dashboards.** `AnswersDoAgree` rests on `TablesTold`: the tables of a project without open changes are
what its posts give now, and what a running refresh has computed is so as long as no post of the
project changes. It is inductive by `SliceStays`: rows that are written, moved or marked for other
projects do not alter what the SQL selects for this one. A selection is by the order of rows
(`Latest` takes the last row of each content), so the places of rows are what is reasoned about, and
`Dashboard` selects by places rather than by folding over the sequence. A table of `TopRows` rows
that lacks a post is full of newer ones (`TopIsFull`, by the missing post with the fewest newer ones), so a page
within the limit is the query's. `HeapTold` has the two queries of the heap: without a change in between, a keyword is never
mentioned more often than its project. `ContentsStayShown` is a statement about every state of the
posts: a row that was flushed or out of scope is left out before the last row is taken,
so that an older row of the content appears. `PeriodsAdjoin` is about the three ways to count days: a
post that leaves the current period is in the one before, and in no step in both.

**Automatic ontology.** What a sweep is about to write is a copy of the rules at its read with the
suggestions replaced; `SweepsKeep` says so for every sweep whose project was not edited since,
and gives `EditsSurviveSweeps`. `SuggestionsStayBounded` rests on `Batch`: what a sweep
adds never has more than `TopKeywords` members.

**Judgements.** `MoreSaidCountsMore`: whatever terms are added to a text, with the traits their words bring, its
relevance does not fall, unless it is then taken for one about a game. The points
of the signals grow with what is said, and caps bind only texts
that say nothing. `LoneContextBelowGate`: the weights of one kind of
term in the context leave no room up to the gate of 0.45. `CriticalNeedsShares` and `SharesNeverCalm`:
the boost by shares is what separates HIGH from CRITICAL, and it is monotonic through its
integer division and its cap.

**Runs of the pipeline.** All twelve properties of runs follow for all records, texts, models and failures. Their
invariants are `NlpFactsOfRecords` (the facts of the NLP stage are what it makes of the records it was
given, and later stages leave them alone) and `MentionsOfRecords` (a mention is
its record but for what dedup annotates, and profiles and threads are those of the mentions). What a batch makes of one record depends on the record, and on the others only
by its place: calls to the model go out for the records that reach them, and answers are told apart by
place (`OwnAnswer`, `OneOverall`, `OwnSentiment`). That places in an increasing selection lead back to the record
(`PlacesInOrder`, `AtPlaces`) is the one fact about sequences that all this needs, and is proved by
counting; `Nth` and `At` in `Normalization` say it without a fold.
`MoreSaidStaysIn` and `LoneContextStaysOut` add the judgements above. `FailuresHide` compares a record
with the same record whose later calls succeed: a failure leaves labels neutral or points out, and every
weight, threshold and gate after it is monotonic in them (`NoWorse`, `ClaimsLess`, `GateStaysShut`). The
order of stages matters to it, because preprocessing and intent decide whether later ones run; those failures are kept on both sides.
`CommentsSeePosts` needs that the first mention of a thread is found whatever the order
(`ThreadHasFirst`, the least place by `LeastNat`).
`BatchingIsInvisible` is about two batched calls whose answers are matched by position. The windows of
all keywords of all records are one list: a window's place is the number of windows of the records
before it (`Before`, `BeforeAdds`), so that the windows of a record are a stretch of the list in
their own order (`WindowsInPlace`, `WindowsFor`). An aspect selects places of that
list; those of one record are the places it has alone, shifted by as much (`ShiftedPlaces`), and so their scores
are the scores it has alone (`OwnScores`, `SentimentIsOwn`). The duplicates the model answers once do
not matter, because equal texts have equal answers (`OwnAnswer`).
`BurstsAreDensest` shows that the two pointers over the sorted times miss no window. Sorting is told by
counting: the n-th time is up to t exactly when n times are (`SortedByCount`). The left pointer stops at
the first time within the window (`LeftIsFirst`): it never has to go back, because
sorted times never fall. Then each stretch between the pointers lies in the window of its first
time and each window is a stretch that ends somewhere, and both have the same maximum (`SameMax`).
`DigestsCountMentions` follows entities from the ontology to the digest. `ReportOfFacts` says that a
report is made of the run's mentions, threads and enrichment as they stand: nothing it read changes
later. The facts about entities form a sequence, each about a mention of the run (`EntitiesOfMentions`),
and a table ranked by two numbers holds each of its rows once (`RankedRows`). So the rows partition
the pairs of a mention and an entity it names, row by row the running sum counts the pairs of
the rows so far (`VolumeOfDigest`), and what the cut at `TopRows` drops are the pairs of the entities
past it. The two recursive functions in this exist because a loop over an interval does
(`LoopRuns`), and are reasoned about from one number to the next (`StepByStep`): both are induction over
the numbers up to N by the least counterexample (`LeastNat`), not over data.
`RepliesAreControversy` follows a thread to the level of the crisis. A thread of replies only scores at
least 0.80 by its replies and its depth alone, one without replies at most 0.72 however mixed
and however many its authors (`ThreadScore`, from `SummaryCounts` and the rounding of `RatioBounds` and `WeighedShares`); the row
that a report puts first is one no other is above (`FirstRow`), so rows past the cut do not matter, and its score decides
the signal (`ControversyJudged`). That the issues of a run are finitely many (`FiniteIssues`, down to the places of a phrase
in a segment) is what makes their share of a thread a number. `CrisisOfReport` adds that the assessment is that of
the report of the run. The attempt refuted an earlier form of the property: a reply to a comment
that names no parent shares its thread with that comment and scores 0.59, so "a group that holds a
reply is in a critical controversy" is false. The property now says what is true, and the
`AnalysisRuns` have such a comment.
`ThreadsJudgedAlone` compares what enrichment says of a thread in a batch with what it says of the
thread alone. The link between mentions is the entity a mention is about, and that is the first one
named in a fact about it (`TargetIsFirst`): facts of other mentions and clusters of unknown names do not change it
(`TargetOfTwo`, `TargetWithClusters`), and mentions of one id are copies, because their records are
(`OneVersionBatch`), so the target is the one the mention has by itself (`OwnTarget`). A thread's
mentions are at some places of the batch, each at one (`ThreadTurned`); its hypotheses
are those it has alone with other places (`IssueRows`, `AspectRows`, `ThreadRows`), one to one. So groups of
hypotheses that agree on thread, topic and target are as large, and echoes, which compare
evidence, count as many (`EqualEchoes`, `GroupsMove`), whether the group is compared in pairs or not.

`TopicsSplitTheBatch`, `ClustersAreComponents` and `WeightsAddUp` (in `ClusterProofs`) rest on union-find. `Tops` says of
a forest where the top of each tree is and that the way there gets shorter with each step:
a bound on it is the number of unions so far, so following parents as often as there are items gets to
the top (`FindFollows`, `FindsTop`), and a union makes a forest again (`UnionTops`). `Joins` is what
the loop over the pairs preserves (`StartJoins`, `UnionJoins`, `UnionsJoin`): pairs united so far have one
top, and a set that no pair leaves holds whole trees. From the two sides, trees are the connected
components (`TreesAreComponents`), whatever the order of the pairs and however often one comes. The pairs
of the nested loops are all pairs of two places (`PairsInOrder`). For topics, the documents that share
words are the graph (`DiscoverComponents`); every mention either has a topic or is in one place of
the rest (`UnmatchedPlaces`), so the artifacts partition the batch (`ArtifactsSplit`) and their sizes
add up (`SizesAddUp`, by the least set of artifacts that does not). For dedup, mentions go
by their ids in the code and by their places in the property: texts without a copy have ids of their
own (`NodesDiffer`), so the components are the same under both names (`MovedComponents`). What was compared
is what shares a bucket of at most `MaxBucketSize`, or anything in a small batch
(`ComparedInBuckets`, `NearAreGroups`). `ClustersOfRecords` is the invariant: once dedup has run, clusters and mentions are
what it made of the normalized records, and no later stage changes them. A mention is in one cluster
at most, because a text with a copy never is a candidate for a near one (`WeightOfContent`).

Only model-checked are the liveness properties `CopiesDrain`, `EveryRecordHandled`, `KeptWarm`,
`LevelSettles`, `ReachesEnd`, `RetriesSettle` and `Suggested`: fairness and ENABLED are out of the
prover's reach. Every invariant and every action property of the passing runs has a theorem. Beyond the
runs' properties, what a fold over a sequence computes for every input is an induction over data, for which
the library has operators as parameters only, which the provers cannot instantiate; where
a property needs one, the model has a selection of places or a loop over an interval instead.

## 8. Findings and divergences

Runs show two:

1. `shutdown_flush`: `registry.shutdown` creates the task that closes the publisher and main
   stops the producer without awaiting it, although `registry.py:324` says "Flush contract
   publisher on shutdown". In the run a send fails and its document is put back, the task is cancelled
   while it is busy with the next group of the batch, and the producer stops with the document in the buffer.
2. `thread_lineage`: parents are looked up by mention id but named by document id, so no
   context has a parent's text, although `run_pipeline.py:155` builds threads "with lineage
   context" and `tests/test_threads.py:151` asserts it.

Met while modelling, in the models as the code has it, without a run of their own.

Delivery and storage:

- The offset is committed in `finally`, after a failed handler too; `documents/production-readiness.md:67`
  says otherwise.
- Documents that a failed flush put back can outgrow the producer's message size (1 MiB by
  default, `pkg/kafka/producer.py:41`) and are then retried for ever, with what came after them; they
  can also be published under the next group's project. The "next flush" of `usecase.py:135` is that of a
  later group with facts: on an idle topic they wait.
- A digest may reach the broker before its batch (two topics), which `tests/e2e/test_output_contract.py`
  does not expect. Two runs within a second share a run id, unlike `publish_digest.py:4` says.
- The default alert trigger is `str(None)`, which ranks 0, unlike `AGENT.md:211`. A push whose answer is
  lost is not recorded, and a section that outlives the 45 s lock lets a second pod in, though
  AGENT.md calls the record the cross-pod source of truth.
- Copies of a post can arise: the unique index of `migration/019` is commented out (line 94).
- The quality gate (`server.py:1135`) reads a `domain_type_code` that `NLPFact` does not have and
  matches its expression against an attribute no insight has, so only the default threshold
  works, and its comment ("per-domain", "spam", `server.py:425`) describes more. What it leaves out of
  `post_insight` is not published either.
- An ontology edit between a sweep's read and its write, or after a failed read, is lost, and the
  "auto-discovered" group is replaced rather than merged, so a keyword found again is missing for one
  sweep (`updater.py:245`, `:274`).
- README.md:222 speaks of exactly-once through the outbox; nothing uses it (`AGENT.md:121`).

Dashboards:

- The unfiltered posts page reads `posts_recent_top`, which is filled without looking at the hidden
  targets (`migration/015:109`) and read without filter (`analytics_service.py:1584`), although
  `migration/008:4` promises that a flush takes effect "immediately". A query running across a flush
  stores what it saw before.
- `analytics_service.py:2563` says that the mart deduplicates per project; its `DISTINCT ON`
  (`migration/014:12`) leaves the project out, so of a content found by two projects it keeps one.
- "The last 30 days" of the KPI rollup start at `CURRENT_DATE - 29`, those of platforms a day earlier
  and those of a query at the same time of day; `AnswersAgree` compares them where they can agree.
- Platforms: the rollup has a row "UNKNOWN", the query leaves rows without platform out. The KPI rollup
  of a campaign leaves out projects that have no row yet. Keywords ignore scope and hidden targets.
- Nothing in the service refreshes the mart.
- `AGENT.md:184` has timeouts cached for 5 minutes, the code for 60 s.
- A project without rollup rows waits for its first while others have theirs, unlike the docstring at
  `apps/api/main.py:153`; a fallback refresh cut off half-way makes the loop forget a project.

Stages of a run:

- A batch of which the language gate rejects every record goes to NLP as a whole (`run_pipeline.py:178`).
- Naive and aware timestamps of one author raise in `score_authors.py:277` and end the group's run.
- A reply to a comment may get a sibling's text as its root text, since its root is the comment.
- One reply without a reply of its own scores 0.90 as controversy and makes a thread "critical"
  (see `RepliesMeanControversy` for which threads do), for a metric that is meant for "surfacing threads that may merit
  analyst review" (`build_bi_reports.py:149`).
- Facts found twice in one mention (by a rule and by a seed with the same phrase, or in a redelivered
  record) corroborate one another, although the reason given is "similar issue observed elsewhere in
  the thread" (`_calibration.py:103`). Severity never exceeds "medium". "?" separates segments and so
  can never be the cue for doubt it is listed as.
- The phrases of a project's rules are merged into the seeds of its domain, which match without
  the rules' negative phrases and their mode "all".
- Groups of more than 96 documents link equal texts only. Clusters without tokens, or with the same
  three top terms, share a key. A repeated alias of an entity is counted among the unresolved.
- The digest counts a mention once per entity named in it, and not at all past the tenth entity.
- A sentiment that collapses is found by comparing counts, so an entity that is mentioned less in the
  later half is one; if a half is empty, both are all mentions. The report of emerging topics is always empty.
- Comments of 20 characters under a text on brand and domain reach 0.40 with no word of their own, above the ingest
  gate of 0.30 that the comment at `relevance.py:252` wants them below; they stay below the gate of 0.45.
- `tests/test_relevance.py:58` wants at least 0.45 of a comment with aspects and a domain term on the parent's page
  only; `relevance.py:252` has since lowered the weight of such a term, on purpose, and the comment gets 0.24, so
  the test fails. `LoneContextNeverIndexed` states what the code does, against that test.
- "cod" is a term of logistics (`relevance.py:42`) and the name of a game (`relevance.py:487`): a text without brand and
  delivery words that says cod drops to 0.08 (`relevance.py:227`), out of index and posts, if it is without
  Vietnamese letters or has a gaming word, whatever else it says of the business.
- The low risk that preprocessing gives is overwritten by stage 5; a text whose intent could not be
  found is indexed even if it is spam. Impact has the range 0..100 while the builder compares it with
  thresholds between 0 and 1; `is_viral` cannot become true.
- A customer who asks for support and is upset is negative when the model says neutral or
  positive, and neutral when it says negative (`helpers.py:303`). The model's score has three values, so that
  the branch for extreme negativity is never taken.
- Noun chunks of spaCy have the type "syntactic" while the filter keeps "chunk"
  (`keyword_extraction/constant.py:24`): they push lower proposals out and are dropped themselves.
- The review queue raises when full, unlike the comment in `review/constant.py`, and no service is ever
  given to the pipeline.

## 9. Not modelled

- Not reached by the running service: `internal/outbox`, `internal/storage`, `internal/review`,
  `internal/evaluation`, `pkg/rabbitmq`, scripts.
- Ingestion: parsing of one record; the consumer server has its outcome, parsed or skipped.
- Rules over characters: the language gate, cleaning of texts, shingles and hashes, patterns of intents.
  Their outcome is part of a scenario. The tokenizer and the model behind `pkg/phobert_onnx`, YAKE and
  spaCy are external.
- Reporting: breakdowns by platform and source, the influence of sources, names, evidence and the
  copies of figures in marts; enrichment's label health and the summary attached to messages
  (`enrich_nlp_facts_with_bundle`). They copy or count what the modelled parts compute.
- HTTP: the export of posts, readiness and liveness probes, texts. Client start-up, metrics, registries
  at start, configuration.

Hazards that are in the models but in no property, since the code does not prevent them: a shutdown that
cuts a batch off and commits it (`consumer.py:205`, `left` in `ConsumerServer`), two upserts that
insert the same post or write an older analysis last (`post_insight.py:100`, `:104`), a send whose
delivery fails after `send` returned (`producer.py:110`), run ids of one second (`run_id.py:10`), a new
project's wait for its first rollup (`main.py:184`).
