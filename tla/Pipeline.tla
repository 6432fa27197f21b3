------------------------------ MODULE Pipeline -------------------------------
(***************************************************************************)
(* One run of the pipeline on one group of records                         *)
(* (internal/pipeline/usecase/run_pipeline.py): the stages in their order, *)
(* each reading and extending the facts of those before it.  A stage that  *)
(* raises ends the run, and with it the group: the consumer server logs    *)
(* the error and goes on to the next group.                                *)
(*                                                                         *)
(* What a stage makes of the facts is defined in modules of their own.     *)
(* Review never gets a service from the registry.                          *)
(***************************************************************************)
EXTENDS Threads, Dedup, Spam, NlpBatch, Reports, CrisisScore

CONSTANT Families   \* sets of the runs to look at, see ScenarioType

Order == <<"normalization", "dedup", "spam", "threads", "nlp",
           "enrichment", "review", "reporting", "crisis">>

\* records: the group, in order; enabled: PipelineConfig's flags;
\* alike, bucket: see Dedup; failing: see NlpBatch; ontology: see Registry;
\* config: the project's crisis configuration, see CrisisScore.
DocumentIds == {"doc"} \X Nat
Records == [doc : DocumentIds, type : DocTypes, parent : DocumentIds \cup {NoId},
            author : STRING, text : DOMAIN Opinions, supported : BOOLEAN,
            posted : [zone : {"none", "naive", "aware"}, minute : Int],
            fate : Fates, post : Posts]

ScenarioType(s) ==
    /\ s.records \in Seq(Records)
    /\ s.enabled \subseteq Range(Order)
    /\ s.failing \subseteq Steps
    /\ OntologyType(s.ontology)
    /\ ConfigType(s.config)

ASSUME PipelineAssumption == /\ DOMAIN Opinions \subseteq DOMAIN Words
                             /\ \A family \in Families : \A s \in family : ScenarioType(s)

VARIABLES run,    \* the scenario
          stage,  \* place in Order of the next stage
          facts,  \* PipelineFacts
          raised  \* StageError: the stages that raised

vars == <<run, stage, facts, raised>>

NoFacts == [mentions |-> <<>>, clusters |-> <<>>, profiles |-> <<>>,
            threads |-> <<>>, nlp |-> <<>>, analysed |-> <<>>,
            enrichment |-> <<>>, report |-> <<>>, crisis |-> <<>>]

\* The first stage from place n on whose flag is set; others are passed over.
NextStage(enabled, n) ==
    Min({k \in n .. Len(Order) : Order[k] \in enabled} \cup {Len(Order) + 1})

Init == /\ \E family \in Families : run \in family
        /\ stage = NextStage(run.enabled, 1)
        /\ facts = NoFacts
        /\ raised = {}

Running == stage <= Len(Order) /\ raised = {}

\* A stage replaces the facts.
Runs(name) == Running /\ Order[stage] = name

Finish(new) == /\ facts' = new
               /\ stage' = NextStage(run.enabled, stage + 1)
               /\ UNCHANGED <<run, raised>>

Raise(name) == /\ raised' = {name}
               /\ UNCHANGED <<run, stage, facts>>

HasMentions == facts.mentions # <<>>

NormalizationStage ==
    /\ Runs("normalization")
    /\ Finish([facts EXCEPT !.mentions = Normalize(run.records)])

\* A stage that needs mentions and finds none hands the facts on.
WithoutMentions ==
    /\ \E name \in {"dedup", "spam", "threads", "enrichment", "reporting"} : Runs(name)
    /\ ~HasMentions
    /\ Finish(facts)

DedupStage ==
    /\ Runs("dedup")
    /\ HasMentions
    /\ LET clusters == Clusters(facts.mentions, run.alike, run.bucket)
       IN  Finish([facts EXCEPT !.clusters = clusters,
                                !.mentions = Annotate(facts.mentions, clusters)])

SpamStage ==
    /\ Runs("spam")
    /\ HasMentions
    /\ IF Raises(facts.mentions)
       THEN Raise("spam")
       ELSE Finish([facts EXCEPT !.profiles = Profiles(facts.mentions)])

ThreadsStage ==
    /\ Runs("threads")
    /\ HasMentions
    /\ Finish([facts EXCEPT !.threads = Threads(facts.mentions)])

\* With mentions, the records they were made from; without, every record.
NlpInput ==
    LET kept == {m.origin : m \in Range(facts.mentions)}
    IN  IF HasMentions
        THEN At(run.records, {i \in DOMAIN run.records : run.records[i].doc \in kept})
        ELSE run.records

NlpStage ==
    /\ Runs("nlp")
    /\ Finish([facts EXCEPT !.analysed = NlpInput,
                            !.nlp = EnrichBatch(NlpInput, run.failing)])

EnrichmentStage ==
    /\ Runs("enrichment")
    /\ HasMentions
    /\ Finish([facts EXCEPT !.enrichment = <<EnrichMentions(facts.mentions, run.ontology)>>])

ReviewStage == Runs("review") /\ Finish(facts)

\* Without threads or enrichment the reports are made of empty ones.
ReportingStage ==
    /\ Runs("reporting")
    /\ HasMentions
    /\ LET enrichment == IF facts.enrichment = <<>> THEN NoEnrichment ELSE facts.enrichment[1]
       IN  Finish([facts EXCEPT !.report =
                      <<Report(facts.mentions, facts.threads, enrichment)>>])

CrisisStage ==
    /\ Runs("crisis")
    /\ Finish([facts EXCEPT !.crisis = IF facts.report = <<>> THEN <<>>
                                       ELSE <<Assess(facts.report[1], run.config)>>])

Next == \/ WithoutMentions \/ NormalizationStage \/ DedupStage \/ SpamStage \/ ThreadsStage
        \/ NlpStage \/ EnrichmentStage \/ ReviewStage \/ ReportingStage
        \/ CrisisStage

Spec == Init /\ [][Next]_vars

-----------------------------------------------------------------------------
\* Every document of the group comes in one version, if more than once.
OneVersion ==
    \A r, s \in Range(run.records) : r.doc = s.doc => r = s

\* The places of mentions fall into classes: copies of one long text, and the
\* components of the graph that joins long texts without a copy which were
\* compared and are alike.
Places == DOMAIN facts.mentions
TextAt(i) == facts.mentions[i].text
IsCopy(i) == /\ TextAt(i) \in LongTexts
             /\ \E j \in Places \ {i} : TextAt(j) = TextAt(i)
Nodes == {i \in Places : TextAt(i) \in LongTexts /\ ~IsCopy(i)}
InBucket(i) == {j \in Nodes : run.bucket[TextAt(j)] = run.bucket[TextAt(i)]}
Joined(i, j) ==
    /\ {TextAt(i), TextAt(j)} \in run.alike
    /\ \/ Cardinality(Nodes) <= BruteForceThreshold
       \/ j \in InBucket(i) /\ Cardinality(InBucket(i)) <= MaxBucketSize
ComponentsOf(nodes, edges) ==
    LET closed(S) == \A i \in S, j \in nodes : {i, j} \in edges => j \in S
    IN  {S \in SUBSET nodes : /\ S # {} /\ closed(S)
                              /\ \A T \in SUBSET S : closed(T) => T \in {{}, S}}
Components ==
    ComponentsOf(Nodes, {{x[1], x[2]} : x \in {y \in Nodes \X Nodes : Joined(y[1], y[2])}})
CopyClasses == {{j \in Places : TextAt(j) = TextAt(i)} : i \in {k \in Places : IsCopy(k)}}
Loners == {{i} : i \in {j \in Places : TextAt(j) \notin LongTexts}}

Deduped == "dedup" \in run.enabled /\ stage > 2 /\ raised = {} /\ HasMentions
IdsAt(S) == {facts.mentions[i].id : i \in S}

(* Near-duplicate clusters are the connected components of the pairs that  *)
(* were compared and are alike, whatever order mentions, buckets and pairs *)
(* come in: union-find loses no link and invents none.                     *)
(* [annotate_dedup.py:_near_clusters, _UnionFind]                          *)
NearAreComponents ==
    Deduped /\ OneVersion =>
        {c.ids : c \in Range(facts.clusters)} =
            {IdsAt(S) : S \in CopyClasses \cup {C \in Components : Cardinality(C) > 1}}

(* A mention of a content that so many mentions share weighs one over their *)
(* number, so that the weights of a group add up to its contents: a copy, a *)
(* near copy or a redelivered record neither counts twice nor makes its     *)
(* content count less than once.  A text too short to be compared is one   *)
(* content per mention: redelivered, it weighs one each time.              *)
(* [annotate_dedup.py:_annotation_map]                                     *)
WeightsCountContents ==
    Deduped /\ OneVersion =>
        \A C \in CopyClasses \cup Components \cup Loners :
            \A i \in C : facts.mentions[i].copies = Cardinality(C)

ContextsOf(m) == {c \in facts.threads[m.root].contexts : c.mention = m.id}

(* A comment whose post is in the group is read in the context of that     *)
(* post and of no other mention of the thread, although the post is never  *)
(* found by its id.  [build_threads.py:_resolve_root_mention]              *)
CommentSeesPost ==
    facts.threads # <<>> /\ OneVersion =>
        \A c, p \in Range(facts.mentions) :
            c.depth = 1 /\ p.depth = 0 /\ c.parent = p.origin =>
                \A x \in ContextsOf(c) : x.rootText = p.text

(* The burst of an author is the largest number of the author's mentions   *)
(* posted within any window, in whatever order they arrived.               *)
(* [score_authors.py:_burstiness_score]                                    *)
BurstIsDensest ==
    \A author \in DOMAIN facts.profiles :
        LET posted == Posted(MentionsBy(author, facts.mentions))
            within(i) == {j \in DOMAIN posted :
                            posted[j].minute - posted[i].minute \in 0 .. BurstWindow}
        IN  Len(posted) >= 2 =>
                facts.profiles[author].burst =
                    Max({Cardinality(within(i)) : i \in DOMAIN posted})

(* Batching is invisible: each record gets the fact it would get alone,    *)
(* however many others are skipped, fail or say the same, and facts keep   *)
(* the order of records.  [batch_enricher.py:enrich_batch, process.py:     *)
(* process_batch, phobert_onnx.py:predict_batch]                           *)
NlpFactsAligned ==
    LET alone(i) == EnrichBatch(<<facts.analysed[i]>>, run.failing)
        kept == At([i \in DOMAIN facts.analysed |-> i],
                   {i \in DOMAIN facts.analysed : alone(i) # <<>>})
    IN  /\ \A i \in DOMAIN facts.analysed : Len(alone(i)) <= 1
        /\ facts.nlp = [n \in DOMAIN kept |-> alone(kept[n])[1]]

RecordOf(fact) == CHOOSE r \in Range(facts.analysed) : r.doc = fact.doc

\* What a text may say more: terms, and what else the rules of relevance find
\* in the words of terms, such as "cod", a term of logistics.
Brought == {"cod", "delivery", "vietnamese"}
Wordings == {w \in [says : SUBSET TermKinds, traits : SUBSET Brought] :
                "cod" \in w.traits => "logistics" \in w.says}
Saying(t, w) == [t EXCEPT !.says = @ \cup w.says, !.traits = @ \cup w.traits]
SayingMore(r, w) == [r EXCEPT !.post.raw = Saying(@, w), !.post.clean = Saying(@, w)]
TakenForGame(t) == CodGaming(t) /\ "brand" \notin t.says
SameMatter(t, w) == \/ "brand" \in t.says \cup w.says
                    \/ TakenForGame(Saying(t, w)) <=> TakenForGame(t)

(* A post that names more of the business is never less relevant for it,   *)
(* nor left out of the index or the posts where it was in: no cap or bonus *)
(* works against what is said.  One branch does: with the word cod, and    *)
(* neither the brand nor delivery, a text is taken for one about a game,   *)
(* at 0.08 whatever else it says; so the two texts are both taken for that *)
(* or both not, unless the brand is named.  [relevance.py:                 *)
(* calculate_business_relevance, builder:_build_rag, server.py:            *)
(* _should_skip_insight]                                                   *)
AtLeastSo(more, insight) == /\ more.verdict.relevance >= insight.verdict.relevance
                            /\ insight.indexed => more.indexed
                            /\ insight.stored # <<>> => more.stored # <<>>
MoreSaidNeverLess ==
    OneVersion =>
        \A fact \in Range(facts.nlp), w \in Wordings :
            LET r == RecordOf(fact)
            IN  (/\ r.post.raw.length > 0 /\ r.post.clean.length > 0
                 /\ SameMatter(Heard(r.post), w)) =>
                    AtLeastSo(InsightOf(SayingMore(r, w), fact.sentiment), fact.insight)

(* A post that names nothing of the business itself gets into the index    *)
(* only below two kinds of terms: one of them on the parent's page, with   *)
(* whatever intent and aspects, is not enough.  A test says otherwise, and *)
(* fails: it wants 0.45 of a comment with a domain term on the parent's    *)
(* page and aspects, which gets 0.24 since the weight of such a term was   *)
(* lowered on purpose.  [relevance.py:252-261, tests/test_relevance.py:58] *)
LoneContextNeverIndexed ==
    OneVersion =>
        \A fact \in Range(facts.nlp) :
            LET post == RecordOf(fact).post
            IN  fact.insight.indexed =>
                    \/ Heard(post).says # {}
                    \/ Cardinality(ContextSays(post.context)) >= 2

(* A swallowed failure after the intent was found, of one record's stage   *)
(* or of the model's calls, never makes a post riskier, of more impact or  *)
(* more relevant, and never gets it into the index.  Not so for an upset   *)
(* request: calibration makes it negative unless the model found it so.    *)
(* [batch_enricher.py:_run_stages_1_to_3, enrich_batch, helpers.py:        *)
(* calibrate_overall_sentiment]                                            *)
UpsetRequest(post) == /\ "upset" \in Full(post).traits
                      /\ PrimaryIntent(post) \in {"SUPPORT", "LEAD"}
NoStronger(hurt, sane) == /\ RiskRank(hurt.verdict.risk) <= RiskRank(sane.verdict.risk)
                          /\ hurt.verdict.impact <= sane.verdict.impact
                          /\ hurt.verdict.relevance <= sane.verdict.relevance
                          /\ hurt.indexed => sane.indexed
FailuresOnlyHide ==
    LET early(r) == [r EXCEPT !.post.failing = @ \cap {"preprocessing", "intent"}]
        whole == EnrichBatch([i \in DOMAIN facts.analysed |-> early(facts.analysed[i])], {})
    IN  \A n \in DOMAIN facts.nlp : OneVersion /\ ~UpsetRequest(RecordOf(facts.nlp[n]).post) =>
            NoStronger(facts.nlp[n].insight, whole[n].insight)

(* A mention whose parent is in the group is given its parent's text, and  *)
(* is among its parent's children.  [run_pipeline.py:155, build_threads.py]*)
ThreadsHaveLineage ==
    facts.threads # <<>> =>
        \A m, p \in Range(facts.mentions) :
            m.parent = p.origin =>
                /\ \A x \in ContextsOf(m) : p.text \in x.parentText
                /\ \A x \in ContextsOf(p) : m.id \in Range(x.children)

(* A thread is judged by what is said in it: the sentiments, aspects and   *)
(* issues of its mentions are those it would have alone, its mentions the  *)
(* other way round.  [semantic_enricher.py:enrich,                         *)
(* _apply_thread_corroboration, _apply_aspect_corroboration]               *)
SemanticLocal ==
    facts.enrichment # <<>> /\ OneVersion =>
        LET bundle == facts.enrichment[1]
            unplaced(fs) == {[f EXCEPT !.place = 0] : f \in fs}
            within(fs, ms) == {f \in fs : f.mention \in Ids(ms)}
        IN  \A root \in {m.root : m \in Range(facts.mentions)} :
                LET thread == Reverse(ThreadOf(root, facts.mentions))
                    entities == EntityFacts(thread, run.ontology)
                IN  /\ within(unplaced(bundle.issues), thread)
                          = unplaced(IssueFacts(thread, entities, run.ontology))
                    /\ within(unplaced(bundle.aspects), thread)
                          = unplaced(AspectFacts(thread, entities, run.ontology))
                    /\ within(Range(bundle.sentiments), thread) = Range(SentimentFacts(thread))

(* Topics split the batch: the mentions no topic is known of fall into the *)
(* connected components of sharing two top words, in whatever order they   *)
(* are linked, and the artifacts count each mention once.                  *)
(* [topic_enricher.py:discover, prepare]                                   *)
TopicsAreComponents ==
    facts.enrichment # <<>> =>
        LET artifacts == facts.enrichment[1].artifacts
            docs == Prepare(facts.mentions, run.ontology).docs
            edges == {{x[1], x[2]} : x \in {y \in (DOMAIN docs) \X (DOMAIN docs) :
                                               Alike(docs, y[1], y[2])}}
        IN  /\ {a.cluster : a \in artifacts} \ {{}} = ComponentsOf(DOMAIN docs, edges)
            /\ MapThenSumSet(LAMBDA a : a.size, artifacts) = Len(facts.mentions)

(* The digest's mention volume is the number of mentions, and one more for *)
(* each further entity a mention names; entities past the rows a report    *)
(* keeps are lost to it.  A redelivered mention counts once for an entity  *)
(* and once as unresolved.  [build_layer1_payload.py, _build_sov_report]   *)
DigestVolume ==
    facts.report # <<>> /\ facts.enrichment # <<>> =>
        LET named == ResolvedFacts(facts.enrichment[1])
            further == Cardinality({<<f.mention, f.entity>> : f \in Range(named)})
                         - Cardinality({f.mention : f \in Range(named)})
            volume == facts.report[1].digest.volume
        IN  /\ volume <= Len(facts.mentions) + further
            /\ Cardinality({f.entity : f \in Range(named)}) <= TopRows =>
                   volume = Len(facts.mentions) + further

(* Unless the project moves the threshold, a group in a critical           *)
(* controversy holds a reply.  A reply's root is its comment, so that      *)
(* replies are threads of replies only, but for those to a comment that    *)
(* names no parent; and a thread of replies only puts the group into a     *)
(* critical controversy, whoever writes them and whatever they say.        *)
(* [_build_thread_controversy_report, _derive_root_id, assess_crisis]      *)
RepliesMeanControversy ==
    facts.crisis # <<>> /\ facts.threads # <<>> /\ run.config.viral = {} =>
        LET reply(m) == m.depth = 2
            ms == Range(facts.mentions)
            critical == facts.crisis[1].signals.controversy = "critical_like_proxy"
        IN  /\ critical => \E m \in ms : reply(m)
            /\ \A r \in ms : (\A m \in ms : m.root = r.root => reply(m)) =>
                   critical /\ facts.crisis[1].level = "critical"
===============================================================================
