----------------------------- MODULE Enrichment ------------------------------
(***************************************************************************)
(* EnricherService (internal/enrichment): the enrichers in their order,    *)
(* entities before the semantic ones, which take targets from them.        *)
(***************************************************************************)
EXTENDS Topics

CONSTANTS Moods   \* cues of the stances and intents, in the order they are tried

Stances == <<"question", "oppose", "support">>
Intents == <<"question", "purchase_intent", "praise", "complaint", "compare">>

ASSUME EnrichmentAssumption == DOMAIN Moods = Range(Stances) \cup Range(Intents)

\* The first of the classes a word of which is said.
FirstMood(words, classes, otherwise) ==
    LET told == SelectSeq(classes, LAMBDA c : Moods[c] \cap Range(words) # {})
    IN  IF told = <<>> THEN otherwise ELSE Head(told)

Stance(words) == FirstMood(words, Stances, "neutral")
Intent(words) == FirstMood(words, Intents, "commentary")

\* KeywordEnricher.  Tags are not part of the model's texts.
Keyphrases(words) == MostCommon(SelectSeq(words, LAMBDA w : w \notin Noise), 3)

\* enrich_mentions, given the entities and topics it has found.
Bundle(mentions, ontology, entities, prepared, topics) ==
    LET each(Of(_)) == [i \in DOMAIN mentions |-> Of(Words[mentions[i].text])]
    IN  [entities   |-> entities,
         clusters   |-> CandidateClusters(entities),
         stances    |-> each(Stance),
         intents    |-> each(Intent),
         keyphrases |-> each(Keyphrases),
         sentiments |-> SentimentFacts(mentions),
         targets    |-> UNION {TargetSentiments(m, entities) : m \in Range(mentions)},
         aspects    |-> AspectFacts(mentions, entities, ontology),
         issues     |-> IssueFacts(mentions, entities, ontology),
         topics     |-> TopicFacts(mentions, topics),
         artifacts  |-> TopicArtifacts(prepared, topics)]

EnrichMentions(mentions, ontology) ==
    LET prepared == Prepare(mentions, ontology)
    IN  Bundle(mentions, ontology, EntityFacts(mentions, ontology), prepared,
               TopicAssignments(prepared))

\* EnrichmentBundle(), when the stage did not run.
NoEnrichment == [entities |-> <<>>, clusters |-> {}, stances |-> <<>>, intents |-> <<>>,
                 keyphrases |-> <<>>, sentiments |-> <<>>, targets |-> {},
                 aspects |-> {}, issues |-> {}, topics |-> {}, artifacts |-> {}]
==============================================================================
