------------------------------- MODULE Topics --------------------------------
(***************************************************************************)
(* SimplifiedTopicCandidateEnricher and FallbackTopicProvider              *)
(* (internal/enrichment/usecase/topic_enricher.py): a mention belongs to   *)
(* the first topic of the ontology it speaks of; the others are clustered  *)
(* by the words they share, and a cluster is named after its top words.    *)
(***************************************************************************)
EXTENDS Semantics

CONSTANTS Noise,      \* words too short, stop words and punctuation
          TopTokens,  \* _TOP_N_TOKENS
          TopicTerms  \* terms of a cluster, the first three of which name it

ASSUME TopicsAssumption == TopTokens \in Nat /\ TopicTerms \in Nat \ {0}

SharedTokens == 2     \* _CLUSTER_THRESHOLD
Misc == "misc"

\* _match_project_topic_rules: the first rule that finds anything.
RuleTopic(words, ontology) ==
    LET found == SelectSeq(RulesFor(ontology, "TOPIC"), LAMBDA r : Evidence(r, words) # {})
    IN  [i \in 1 .. Min({1, Len(found)}) |-> [key |-> found[i].target, label |-> found[i].name]]

\* Seeds of the topics, those of rules included.
SeedTopic(words, ontology) ==
    LET found == SelectSeq(Seeds(ontology, "TOPIC"),
                           LAMBDA t : \E ph \in t.phrases : Says(words, ph))
    IN  [i \in 1 .. Min({1, Len(found)}) |-> [key |-> found[i].id, label |-> found[i].name]]

\* Of each mention none or one.
FirstGiven(topics, others) == IF topics # <<>> THEN topics ELSE others
KnownTopics(mentions, ontology) ==
    [i \in DOMAIN mentions |->
        FirstGiven(RuleTopic(Words[mentions[i].text], ontology),
                   SeedTopic(Words[mentions[i].text], ontology))]

-----------------------------------------------------------------------------
\* _top_tokens
TokensOf(words) ==
    MostCommon(SelectSeq(words, LAMBDA w : w \notin Noise), TopTokens)

Alike(docs, i, j) == Cardinality(Range(docs[i]) \cap Range(docs[j])) >= SharedTokens

\* find and union over the pairs in the order of the two loops: the tree of the
\* first document is put below the top of the second's.
Grown(docs) ==
    LET places == [i \in DOMAIN docs |-> i]
        pairs == PairsOf(places)
        joined == At(pairs, {k \in DOMAIN pairs : Alike(docs, pairs[k][1], pairs[k][2])})
    IN  Unions(places, [k \in DOMAIN joined |-> <<joined[k][2], joined[k][1]>>])

\* The top terms of a cluster; a cluster without any is called "misc".
TermsOf(docs, members) ==
    LET inOrder == SelectSeq([i \in DOMAIN docs |-> i], LAMBDA i : i \in members)
        terms == MostCommon(FlattenSeq([k \in DOMAIN inOrder |-> docs[inOrder[k]]]), TopicTerms)
    IN  IF terms = <<>> THEN <<Misc>> ELSE terms

\* FallbackTopicProvider.discover: the clusters of the documents, as places.
Discover(docs) == Trees(Grown(docs))

\* prepare: the places of the mentions no topic is known of, their documents
\* and the clusters these fall into.
Unmatched(known) ==
    At([i \in DOMAIN known |-> i], {i \in DOMAIN known : known[i] = <<>>})

Documents(mentions, places) ==
    [k \in DOMAIN places |-> TokensOf(Words[mentions[places[k]].text])]

Prepared(mentions, known, places) ==
    LET docs == Documents(mentions, places)
    IN  [known |-> known, places |-> places, docs |-> docs, clusters |-> Discover(docs)]

Prepare(mentions, ontology) ==
    LET known == KnownTopics(mentions, ontology)
    IN  Prepared(mentions, known, Unmatched(known))

\* _topic_key_for_terms, _topic_label_for_terms: the key of a cluster forgets
\* the order of its top three terms, the label keeps it.
Known(topic) == [key |-> {topic.key}, label |-> <<topic.label>>]
Discovered(terms) ==
    LET three == SubSeq(terms, 1, Min({3, Len(terms)}))
    IN  [key |-> Range(three), label |-> three]

TopicAssignments(prepared) ==
    LET at(i) == CHOOSE k \in DOMAIN prepared.places : prepared.places[k] = i
        cluster(i) == CHOOSE c \in prepared.clusters : at(i) \in c
    IN  [i \in DOMAIN prepared.known |->
            IF prepared.known[i] = <<>>
            THEN Discovered(TermsOf(prepared.docs, cluster(i)))
            ELSE Known(prepared.known[i][1])]

\* enrich: a mention id has the topics of all its places, at each of them.
TopicFacts(mentions, topics) ==
    {[place |-> x, mention |-> mentions[x[1]].id, topic |-> topics[x[2]]] :
        x \in {y \in (DOMAIN mentions) \X (DOMAIN mentions) :
                  mentions[y[1]].id = mentions[y[2]].id}}

\* One artifact for each known topic and one for each cluster: clusters with
\* the same top terms, or with none, have artifacts of the same key.
TopicArtifacts(prepared, topics) ==
    LET matched == DOMAIN topics \ Range(prepared.places)
    IN  {[key |-> k, cluster |-> {},
          size |-> Cardinality({i \in matched : topics[i].key = k})] :
            k \in {topics[i].key : i \in matched}}
          \cup
        {[key |-> Discovered(TermsOf(prepared.docs, c)).key, cluster |-> c,
          size |-> Cardinality(c)] : c \in prepared.clusters}
==============================================================================
