------------------------------ MODULE Semantics ------------------------------
(***************************************************************************)
(* SimplifiedSemanticInferenceEnricher (internal/enrichment/usecase): each *)
(* mention is cut into segments, each segment searched for cues, and what  *)
(* the cues say of sentiments, aspects and issues is weighed against what  *)
(* other mentions of the thread say.  Scores are in hundredths.            *)
(***************************************************************************)
EXTENDS Entities

CONSTANTS BuiltIn,        \* categories for an ontology without any of a kind
          Polarity,       \* the score of each polarity cue
          Cues,           \* the phrases of each other kind of cue
          Contrasts,      \* words that oppose two segments
          NegationReach,  \* words a negation reaches
          ShortText,      \* words of a text all of which is about its targets
          PairwiseMax     \* _CORROBORATION_PAIRWISE_MAX_GROUP

CueKinds == {"negation", "uncertainty", "comparison", "hearsay", "escalation", "first person"}
ASSUME SemanticsAssumption == /\ DOMAIN BuiltIn = {"ASPECT", "ISSUE"}
                              /\ \A kind \in DOMAIN BuiltIn : CategoriesType(BuiltIn[kind])
                              /\ DOMAIN Cues = CueKinds
                              /\ {NegationReach, ShortText, PairwiseMax} \subseteq Nat

QuestionMark == "?"
Punctuation == {".", QuestionMark}
NoTarget == "no target"

\* SemanticSegmenter.segment: the words between two boundaries; a text of
\* boundaries only is one segment.
Segments(words) ==
    LET boundary(p) == words[p] \in Punctuation \cup Contrasts
        begins(p) == ~boundary(p) /\ (p = 1 \/ boundary(p - 1))
        end(p) == Max({q \in p .. Len(words) : \A k \in p .. q : ~boundary(k)})
        segment(p) == [at       |-> p,
                       words    |-> SubSeq(words, p, end(p)),
                       contrast |-> p > 1 /\ words[p - 1] \in Contrasts,
                       question |-> end(p) < Len(words) /\ words[end(p) + 1] = QuestionMark]
        whole == [at |-> 1, words |-> words, contrast |-> FALSE,
                  question |-> QuestionMark \in Range(words)]
        starts == {p \in DOMAIN words : begins(p)}
    IN  IF words = <<>> THEN {}
        ELSE IF starts = {} THEN {whole}
        ELSE {segment(p) : p \in starts}

\* _build_seeds_from_ontology; the built-in seeds stand in for none.
Categories(ontology, kind) ==
    LET seeds == {c \in Range(Seeds(ontology, kind)) : c.phrases # {}}
    IN  IF seeds = {} THEN Range(BuiltIn[kind]) ELSE seeds

\* extract_lexical_anchors.  A phrase of a rule is found twice, as a seed of
\* its target and by the rule.
SeedAnchors(words, ontology, kind) ==
    UNION {{[label |-> x[1].id, phrase |-> x[2], at |-> p, source |-> "seed"] :
               p \in Spans(words, x[2])} :
           x \in UNION {{c} \X c.phrases : c \in Categories(ontology, kind)}}

RuleAnchors(words, ontology, kind) ==
    LET rules == RulesFor(ontology, kind)
    IN  UNION {{[label |-> rules[i].target, phrase |-> e.phrase, at |-> e.at,
                 source |-> rules[i].name] : e \in Evidence(rules[i], words)} :
               i \in DOMAIN rules}

Anchors(words, ontology, kind) ==
    SeedAnchors(words, ontology, kind) \cup RuleAnchors(words, ontology, kind)

CueAt(words, kind) == UNION {Spans(words, ph) : ph \in Cues[kind]}
HasCue(segment, kind) == CueAt(segment.words, kind) # {}

PolarityAnchors(words) ==
    UNION {{[phrase |-> ph, at |-> p] : p \in Spans(words, ph)} : ph \in DOMAIN Polarity}

\* _cue_score
Negated(words, anchor) ==
    \E p \in CueAt(words, "negation") : anchor.at - p \in 0 .. NegationReach

CueScore(words, anchor) ==
    IF Negated(words, anchor) THEN -Polarity[anchor.phrase] ELSE Polarity[anchor.phrase]

\* _segment_polarity
SegmentScore(segment) ==
    MapThenSumSet(LAMBDA a : CueScore(segment.words, a), PolarityAnchors(segment.words))

Label(score) ==
    CASE score >= 35 -> "positive"
      [] score <= -35 -> "negative"
      [] score \in -14 .. 14 -> "neutral"
      [] OTHER -> "mixed"

MergedLabel(labels) ==
    CASE {"positive", "negative"} \subseteq labels \/ "mixed" \in labels -> "mixed"
      [] "positive" \in labels -> "positive"
      [] "negative" \in labels -> "negative"
      [] OTHER -> "neutral"

\* _uncertainty_flags, those that count as uncertain included: any flag does.
Uncertain(segment) ==
    \/ segment.question
    \/ segment.contrast
    \/ \E kind \in {"uncertainty", "hearsay", "comparison"} : HasCue(segment, kind)

\* The later cue wins.  A question mark ends a segment and is no cue in it.
EvidenceMode(segment) ==
    CASE HasCue(segment, "uncertainty")  -> "question_or_uncertainty"
      [] HasCue(segment, "hearsay")      -> "hearsay_or_rumor"
      [] HasCue(segment, "escalation")   -> "escalation_signal"
      [] HasCue(segment, "first person") -> "direct_complaint"
      [] OTHER                           -> "direct_observation"

-----------------------------------------------------------------------------
\* Entities a mention names, in the order of its facts.
Targets(m, entityFacts) ==
    At(entityFacts, {i \in DOMAIN entityFacts : /\ entityFacts[i].mention = m.id
                                                /\ entityFacts[i].entity # Unresolved})

BestTarget(m, entityFacts) ==
    IF Targets(m, entityFacts) = <<>> THEN NoTarget ELSE Targets(m, entityFacts)[1].entity

\* _aggregate_mention_sentiment
SentimentFact(m) ==
    LET segments == Segments(Words[m.text])
        total == MapThenSumSet(SegmentScore, segments)
    IN  [mention   |-> m.id,
         sentiment |-> MergedLabel({Label(SegmentScore(s)) : s \in segments}),
         score     |-> IF total < 0 THEN -total ELSE total]

SentimentFacts(mentions) ==
    LET said == At(mentions, {i \in DOMAIN mentions : Words[mentions[i].text] # <<>>})
    IN  [i \in DOMAIN said |-> SentimentFact(said[i])]

\* _segment_target_sentiments, _merge_target_hypotheses: a segment with a
\* polarity cue judges the targets it names, and in a short text all.
TargetSentiments(m, entityFacts) ==
    LET targets == Range(Targets(m, entityFacts))
        judges(s, f) == /\ PolarityAnchors(s.words) # {}
                        /\ Says(s.words, f.surface) \/ Len(Words[m.text]) < ShortText
        pairs == {x \in Segments(Words[m.text]) \X targets : judges(x[1], x[2])}
        entities == {x[2].entity : x \in pairs}
        labels(e) == {Label(SegmentScore(x[1])) : x \in {y \in pairs : y[2].entity = e}}
    IN  {[mention |-> m.id, target |-> e, sentiment |-> MergedLabel(labels(e))] : e \in entities}

\* The issue hypotheses of the mention at a place, one for each anchor.
IssueHypotheses(place, m, entityFacts, ontology) ==
    {[place     |-> place,
      mention   |-> m.id,
      root      |-> m.root,
      issue     |-> x[2].label,
      target    |-> BestTarget(m, entityFacts),
      mode      |-> EvidenceMode(x[1]),
      uncertain |-> Uncertain(x[1]),
      evidence  |-> {x[2].phrase},
      anchor    |-> <<x[1].at, x[2].at, x[2].source>>] :
        x \in UNION {{s} \X Anchors(s.words, ontology, "ISSUE") : s \in Segments(Words[m.text])}}

\* _merge_aspect_hypotheses: an aspect of a mention, over its segments.
AspectHypothesis(place, m, target, aspect, found) ==
    [place     |-> place,
     mention   |-> m.id,
     root      |-> m.root,
     aspect    |-> aspect,
     target    |-> target,
     sentiment |-> MergedLabel({Label(SegmentScore(x[1])) : x \in found}),
     evidence  |-> {x[2].phrase : x \in found}]

AspectHypotheses(place, m, entityFacts, ontology) ==
    LET found == UNION {{s} \X Anchors(s.words, ontology, "ASPECT") :
                           s \in Segments(Words[m.text])}
    IN  {AspectHypothesis(place, m, BestTarget(m, entityFacts), aspect,
                          {x \in found : x[2].label = aspect}) :
            aspect \in {x[2].label : x \in found}}

-----------------------------------------------------------------------------
\* _token_jaccard of two evidences at least 0.52.
Similar(s, t) == 100 * Cardinality(s \cap t) >= 52 * Cardinality(s \cup t)

WordsOf(phrases) == UNION {Range(ph) : ph \in phrases}

\* _pairwise_token_jaccard; a large group counts equal evidence only.  A
\* hypothesis counts itself.
Echoes(h, group) ==
    IF Cardinality(group) > PairwiseMax
    THEN Cardinality({g \in group : g.evidence = h.evidence})
    ELSE Cardinality({g \in group : Similar(WordsOf(g.evidence), WordsOf(h.evidence))})

\* Mutant: threads are not told apart.
SameIssueAnywhere(h, hypotheses) ==
    {g \in hypotheses : g.issue = h.issue /\ g.target = h.target}

\* _apply_thread_corroboration: hypotheses on one issue of one target in a
\* thread, those of the same mention included.
SameIssue(h, hypotheses) ==
    {g \in hypotheses : g.root = h.root /\ g.issue = h.issue /\ g.target = h.target}

SameAspect(h, hypotheses) ==
    {g \in hypotheses : /\ g.root = h.root /\ g.aspect = h.aspect
                        /\ g.target = h.target /\ g.sentiment = h.sentiment}

\* _bump_issue_severity: every hypothesis comes in as "low", so none leaves
\* higher than "medium".
Severity(mode, echoes) ==
    IF mode \in {"question_or_uncertainty", "hearsay_or_rumor"} \/ echoes <= 1
    THEN "low" ELSE "medium"

\* issue_confidence_components, clamp_confidence
Confidence(h, echoes) ==
    LET sum == 44 + (IF h.target = NoTarget THEN 0 ELSE 12)
                  + (IF h.uncertain THEN -22
                     ELSE IF echoes > 1 THEN Min({16, 5 * (echoes - 1)}) ELSE 0)
                  + (IF h.mode = "escalation_signal" THEN 8 ELSE 0)
                  + (IF h.mode \in {"direct_complaint", "direct_observation"} THEN 6 ELSE 0)
    IN  Max({5, Min({99, sum})})

IssueFact(h, echoes) ==
    [place      |-> h.place,
     anchor     |-> h.anchor,
     mention    |-> h.mention,
     issue      |-> h.issue,
     target     |-> h.target,
     mode       |-> h.mode,
     echoes     |-> echoes,
     severity   |-> Severity(h.mode, echoes),
     confidence |-> Confidence(h, echoes)]

IssueFacts(mentions, entityFacts, ontology) ==
    LET hypotheses == UNION {IssueHypotheses(i, mentions[i], entityFacts, ontology) :
                                i \in DOMAIN mentions}
    IN  {IssueFact(h, Echoes(h, SameIssue(h, hypotheses))) : h \in hypotheses}

AspectFacts(mentions, entityFacts, ontology) ==
    LET hypotheses == UNION {AspectHypotheses(i, mentions[i], entityFacts, ontology) :
                                i \in DOMAIN mentions}
    IN  {[place     |-> h.place,
          mention   |-> h.mention,
          aspect    |-> h.aspect,
          target    |-> h.target,
          sentiment |-> h.sentiment,
          echoes    |-> Echoes(h, SameAspect(h, hypotheses))] :
            h \in hypotheses}
==============================================================================
