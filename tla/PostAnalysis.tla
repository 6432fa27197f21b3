----------------------------- MODULE PostAnalysis ----------------------------
(***************************************************************************)
(* What the stages make of one post, stage by stage                        *)
(* (internal/analytics/usecase/batch_enricher.py, text_preprocessing,      *)
(* intent_classification, the calibration of sentiment_analysis, builder,  *)
(* and the row of post_insight).  A stage that raises is logged, and its   *)
(* part of the result keeps its default.                                   *)
(*                                                                         *)
(* A post has its text as it came (raw) and as preprocessing leaves it     *)
(* (clean), see Relevance for what a text is, parts of context, counts,    *)
(* and the stages that raise for it (failing).                             *)
(***************************************************************************)
EXTENDS Relevance, Impact, KeywordExtraction

Stages == {"preprocessing", "intent", "keywords", "impact"}

\* Patterns of intents, advertisements, crises and moods.
Intentions == {"CRISIS", "SEEDING", "SPAM", "COMPLAINT", "LEAD", "SUPPORT"}
Cries == {"advertisement", "alarm", "upset", "happy", "trade"}

Texts ==
    {t \in [says : SUBSET TermKinds, traits : SUBSET (Traits \cup Intentions \cup Cries),
            length : Nat, words : Nat, distinct : Nat] :
        /\ t.distinct <= t.words /\ t.words <= t.length
        /\ t.length = 0 => t.says = {} /\ t.traits = {}
        /\ "cod" \in t.traits => "logistics" \in t.says}
Counts == [views : Nat, likes : Nat, comments : Nat, shares : Nat, followers : Nat,
           verified : BOOLEAN, platform : Platforms]
Posts == [raw : Texts, clean : Texts, context : SUBSET SUBSET TermKinds,
          counts : Counts, failing : SUBSET Stages]

-----------------------------------------------------------------------------
\* Stage 1.  detect_spam; raw text when preprocessing raises.
LooksSpam(t) == /\ t.length > 0
                /\ \/ t.length < 5
                   \/ 10 * t.distinct < 3 * t.words
                   \/ "advertisement" \in t.traits
Full(p) == IF "preprocessing" \in p.failing THEN p.raw ELSE p.clean
DetectedSpam(p) == "preprocessing" \notin p.failing /\ LooksSpam(p.clean)

\* Stage 2.  The first intent of the highest priority.
Priority(intent) == CASE intent = "CRISIS" -> 10 [] intent \in {"SEEDING", "SPAM"} -> 9
                      [] intent = "COMPLAINT" -> 7 [] intent = "LEAD" -> 5
                      [] intent = "SUPPORT" -> 4 [] OTHER -> 1
IntentOf(t) ==
    LET matched == t.traits \cap Intentions
        best == {i \in matched : \A j \in matched : Priority(j) <= Priority(i)}
    IN  IF matched = {} THEN "DISCUSSION"
        ELSE IF "SEEDING" \in best THEN "SEEDING" ELSE CHOOSE i \in best : TRUE
PrimaryIntent(p) == IF "intent" \in p.failing THEN "DISCUSSION" ELSE IntentOf(Full(p))
Unwanted == {"SPAM", "SEEDING"}
Skips(p) == PrimaryIntent(p) \in Unwanted

\* Stage 3, of the records that are not skipped.
KeywordsOf(p, text) ==
    IF Skips(p) \/ "keywords" \in p.failing \/ Full(p).length = 0
    THEN <<>> ELSE Extracted(text)

\* calibrate_overall_sentiment
Calibrated(label, t, intent) ==
    IF intent \in {"COMPLAINT", "CRISIS"} THEN "NEGATIVE"
    ELSE IF label # "NEGATIVE" /\ "upset" \in t.traits THEN "NEGATIVE"
    ELSE IF /\ label # "POSITIVE"
            /\ "happy" \in t.traits /\ "upset" \notin t.traits
            /\ intent \notin Unwanted \cup {"SUPPORT", "LEAD"}
         THEN "POSITIVE"
    ELSE IF intent \in Unwanted \cup {"SUPPORT", "LEAD"} THEN "NEUTRAL" ELSE label

\* Stage 5; a skipped post and one for which it raises keep the defaults.
Judged(p, label) ==
    IF Skips(p) \/ "impact" \in p.failing
    THEN [impact |-> 0, risk |-> "LOW", viral |-> FALSE, kol |-> FALSE]
    ELSE [impact |-> RawImpact(p.counts, label),
          risk   |-> RiskLevel(p.counts, label, "alarm" \in Full(p).traits),
          viral  |-> IsViral(p.counts, label),
          kol    |-> IsKol(p.counts)]

\* Text without a character is looked up in the record again.
Heard(p) == IF Full(p).length = 0 THEN p.raw ELSE Full(p)

RelevanceOf(p, type, verdict) ==
    BusinessRelevance(Heard(p), type, ContextSays(p.context),
                      Heard(p).length = 0 /\ p.context = {}, verdict)

-----------------------------------------------------------------------------
\* _build_rag, with impacts as in RawImpact.
MinImpact == 15000000
MinRelevance == 4500
AnalysisSignal(p, verdict) ==
    \/ verdict.aspects
    \/ verdict.intent \in ActionIntents
    \/ verdict.risk \in Risky
    \/ verdict.impact >= MinImpact
    \/ Len(verdict.keywords) >= 2
    \/ p.raw.says \cap {"brand", "logistics", "competitor"} # {}
    \/ "trade" \in p.raw.traits
ShouldIndex(p, verdict) ==
    /\ p.raw.length >= 20
    /\ verdict.intent \notin Unwanted
    /\ AnalysisSignal(p, verdict)
    /\ verdict.relevance >= MinRelevance

\* determine_priority, _build_business
Urgency(impact) == CASE impact >= 70000000 -> "HIGH"
                     [] impact < 70000000 /\ impact >= 40000000 -> "MEDIUM"
                     [] OTHER -> "LOW"
Alerts(risk) == risk \in {"HIGH", "CRITICAL"}

\* _content_quality_score, in ten-thousandths.
Quality(p, verdict) ==
    LET t == p.raw
        c == p.counts
        keywords == Min({350 * Len(verdict.keywords), 1800})
        engaged  == c.views + c.likes + c.comments + c.shares
        whole == 1200 + (3400 * Min({t.length, 180})) \div 180
                   + (1800 * t.distinct) \div t.words
                   + keywords + (IF verdict.aspects THEN 1600 ELSE 0)
                   + 240 * Min({Decades(engaged + 1), 5})
                   + (IF verdict.intent \in ActionIntents THEN 800 ELSE 0)
    IN  IF t.length = 0 THEN 0
        ELSE IF verdict.spam \/ verdict.intent \in Unwanted THEN 500
        ELSE IF t.words = 0 THEN 0
        ELSE Min({10000, IF t.length < 20 THEN (35 * whole) \div 100
                         ELSE IF t.length < 40 THEN (65 * whole) \div 100 ELSE whole})

\* transform_to_post_insight
RiskScore(risk) == CASE risk = "CRITICAL" -> 9 [] risk = "HIGH" -> 7
                     [] risk = "MEDIUM" -> 4 [] OTHER -> 1
Row(p, verdict) ==
    [spam      |-> verdict.spam \/ verdict.intent \in Unwanted,
     attention |-> Alerts(verdict.risk),
     riskScore |-> RiskScore(verdict.risk),
     relevance |-> verdict.relevance,
     quality   |-> Quality(p, verdict)]

\* _should_skip_insight: always the default domain's threshold, and its spam
\* pattern is looked for in an attribute the input does not have.
MinStoredRelevance == 3000
Stored(verdict) == verdict.relevance >= MinStoredRelevance

\* The result of a post, given what the model said of its text.
Verdict(p, type, label, keywords, aspects) ==
    LET judged == Judged(p, label)
        scored == [intent |-> PrimaryIntent(p), label |-> label, risk |-> judged.risk,
                   aspects |-> aspects]
    IN  [intent    |-> scored.intent,
         spam      |-> DetectedSpam(p),
         label     |-> label,
         keywords  |-> keywords,
         aspects   |-> aspects,
         impact    |-> judged.impact,
         risk      |-> judged.risk,
         viral     |-> judged.viral,
         kol       |-> judged.kol,
         relevance |-> RelevanceOf(p, type, scored)]

\* The insight message and the row that are built of a verdict.
Insight(p, verdict) ==
    [verdict |-> verdict,
     indexed |-> ShouldIndex(p, verdict),
     urgency |-> Urgency(verdict.impact),
     alert   |-> Alerts(verdict.risk),
     stored  |-> IF Stored(verdict) THEN <<Row(p, verdict)>> ELSE <<>>]
==============================================================================
