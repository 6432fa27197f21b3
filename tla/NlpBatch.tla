------------------------------ MODULE NlpBatch -------------------------------
(***************************************************************************)
(* NLPBatchEnricher.enrich_batch (internal/analytics) with the sentiment   *)
(* stage it batches (internal/sentiment_analysis, pkg/phobert_onnx): three *)
(* passes over the records, and two calls of the model for all of them,    *)
(* whose answers are matched to records, aspects and keywords by position. *)
(*                                                                         *)
(* A record's fate is "raises" when what precedes the stages does for it,  *)
(* "unbuilt" when its fact cannot be built; see PostAnalysis for what the  *)
(* stages make of its post.  The model's answer for a text is the text.    *)
(***************************************************************************)
EXTENDS PostAnalysis, Normalization

CONSTANTS Blank,                \* a text of white space
          Opinions,             \* the label the model gives to each text
          Lost,                 \* <<text, word>>: the window is shorter than the word
          MaxKeywordsPerAspect  \* max_keywords_per_aspect

ASSUME NlpAssumption == MaxKeywordsPerAspect \in Nat /\ Range(Opinions) \subseteq Labels

Fates == {"fine", "raises", "unbuilt"}
Steps == {"overall", "windows", "batch"} \* calls that may raise for all records
Neutral == <<>>
Unset == <<"no", "sentiment", "given">>

\* First places of the distinct texts, blank ones left out.
Uniques(texts) ==
    At([i \in DOMAIN texts |-> i],
       {i \in DOMAIN texts : texts[i] # <<Blank>> /\ \A j \in 1 .. i - 1 : texts[j] # texts[i]})

\* Mutant: answers are given to the first places, not to those of their text.
PredictInOrder(texts) ==
    LET firsts == Uniques(texts)
    IN  [i \in DOMAIN texts |-> IF i <= Len(firsts) THEN texts[firsts[i]] ELSE Neutral]

\* predict_batch: one answer for each distinct text, given to all its places.
PredictBatch(texts) ==
    LET firsts  == Uniques(texts)
        answers == [n \in DOMAIN firsts |-> texts[firsts[n]]]
        place(text) == CHOOSE n \in DOMAIN firsts : texts[firsts[n]] = text
    IN  [i \in DOMAIN texts |->
            IF texts[i] = <<Blank>> THEN Neutral ELSE answers[place(texts[i])]]

\* limit_keywords_per_aspect: no repetition, at most so many per aspect.
Selected(kws) ==
    LET earlier(i) == {kws[j] : j \in {j \in DOMAIN kws : /\ j < i
                                                          /\ kws[j].aspect = kws[i].aspect}}
    IN  At(kws, {i \in DOMAIN kws : /\ kws[i] \notin earlier(i)
                                    /\ Cardinality(earlier(i)) < MaxKeywordsPerAspect})

\* The windows of an input: one per keyword for which the text has one.
WindowsOf(input) ==
    IF input.text = Blank THEN <<>>
    ELSE LET kws == Selected(input.keywords)
         IN  At([k \in DOMAIN kws |-> [aspect |-> kws[k].aspect,
                                       window |-> <<input.text, kws[k].word>>]],
                {k \in DOMAIN kws : <<input.text, kws[k].word>> \notin Lost})

\* How many windows the inputs before the i-th one have.
Before(inputs, i) == Cardinality(UNION {{j} \X DOMAIN WindowsOf(inputs[j]) : j \in 1 .. i - 1})

\* all_context_meta: the windows of all inputs, one input after the other.
Windows(inputs) ==
    LET of(n) == CHOOSE i \in DOMAIN inputs :
                     Before(inputs, i) < n /\ n <= Before(inputs, i + 1)
        entry(i, n) == [input |-> i, of |-> WindowsOf(inputs[i])[n - Before(inputs, i)]]
    IN  [n \in 1 .. Before(inputs, Len(inputs) + 1) |-> entry(of(n), n)]

AspectsOf(kws) == {kw.aspect : kw \in Range(kws)}

\* analyze_overall_batch: a call that raises makes every record neutral.
Overalls(inputs, failing) ==
    IF "overall" \in failing
    THEN [i \in DOMAIN inputs |-> Neutral]
    ELSE PredictBatch([i \in DOMAIN inputs |-> <<inputs[i].text>>])

\* The aspects of an input: its scores in order, none if no window was judged.
Aspects(inputs, meta, answers, i) ==
    LET kws == IF inputs[i].text = Blank THEN <<>> ELSE inputs[i].keywords
        scores(a) == At(answers, {n \in DOMAIN answers : /\ meta[n].input = i
                                                         /\ meta[n].of.aspect = a})
    IN  [a \in AspectsOf(kws) |-> scores(a)]

\* process_batch.  A call for the windows that raises leaves aspects neutral.
ProcessBatch(inputs, failing) ==
    LET overall == Overalls(inputs, failing)
        meta    == Windows(inputs)
        answers == IF "windows" \in failing THEN <<>>
                   ELSE PredictBatch([n \in DOMAIN meta |-> meta[n].of.window])
    IN  [i \in DOMAIN inputs |->
            [overall |-> overall[i], aspects |-> Aspects(inputs, meta, answers, i)]]

\* Places of the records whose sentiment is asked for.
SentimentPlaces(records) ==
    At([i \in DOMAIN records |-> i],
       {i \in DOMAIN records : records[i].fate # "raises" /\ ~Skips(records[i].post)})

SentimentInput(r) == [text |-> r.text, keywords |-> KeywordsOf(r.post, r.text)]

\* _apply_sentiment_result of an answer, calibrated; the default without one.
LabelOf(r, overall) ==
    IF overall = Unset THEN "NEUTRAL"
    ELSE Calibrated(IF overall = Neutral THEN "NEUTRAL" ELSE Opinions[overall[1]],
                    Full(r.post), PrimaryIntent(r.post))

\* Phase 3: sentiment, impact, relevance and the insight of a record.
InsightOf(r, sentiment) ==
    Insight(r.post, Verdict(r.post, r.type, LabelOf(r, sentiment.overall),
                            KeywordsOf(r.post, r.text), sentiment.aspects # <<>>))

FactOf(r, sentiment) ==
    [doc |-> r.doc, sentiment |-> sentiment, insight |-> InsightOf(r, sentiment)]

EnrichBatch(records, failing) ==
    LET places  == SentimentPlaces(records)
        outputs == ProcessBatch([k \in DOMAIN places |-> SentimentInput(records[places[k]])], failing)
        given(i) == IF i \in Range(places) /\ "batch" \notin failing
                    THEN outputs[CHOOSE k \in DOMAIN places : places[k] = i]
                    ELSE [overall |-> Unset, aspects |-> <<>>]
        built == At([i \in DOMAIN records |-> i], {i \in DOMAIN records : records[i].fate = "fine"})
    IN  [n \in DOMAIN built |-> FactOf(records[built[n]], given(built[n]))]
==============================================================================
