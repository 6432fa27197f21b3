------------------------------- MODULE Reports --------------------------------
(***************************************************************************)
(* ReportingUseCase.report (internal/reporting): the facts of a run, joined*)
(* on mention ids, become rows of entities, topics, issues, threads and    *)
(* authors, cards drawn from the first rows, and a digest.                 *)
(*                                                                         *)
(* Ratios and scores are in ten-thousandths, which is how the reports round*)
(* them.  Names, evidence, platforms and the copies of fields in the marts *)
(* and payloads are left out; where the reports break ties by name, any    *)
(* order will do here.                                                     *)
(***************************************************************************)
EXTENDS Enrichment, Normalization

CONSTANT TopRows   \* rows a report keeps
ASSUME ReportsAssumption == TopRows \in Nat \ {0}

Unit == 10000
Round(n, d) == (2 * n + d) \div (2 * d)
Ratio(n, d) == IF d <= 0 THEN 0 ELSE Round(Unit * n, d)

\* _growth_ratio
Growth(current, previous) ==
    IF previous <= 0 THEN Unit * Max({current, 0})
    ELSE Round(Unit * (current - previous), previous)

\* Rows by their two numbers, the highest first.
Above(r, s) == \/ r.by[1] > s.by[1]
               \/ r.by[1] = s.by[1] /\ r.by[2] > s.by[2]
Highest(rows) == CHOOSE r \in rows : \A s \in rows : ~Above(s, r)
Ranked(rows) ==
    LET below[n \in 0 .. Cardinality(rows)] ==
            LET rest == below[n - 1]
            IN  IF n = 0 THEN rows ELSE rest \ {Highest(rest)}
    IN  [n \in 1 .. Cardinality(rows) |-> Highest(below[n - 1])]
Leading(rows, n) == LET ranked == Ranked(rows)
                    IN  SubSeq(ranked, 1, Min({n, Len(ranked)}))

-----------------------------------------------------------------------------
\* posted_at as an ISO string: by the clock that wrote it, and a time without
\* a zone is a prefix of the same time with one.
IsoBefore(s, t) == \/ s.minute < t.minute
                   \/ s.minute = t.minute /\ s.zone = "naive" /\ t.zone = "aware"

\* _window_context
Halves(mentions) ==
    LET dated == SortSeq(SelectSeq(mentions, LAMBDA m : m.posted # NoTime),
                         LAMBDA m, n : IsoBefore(m.posted, n.posted))
        split == Len(dated) \div 2
    IN  IF Len(dated) < 2
        THEN [previous |-> {}, current |-> {}]
        ELSE [previous |-> Ids(SubSeq(dated, 1, split)),
              current  |-> Ids(SubSeq(dated, split + 1, Len(dated)))]

Delta(ids, halves) ==
    Cardinality(ids \cap halves.current) - Cardinality(ids \cap halves.previous)

\* _weighted_entity_counts, _weighted_topic_counts in raw mode: a left join
\* counts a mention once for each of its rows, and an empty half means all.
Weight(ids, mentions) == Len(SelectSeq(mentions, LAMBDA m : m.id \in ids))
InHalf(ids, half) == IF half = {} THEN ids ELSE ids \cap half

-----------------------------------------------------------------------------
ResolvedFacts(enrichment) ==
    LET es == enrichment.entities
    IN  At(es, {i \in DOMAIN es : es[i].entity # Unresolved})
MentionsOf(facts) == {f.mention : f \in facts}
EntityMentions(e, facts) == MentionsOf({f \in Range(facts) : f.entity = e})

SovRow(e, facts, volume, halves) ==
    LET ids == EntityMentions(e, facts)
        hits(within) == Cardinality({i \in DOMAIN facts : /\ facts[i].entity = e
                                                          /\ facts[i].mention \in within})
    IN  [entity   |-> e,
         mentions |-> Cardinality(ids),
         share    |-> Ratio(Cardinality(ids), volume),
         hits     |-> hits(ids),
         delta    |-> Delta(ids, halves),
         hitDelta |-> hits(halves.current) - hits(halves.previous),
         by       |-> <<Cardinality(ids), hits(ids)>>]

\* Mutant: facts are subtracted, not mentions.
UnresolvedByFacts(mentions, facts) == Max({0, Len(mentions) - Len(facts)})

\* Rows of mentions less distinct mentions that name an entity.
UnresolvedCount(mentions, facts) ==
    Max({0, Len(mentions) - Cardinality(MentionsOf(Range(facts)))})

SovReport(mentions, enrichment, halves) ==
    LET facts == ResolvedFacts(enrichment)
    IN  [rows       |-> Leading({SovRow(e, facts, Len(mentions), halves) :
                                    e \in {f.entity : f \in Range(facts)}}, TopRows),
         unresolved |-> UnresolvedCount(mentions, facts),
         nameless   |-> Cardinality(MentionsOf({f \in Range(enrichment.entities) :
                                                   f.entity = Unresolved}))]

\* A row of the buzz report: the mentions of its name, and all of its key.
BuzzRow(name, ids, ofKey, mentions, halves) ==
    LET weight(half) == Weight(InHalf(ofKey, half), mentions)
        growth == Growth(weight(halves.current), weight(halves.previous))
    IN  [name     |-> name,
         mentions |-> Cardinality(ids),
         delta    |-> Delta(ofKey, halves),
         growth   |-> growth,
         by       |-> <<weight({}) * (Unit + Max({growth, 0})), weight({})>>]

\* Topics are grouped by key and label, their counts looked up by key.  No
\* artifact is ever weak, noisy or held back, so no topic is suppressed.
BuzzReport(mentions, enrichment, halves) ==
    LET facts == ResolvedFacts(enrichment)
        topics == {f.topic : f \in enrichment.topics}
        under(t) == MentionsOf({f \in enrichment.topics : f.topic = t})
        keyed(k) == MentionsOf({f \in enrichment.topics : f.topic.key = k})
    IN  [entities |-> Leading({BuzzRow(e, EntityMentions(e, facts), EntityMentions(e, facts),
                                       mentions, halves) :
                                  e \in {f.entity : f \in Range(facts)}}, TopRows),
         topics   |-> Leading({BuzzRow(t, under(t), keyed(t.key), mentions, halves) :
                                  t \in topics}, TopRows)]

\* The artifacts have no column "emerging_topic".
EmergingTopics == <<>>

-----------------------------------------------------------------------------
\* severity_weight in twentieths, evidence_weight in twentieths.
SeverityWeight == [low |-> 12, medium |-> 20, high |-> 29, critical_like_proxy |-> 36]
EvidenceWeight == [direct_complaint |-> 20, direct_observation |-> 19,
                   comparison_based_critique |-> 16, question_or_uncertainty |-> 11,
                   hearsay_or_rumor |-> 9, escalation_signal |-> 23]

\* trust_multiplier, in 6000ths: .35 + .65 * (confidence + .55 + .5) / 3.
\* Issue facts carry no other confidence.
Trust(confidence) == 2100 + 13 * (Max({confidence, 25}) + 55 + 50)

\* _issue_pressure_proxy
Pressure(facts) ==
    Round(MapThenSumSet(LAMBDA f : SeverityWeight[f.severity] * EvidenceWeight[f.mode]
                                      * Trust(f.confidence), facts),
          (20 * 20 * 6000) \div Unit)

IssueRow(issue, facts, halves) ==
    LET of == {f \in facts : f.issue = issue}
    IN  [issue    |-> issue,
         facts    |-> Cardinality(of),
         mentions |-> Cardinality(MentionsOf(of)),
         pressure |-> Pressure(of),
         delta    |-> Delta(MentionsOf(of), halves),
         by       |-> <<Pressure(of), Cardinality(MentionsOf(of))>>]

TopIssues(enrichment, halves) ==
    Leading({IssueRow(i, enrichment.issues, halves) : i \in {f.issue : f \in enrichment.issues}},
            TopRows)

\* Sentiments and issues come to a thread through each row of their mention.
ThreadRow(root, summary, mentions, enrichment) ==
    LET places == {i \in DOMAIN mentions : mentions[i].root = root}
        felt(kind) == Cardinality(
            {x \in (DOMAIN enrichment.sentiments) \X places :
                /\ enrichment.sentiments[x[1]].mention = mentions[x[2]].id
                /\ enrichment.sentiments[x[1]].sentiment = kind})
        issues == {x \in enrichment.issues \X places : x[1].mention = mentions[x[2]].id}
        replies == Ratio(summary.replies, Max({summary.comments, 1}))
        recursion == Ratio(summary.deepest, Max({summary.total, 1}))
        mixed == Ratio(Min({felt("positive"), felt("negative")}),
                       Max({felt("positive") + felt("negative"), 1}))
        authors == Ratio(Cardinality({mentions[i].author : i \in places}), summary.total)
        diversity == Ratio(Cardinality({x[1].issue : x \in issues}),
                           Max({Cardinality(issues), 1}))
        score == Min({Unit, Round(28 * replies + 24 * recursion + 24 * mixed
                                     + 14 * authors + 10 * diversity, 100)})
    IN  [root  |-> root,
         total |-> summary.total,
         score |-> score,
         by    |-> <<score, summary.total>>]

Controversy(mentions, threads, enrichment) ==
    Leading({ThreadRow(root, threads[root].summary, mentions, enrichment) :
                root \in DOMAIN threads}, TopRows)

-----------------------------------------------------------------------------
\* _top_values: of pairs of a label and what bears it.
TopValues(pairs) ==
    LET row(label) == [label |-> label,
                       by    |-> <<Cardinality({p \in pairs : p[1] = label}), 0>>]
        top == Leading({row(p[1]) : p \in pairs}, 3)
    IN  [k \in DOMAIN top |-> top[k].label]

ElevatedControversy == 3500

\* Creators, and the authors of mentions at depth 0.
CreatorRow(author, mentions, enrichment, threads) ==
    LET own == {m \in Range(mentions) : m.author = author}
        ids == {m.id : m \in own}
        elevated == {t.root : t \in {x \in Range(threads) : x.score >= ElevatedControversy}}
        size == Len(SelectSeq(mentions, LAMBDA m : m.author = author))
    IN  [creator  |-> author,
         mentions |-> size,
         topics   |-> TopValues({<<f.topic.key, f>> :
                                    f \in {x \in enrichment.topics : x.mention \in ids}}),
         issues   |-> TopValues({<<f.issue, f>> :
                                    f \in {x \in enrichment.issues : x.mention \in ids}}),
         threads  |-> Cardinality({m.root : m \in own} \cap elevated),
         by       |-> <<size, 0>>]

InitiatorRow(author, roots) ==
    LET size == Len(SelectSeq(roots, LAMBDA m : m.author = author))
    IN  [creator |-> author, threads |-> size, by |-> <<size, 0>>]

Breakdown(mentions, enrichment, threads) ==
    LET roots == SelectSeq(mentions, LAMBDA m : m.depth = 0)
    IN  [creators   |-> Leading({CreatorRow(a, mentions, enrichment, threads) :
                                    a \in {m.author : m \in Range(mentions)}}, TopRows),
         initiators |-> Leading({InitiatorRow(a, roots) :
                                    a \in {m.author : m \in Range(roots)}}, TopRows)]

\* _build_insight_card_bundle: cards about the first row of each report.
Cards(sov, buzz, issues, threads, breakdown) ==
    LET cards(kinds, rows) == IF rows = <<>> THEN <<>> ELSE kinds
        shifts == SelectSeq(SubSeq(sov.rows, 1, Min({1, Len(sov.rows)})),
                            LAMBDA r : r.delta # 0)
    IN  cards(<<"share_of_voice_shift">>, shifts)
          \o cards(<<"trending_topic", "conversation_hotspot">>, buzz.topics)
          \o cards(<<"emerging_topic">>, EmergingTopics)
          \o cards(<<"issue_warning">>, issues)
          \o cards(<<"controversy_alert">>, threads)
          \o cards(<<"creator_concentration">>, breakdown.creators)

\* build_layer1_payload
Digest(sov, buzz, issues) ==
    LET sum[n \in 0 .. Len(sov.rows)] ==
            IF n = 0 THEN sov.unresolved ELSE sum[n - 1] + sov.rows[n].mentions
    IN  [volume   |-> sum[Len(sov.rows)],
         entities |-> sov.rows,
         topics   |-> buzz.topics,
         issues   |-> issues]

\* build_mart_bundle, build_report_bundle, and a payload for each card.
Reported(sov, buzz, issues, rows, breakdown) ==
    [sov       |-> sov,
     buzz      |-> buzz,
     issues    |-> issues,
     threads   |-> rows,
     breakdown |-> breakdown,
     cards     |-> Cards(sov, buzz, issues, rows, breakdown),
     digest    |-> Digest(sov, buzz, issues)]

Report(mentions, threads, enrichment) ==
    LET halves == Halves(mentions)
        rows == Controversy(mentions, threads, enrichment)
    IN  Reported(SovReport(mentions, enrichment, halves), BuzzReport(mentions, enrichment, halves),
                 TopIssues(enrichment, halves), rows, Breakdown(mentions, enrichment, rows))
===============================================================================
