----------------------------- MODULE CrisisScore ------------------------------
(***************************************************************************)
(* assess_crisis (internal/crisis): three signals of a run's reports, the  *)
(* thresholds a project's configuration moves, and the level they add up   *)
(* to.  Pressures, scores and ratios are in ten-thousandths, rounded down. *)
(***************************************************************************)
EXTENDS Integers, FiniteSets, SequencesExt

\* volume: growth rules in order; spikes: percents of the NEGATIVE_SPIKE
\* rules in order; viral: min_comments of the VIRAL_NEGATIVE rules.  A trigger
\* that is off has no rules.
ConfigType(c) ==
    /\ \A r \in Range(c.volume) : r.level \in {"WARNING", "CRITICAL"} /\ r.growth \in Int
    /\ \A w \in Range(c.spikes) : w \in Int
    /\ \A n \in c.viral : n \in Int

NoConfig == [volume |-> <<>>, spikes |-> <<>>, viral |-> {}]

AtLeast(n, bound) == IF n < bound THEN bound ELSE n
AtMost(n, bound) == IF n > bound THEN bound ELSE n
Clamp(n, low, high) == AtMost(AtLeast(n, low), high)

\* _apply_issue_pressure_thresholds: the last rule of a level counts, but watch
\* is the lowest any warning rule makes it.
IssueRules(config, level) == SelectSeq(config.volume, LAMBDA r : r.level = level /\ r.growth > 0)
PressureOf(r) == AtLeast((r.growth * 2000) \div 3, 10000)

IssueThresholds(config) ==
    LET warnings == IssueRules(config, "WARNING")
        criticals == IssueRules(config, "CRITICAL")
    IN  [watch    |-> Min({50000} \cup {(45 * PressureOf(r)) \div 100 : r \in Range(warnings)}),
         warning  |-> IF warnings = <<>> THEN 120000 ELSE PressureOf(Last(warnings)),
         critical |-> IF criticals = <<>> THEN 250000 ELSE PressureOf(Last(criticals))]

\* Thresholds from a percentage, and from a number of comments.
SentimentFrom(percent) ==
    LET warning == Clamp(100 * percent, 500, 9500)
    IN  [watch    |-> (75 * warning) \div 100,
         warning  |-> warning,
         critical |-> AtMost((150 * warning) \div 100, 9800)]

ControversyFrom(comments) ==
    LET strictness == Clamp(comments, 120, 400)   \* in 200ths
        watch      == AtLeast((4500 * strictness) \div 200, 2500)
        warning    == AtLeast((6500 * strictness) \div 200, watch)
    IN  [watch    |-> watch,
         warning  |-> warning,
         critical |-> AtLeast(AtMost((8000 * strictness) \div 200, 9800), warning)]

\* _apply_sentiment_collapse_thresholds: the first rule with a percentage.
SentimentThresholds(config) ==
    LET rules == SelectSeq(config.spikes, LAMBDA w : w > 0)
    IN  IF rules = <<>>
        THEN [watch |-> 4000, warning |-> 6000, critical |-> 7500]
        ELSE SentimentFrom(Head(rules))

\* _apply_controversy_spike_thresholds: the strictest rule.
ControversyThresholds(config) ==
    IF config.viral = {}
    THEN [watch |-> 4500, warning |-> 6500, critical |-> 8000]
    ELSE ControversyFrom(Min(config.viral))

-----------------------------------------------------------------------------
\* _pressure_to_severity, _controversy_to_severity; no signal below watch.
Severity3(value, t, names) ==
    IF value < t.watch THEN "none"
    ELSE IF value >= t.critical THEN names[3]
    ELSE IF value >= t.warning THEN names[2]
    ELSE names[1]

Spikes == <<"medium", "high", "critical_like_proxy">>
Collapses == <<"low", "medium", "high">>   \* _neg_ratio_to_severity

\* SEVERITY_WEIGHT, in tenths.
Weights == [none |-> 0, low |-> 3, medium |-> 10, high |-> 18, critical_like_proxy |-> 25]

\* _composite_score, _crisis_level
Composite(s) == Weights[s.issue] + Weights[s.controversy] + Weights[s.sentiment]

CrisisLevel(s) ==
    IF s.issue = "critical_like_proxy" \/ s.controversy = "critical_like_proxy"
         \/ Composite(s) >= 50
    THEN "critical"
    ELSE IF Composite(s) >= 25 THEN "warning"
    ELSE IF Composite(s) >= 8 THEN "watch"
    ELSE "none"

\* What the scorer measures, with the lowest value where there is no row.
Measures(report) ==
    [pressure    |-> IF report.issues = <<>> THEN -1 ELSE report.issues[1].pressure,
     controversy |-> IF report.threads = <<>> THEN -1 ELSE report.threads[1].score,
     negative    |-> IF report.sov.rows = <<>> THEN -1
                     ELSE (10000 * Len(SelectSeq(report.sov.rows, LAMBDA r : r.delta < 0)))
                             \div Len(report.sov.rows)]

Signals(m, config) ==
    [issue       |-> Severity3(m.pressure, IssueThresholds(config), Spikes),
     controversy |-> Severity3(m.controversy, ControversyThresholds(config), Spikes),
     sentiment   |-> Severity3(m.negative, SentimentThresholds(config), Collapses)]

\* assess_crisis
Assess(report, config) ==
    LET signals == Signals(Measures(report), config)
    IN  [signals   |-> signals,
         level     |-> CrisisLevel(signals),
         composite |-> Composite(signals)]
===============================================================================
