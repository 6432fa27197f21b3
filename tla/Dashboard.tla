------------------------------ MODULE Dashboard ------------------------------
(***************************************************************************)
(* What the dashboard's endpoints answer (internal/http/                   *)
(* analytics_service.py): counts and sums over analysis.post_insight, the  *)
(* materialized view latest_post_insight, or the rollup tables kpi_daily,  *)
(* posts_recent_top and metrics_daily, which are filled by statements that *)
(* each see the posts of their own moment (migration/015).                 *)
(*                                                                         *)
(* A row is a content as a crawl target found it and the consumer last     *)
(* analysed it; post_insight is a sequence in the order of updated_at.     *)
(* Rollup tables are kept as the rows they were computed from, and grouped *)
(* when they are read.  Time is in half days, so that a moment and its     *)
(* date differ; averages are left as sums and counts.  The caches and the  *)
(* time limit before these queries are in PostsCache.                      *)
(***************************************************************************)
EXTENDS Integers, FiniteSetsExt, SequencesExt

CONSTANTS Targets,       \* crawl targets: [Target -> [project, kind]]
          Contents,      \* [Content -> [platform, words, type, dated, at, traceable]]
          Analyses,      \* what an analysis may say: [relevance, sentiment, engagement]
          PlatformMeta,  \* PLATFORM_META: the platforms always listed
          MinPrevious,   \* PLATFORM_CHANGE_MIN_PREVIOUS_MENTIONS
          Period, Quarter, Year, Month,  \* days in "30 days", "90 days", ...
          TopRows,       \* rows of a project in posts_recent_top
          KeywordsPerProject,
          MaxRows,       \* bound on the rows of post_insight
          MaxChanges,    \* bound on analyses
          Horizon        \* the clock stops here

ASSUME DashboardAssumption ==
    /\ Period \in Nat \ {0} /\ Month \in Nat \ {0}
    /\ {Quarter, Year, TopRows, MaxRows, MaxChanges, Horizon} \subseteq Nat
    /\ \A c \in DOMAIN Contents : Contents[c].at \in Int
    /\ \A a \in Analyses : a.relevance \in Int /\ a.engagement \in Int
    /\ "UNKNOWN" \notin PlatformMeta

VARIABLES useMart,  \* ANALYTICS_USE_LATEST_MART
          gate,     \* ANALYTICS_SOURCE_QUALITY_GATE
          reader,   \* what is read in this behaviour, see Readers
          posts,    \* analysis.post_insight
          mart,     \* analysis.latest_post_insight
          tables,   \* each project's rows of the rollup tables
          hidden,   \* analysis.hidden_crawl_targets
          refresh,  \* the refresh of a project that runs, if any
          behind,   \* projects whose posts changed since their refresh began
          heap,     \* a request for the heap
          now, changes

env == <<useMart, gate, reader>>

\* A behaviour looks at the rollup tables, at queries, at the heap, or at the
\* clock alone, and leaves the others' steps out.
Readers == {"rollups", "queries", "heap", "clock"}
dashboardVars == <<env, posts, mart, tables, hidden, refresh, behind, heap, now, changes>>

CrawledProjects == {Targets[t].project : t \in DOMAIN Targets}
Words == UNION {Contents[c].words : c \in DOMAIN Contents}
Labels == {"POSITIVE", "NEUTRAL", "NEGATIVE"}
Unknown == "UNKNOWN"             \* the platform of rows without one

ProjectOf(r) == Targets[r.target].project
Focused(r) == Targets[r.target].kind \in {"focused_page", "focused_profile"}
About(r) == Contents[r.content]
Dated(r) == About(r).dated

\* DISTINCT ON platform and source identity, by updated_at: of the rows at the
\* given places.
Latest(rows, places) ==
    {rows[i] : i \in {j \in places :
                        \A k \in places : k > j => rows[k].content # rows[j].content}}

Eligible(r) == r.relevance >= 30 \/ Focused(r)
MartOf(rows) == Latest(rows, {i \in DOMAIN rows : Eligible(rows[i])})

\* Mutant: the slice of a project has the threshold of the queries.
StricterSlice(p, rows) ==
    Latest(rows, {i \in DOMAIN rows :
        /\ ProjectOf(rows[i]) = p /\ Dated(rows[i])
        /\ rows[i].relevance >= 45 \/ Focused(rows[i])})

\* What each of the three statements of a project's refresh selects.
Slice(p, rows) ==
    Latest(rows, {i \in DOMAIN rows :
        ProjectOf(rows[i]) = p /\ Dated(rows[i]) /\ Eligible(rows[i])})

\* The newest ones, the more engaging first among those of one moment.
Newer(q, r) == \/ About(q).at > About(r).at
               \/ About(q).at = About(r).at /\ q.engagement > r.engagement
TopOf(rows) == {r \in rows : Cardinality({q \in rows : Newer(q, r)}) < TopRows}

NoTables == [kpi |-> {}, top |-> {}, metrics |-> {}]
NoRefresh == [project |-> {}, kpi |-> {}, top |-> {}, done |-> 0]
NoHeap == [at |-> "none", mentions |-> <<>>, keywords |-> <<>>, torn |-> FALSE]

DashboardInit ==
    /\ useMart \in BOOLEAN /\ gate \in BOOLEAN /\ reader \in Readers
    /\ useMart => gate               \* it is not looked at
    /\ reader \in {"heap", "clock"} => useMart  \* the heap always reads the mart
    /\ now \in 0 .. Horizon /\ (reader # "heap" => now = 0)
    /\ posts = <<>> /\ mart = {}
    /\ tables = [p \in CrawledProjects |-> NoTables]
    /\ hidden = {} /\ refresh = NoRefresh /\ behind = {}
    /\ heap = NoHeap /\ changes = 0

-----------------------------------------------------------------------------
\* The filters of a scope, which AnalyticsScope normalizes.
Scopes == [kind : {"all", "stalker", "keyword"}, words : SUBSET Words]
Unfiltered(scope) == scope.kind = "all" /\ scope.words = {}

Visible(r) == ~r.flushed /\ r.target \notin hidden

InScope(r, scope) ==
    /\ Visible(r)
    /\ CASE scope.kind = "stalker" -> Focused(r)
         [] scope.kind = "keyword" -> ~Focused(r)
         [] OTHER -> TRUE
    /\ scope.words = {} \/ scope.words \cap About(r).words # {}

\* Relevance and traceability, which queries for focused pages do not ask for.
Worthy(r, scope) ==
    \/ scope.kind = "stalker"
    \/ r.relevance >= 45 /\ (gate => Focused(r) \/ About(r).traceable)

\* A page of posts may ask for platforms, sentiments and types.
PostFilters ==
    [platform  : SUBSET {Contents[c].platform : c \in DOMAIN Contents},
     sentiment : SUBSET Labels,
     type      : SUBSET {Contents[c].type : c \in DOMAIN Contents}]
NoFilter == CHOOSE f \in PostFilters : \A g \in PostFilters :
                /\ g.platform \subseteq f.platform
                /\ g.sentiment \subseteq f.sentiment /\ g.type \subseteq f.type
Asked(r, f) == f # NoFilter => /\ About(r).platform \in f.platform
                               /\ r.sentiment \in f.sentiment
                               /\ About(r).type \in f.type

\* The second pass: of a content found by several projects, the most engaging.
MostEngaging(rows) ==
    {r \in rows : \A q \in rows : q.content = r.content => q.engagement <= r.engagement}

\* Mutant: the latest row is taken first, and then filtered.
FilterLast(S, scope, f) ==
    {r \in Latest(posts, DOMAIN posts) :
                           /\ ProjectOf(r) \in S /\ Worthy(r, scope)
                           /\ InScope(r, scope) /\ Asked(r, f)}

FilterFirst(S, scope, f) ==
    Latest(posts, {i \in DOMAIN posts :
        /\ ProjectOf(posts[i]) \in S /\ Worthy(posts[i], scope)
        /\ InScope(posts[i], scope) /\ Asked(posts[i], f)})

\* _base_cte and _posts_base_cte: rows of the projects S in a scope.
Base(S, scope, f) ==
    IF useMart
    THEN MostEngaging({r \in mart : ProjectOf(r) \in S /\ InScope(r, scope) /\ Asked(r, f)})
    ELSE FilterFirst(S, scope, f)

-----------------------------------------------------------------------------
\* Time.  Period number 0 is the current one, 1 the one before.
Date(t) == t \div 2
Day(r) == Date(About(r).at)

QueryPeriod(r, n) ==
    /\ Dated(r)
    /\ About(r).at >= now - 2 * Period * (n + 1)
    /\ n > 0 => About(r).at < now - 2 * Period * n

\* Mutant: the period before begins a day late.
KpiPeriodGap(r, n) ==
    IF n = 0 THEN Day(r) >= Date(now) - (Period - 1)
             ELSE Day(r) \in Date(now) - (2 * Period - 1) .. Date(now) - (Period + 1)

KpiPeriod(r, n) ==
    IF n = 0 THEN Day(r) >= Date(now) - (Period - 1)
             ELSE Day(r) \in Date(now) - (2 * Period - 1) .. Date(now) - Period

MetricsPeriod(r, n) ==
    /\ Day(r) >= Date(now) - Period * (n + 1)
    /\ n > 0 => Day(r) < Date(now) - Period * n

\* Queries count in moments, the rollup tables in days, each its own way.
Clocks == {"query", "kpi", "metrics"}
InPeriod(clock, r, n) == CASE clock = "query"   -> QueryPeriod(r, n)
                           [] clock = "kpi"     -> KpiPeriod(r, n)
                           [] clock = "metrics" -> MetricsPeriod(r, n)
InYear(clock, r) == IF clock = "query" THEN Dated(r) /\ About(r).at >= now - 2 * Year
                                       ELSE Day(r) >= Date(now) - Year
MonthOf(r) == Day(r) \div Month

-----------------------------------------------------------------------------
\* Aggregates.
Score(r) == CASE r.sentiment = "POSITIVE" -> 1 [] r.sentiment = "NEGATIVE" -> -1 [] OTHER -> 0

Totals(rows) ==
    [mentions   |-> Cardinality(rows),
     score      |-> MapThenSumSet(Score, rows),
     engagement |-> MapThenSumSet(LAMBDA r : r.engagement, rows)]

\* key: the group of each row.
GroupBy(key) == [k \in Range(key) |-> Totals({r \in DOMAIN key : key[r] = k})]

Change(clock, rows) ==
    LET of(n) == Totals({r \in rows : InPeriod(clock, r, n)})
    IN  [current |-> of(0), previous |-> of(1)]

\* is_reliable_platform_mentions_change
Reliable(change) ==
    ~ /\ change.current.mentions > change.previous.mentions
      /\ change.previous.mentions < MinPrevious

-----------------------------------------------------------------------------
\* The endpoints for the projects S of a campaign.  Unfiltered ones read the
\* rollup tables, unless these have no rows of S.
Kpi(S) == UNION {tables[p].kpi : p \in S}
Metrics(S) == UNION {tables[p].metrics : p \in S}
Top(S) == UNION {tables[p].top : p \in S}

KpisOf(clock, rows) ==
    [total  |-> Totals(rows),
     change |-> Change(clock, rows),
     months |-> GroupBy([r \in {q \in rows : InYear(clock, q)} |-> MonthOf(r)])]

KpisFromRollup(S) == KpisOf("kpi", Kpi(S))

Kpis(S, scope) ==
    IF Unfiltered(scope) /\ Kpi(S) # {}
    THEN KpisFromRollup(S)
    ELSE KpisOf("query", Base(S, scope, NoFilter))

PlatformsOf(clock, rows) ==
    LET on(f)  == {r \in rows : About(r).platform = f}
        seen   == {About(r).platform : r \in rows}
        change(f) == Change(clock, on(f))
    IN  [stats  |-> [f \in PlatformMeta \cup seen |->
                       [total    |-> Totals(on(f)),
                        change   |-> change(f),
                        reliable |-> Reliable(change(f)),
                        status   |-> IF f \in seen THEN "active" ELSE "inactive"]],
         series |-> [f \in PlatformMeta |->
                       GroupBy([r \in {q \in on(f) : InYear(clock, q)} |-> MonthOf(r)])]]

PlatformsFromRollup(S) == PlatformsOf("metrics", Metrics(S))

Platforms(S, scope) ==
    IF Unfiltered(scope) /\ Metrics(S) # {}
    THEN PlatformsFromRollup(S)
    ELSE PlatformsOf("query", {r \in Base(S, scope, NoFilter) : About(r).platform # Unknown})

\* rows counts for the donut; timed for the timeline.
SentimentOf(clock, rows, timed) ==
    [donut    |-> [l \in Labels |-> Cardinality({r \in rows : r.sentiment = l})],
     total    |-> Totals(rows),
     timeline |-> GroupBy([r \in {q \in timed : InYear(clock, q)} |->
                              <<MonthOf(r), About(r).platform>>])]

SentimentFromRollup(S) == SentimentOf("metrics", Metrics(S), Metrics(S))

Sentiment(S, scope) ==
    IF Unfiltered(scope) /\ Metrics(S) # {}
    THEN SentimentFromRollup(S)
    ELSE LET rows == Base(S, scope, NoFilter)
         IN  SentimentOf("query", rows, {r \in rows : About(r).platform # Unknown})

\* Sets of the n largest groups: where counts tie, any of them.
Largest(n, volumes) ==
    {K \in SUBSET DOMAIN volumes :
        /\ Cardinality(K) = IF Cardinality(DOMAIN volumes) < n
                            THEN Cardinality(DOMAIN volumes) ELSE n
        /\ \A k \in K, w \in DOMAIN volumes \ K :
              volumes[k].mentions >= volumes[w].mentions}

\* Keywords and heap read the mart as it is: no scope, no hidden targets.
Recent(S) ==
    {r \in mart : ProjectOf(r) \in S /\ Dated(r) /\ About(r).at >= now - 2 * Quarter}

KeywordVolumes(rows) ==
    [w \in UNION {About(r).words : r \in rows} |->
        Totals({r \in rows : w \in About(r).words})]

Keywords(S, limit) ==
    LET volumes == KeywordVolumes(Recent(S))
    IN  {[w \in K |-> [total  |-> volumes[w],
                       change |-> Change("query", {r \in Recent(S) : w \in About(r).words})]] :
            K \in Largest(limit, volumes)}

ProjectStats(S, scope) ==
    LET rows == {r \in Base(S, scope, NoFilter) : About(r).platform # Unknown}
        by   == GroupBy([r \in rows |-> ProjectOf(r)])
    IN  [p \in DOMAIN by |->
            [total     |-> by[p],
             platforms |-> {About(r).platform : r \in {q \in rows : ProjectOf(q) = p}}]]

\* The posts a page is cut from.  The rollup has no scope, but the projects'
\* own.
Posts(S, scope, f) ==
    IF Unfiltered(scope) /\ f = NoFilter /\ Top(S) # {}
    THEN MostEngaging(Top(S))
    ELSE Base(S, scope, f)

-----------------------------------------------------------------------------
\* Some places in their order: a set of one.
InOrder(places) == {order \in [1 .. Cardinality(places) -> places] :
                        \A m, n \in DOMAIN order : m < n => order[m] < order[n]}
RowsAt(order) == [n \in DOMAIN order |-> posts[order[n]]]

\* The consumer upserts the analysis a of content c, which target t found: the
\* project's row, or one more when two pods insert at once.
Analyse(t, c, a) ==
    LET row == [target |-> t, content |-> c, relevance |-> a.relevance,
                sentiment |-> a.sentiment, engagement |-> a.engagement, flushed |-> FALSE]
        own == {i \in DOMAIN posts : posts[i].content = c /\ ProjectOf(posts[i]) = ProjectOf(row)}
    IN  /\ changes < MaxChanges /\ reader # "clock"
        /\ changes' = changes + 1
        /\ \E before \in {DOMAIN posts \ own, DOMAIN posts} :
              /\ Cardinality(before) < MaxRows
              /\ \E order \in InOrder(before) : posts' = Append(RowsAt(order), row)
        /\ behind' = behind \cup {ProjectOf(row)}
        /\ UNCHANGED <<env, mart, tables, hidden, refresh, heap, now>>

\* hide_crawl_target: the target is hidden for good; its rows are marked, and
\* are the last to be updated.
Hide(t) ==
    LET mine == {i \in DOMAIN posts : posts[i].target = t /\ ~posts[i].flushed}
    IN  /\ t \notin hidden /\ reader \in {"rollups", "queries"}
        /\ hidden' = hidden \cup {t}
        /\ \E order \in InOrder(mine), others \in InOrder(DOMAIN posts \ mine) :
              posts' = RowsAt(others)
                         \o [n \in DOMAIN order |-> [posts[order[n]] EXCEPT !.flushed = TRUE]]
        /\ behind' = behind \cup {ProjectOf(posts[i]) : i \in mine}
        /\ UNCHANGED <<env, mart, tables, refresh, heap, now, changes>>

\* refresh_project_rollups: one statement per table, committed together.  (One
\* that finds no change is left out.)
BeginRefresh(p) ==
    /\ reader = "rollups" /\ refresh = NoRefresh /\ p \in behind
    /\ refresh' = [NoRefresh EXCEPT !.project = {p}, !.kpi = Slice(p, posts), !.done = 1]
    /\ behind' = behind \ {p}
    /\ UNCHANGED <<env, posts, mart, tables, hidden, heap, now, changes>>

FillTop ==
    /\ refresh.done = 1
    /\ \E p \in refresh.project :
          refresh' = [refresh EXCEPT !.top = TopOf(Slice(p, posts)), !.done = 2]
    /\ UNCHANGED <<env, posts, mart, tables, hidden, behind, heap, now, changes>>

CommitRefresh ==
    /\ refresh.done = 2
    /\ \E p \in refresh.project :
          tables' = [tables EXCEPT ![p] = [kpi |-> refresh.kpi, top |-> refresh.top,
                                           metrics |-> Slice(p, posts)]]
    /\ refresh' = NoRefresh
    /\ UNCHANGED <<env, posts, mart, hidden, behind, heap, now, changes>>

\* Somebody refreshes the materialized view: no loop of the service does.
\* (It is left out where nothing reads it, and comes last where the rollups are
\* compared with it.)
RefreshMart ==
    /\ useMart /\ (reader = "rollups" => behind = {} /\ refresh = NoRefresh)
    /\ mart' = MartOf(posts)
    /\ mart' # mart
    /\ heap' = [heap EXCEPT !.torn = @ \/ heap.at = "asked"]
    /\ UNCHANGED <<env, posts, tables, hidden, refresh, behind, now, changes>>

\* The heap: one query for the projects, one for their keywords.
AskHeap(S) ==
    /\ reader = "heap" /\ heap.at = "none"
    /\ heap' = [NoHeap EXCEPT !.at = "asked",
                              !.mentions = GroupBy([r \in Recent(S) |-> ProjectOf(r)])]
    /\ UNCHANGED <<env, posts, mart, tables, hidden, refresh, behind, now, changes>>

HeapRows(p) == Recent({p})

AnswerHeap ==
    LET volumes(p) == KeywordVolumes(HeapRows(p))
    IN  /\ heap.at = "asked"
        /\ \E kept \in [DOMAIN heap.mentions -> SUBSET Words] :
              /\ \A p \in DOMAIN kept : kept[p] \in Largest(KeywordsPerProject, volumes(p))
              /\ heap' = [heap EXCEPT
                    !.at = "answered",
                    !.keywords = [p \in DOMAIN kept |-> [w \in kept[p] |-> volumes(p)[w]]]]
        /\ UNCHANGED <<env, posts, mart, tables, hidden, refresh, behind, now, changes>>

\* The response is sent.
HeapSent == /\ heap.at = "answered"
            /\ heap' = NoHeap
            /\ UNCHANGED <<env, posts, mart, tables, hidden, refresh, behind, now, changes>>

Tick ==
    /\ reader = "clock" /\ now < Horizon
    /\ now' = now + 1
    /\ UNCHANGED <<env, posts, mart, tables, hidden, refresh, behind, heap, changes>>

DashboardNext ==
    \/ \E t \in DOMAIN Targets, c \in DOMAIN Contents, a \in Analyses : Analyse(t, c, a)
    \/ \E t \in DOMAIN Targets : Hide(t)
    \/ \E p \in CrawledProjects : BeginRefresh(p)
    \/ FillTop \/ CommitRefresh \/ RefreshMart
    \/ \E S \in SUBSET CrawledProjects \ {{}} : AskHeap(S)
    \/ AnswerHeap \/ HeapSent \/ Tick

DashboardSpec == DashboardInit /\ [][DashboardNext]_dashboardVars

-----------------------------------------------------------------------------
Everything == [kind |-> "all", words |-> {}]
Everyone == SUBSET CrawledProjects
Settled(S) == behind \cap S = {} /\ refresh.project \cap S = {}

(* Once a refresh has seen a project's posts unchanged, its three tables   *)
(* count the same posts, though each was computed by a statement with a    *)
(* view of its own.  [migration/015_per_project_refresh.sql]               *)
TablesAgree ==
    \A S \in Everyone : Settled(S) =>
        /\ Totals(Kpi(S)) = Totals(Metrics(S))
        /\ Top(S) \subseteq Kpi(S)
        /\ \A r \in Kpi(S) \ Top(S) : \E p \in S : Cardinality(tables[p].top) >= TopRows

\* Where rollup tables and queries may be compared: every post has a date and
\* is shown, no content is in two projects, and the queries ask no more of it.
Comparable(S) ==
    /\ Settled(S)
    /\ \A r, q \in Range(posts) :
          /\ Dated(r) /\ Visible(r)
          /\ r.content = q.content => ProjectOf(r) = ProjectOf(q)
    /\ IF useMart THEN mart = MartOf(posts)
                  ELSE \A r \in Range(posts) : Worthy(r, Everything)

(* The fast path of an endpoint, over rollup tables, answers what the      *)
(* query it stands for would: the same totals, platforms and sentiments,   *)
(* and the same posts while no project has more than the table holds.  So  *)
(* do the two queries of the heap, with no refresh between them: no        *)
(* keyword has more mentions than its project.                             *)
(* [_compute_kpis_from_rollup and the like, _base_cte, _compute_heap]      *)
AnswersAgree ==
    /\ TablesAgree
    /\ \A S \in Everyone : Comparable(S) =>
        LET rows == Base(S, Everything, NoFilter)
        IN  /\ Kpis(S, Everything).total = Totals(rows)
            /\ \A f \in PlatformMeta :
                  Platforms(S, Everything).stats[f].total
                      = Totals({r \in rows : About(r).platform = f})
            /\ Sentiment(S, Everything).donut
                  = [l \in Labels |-> Cardinality({r \in rows : r.sentiment = l})]
            /\ Top(S) # {} /\ (\A p \in S : Cardinality(tables[p].kpi) <= TopRows) =>
                  Posts(S, Everything, NoFilter) = rows
    /\ heap.at = "answered" /\ ~heap.torn =>
          \A p \in DOMAIN heap.keywords : \A w \in DOMAIN heap.keywords[p] :
              heap.keywords[p][w].mentions <= heap.mentions[p].mentions

(* Without the mart, a content stays on the dashboard as long as any of    *)
(* its rows may be shown: a flush, or a later analysis that is out of      *)
(* scope, hides no more than its own row.  [_base_cte: filters come before *)
(* DISTINCT ON]                                                            *)
FlushHidesOnlyItsRows ==
    ~useMart => \A S \in Everyone, scope \in Scopes :
        {r.content : r \in Base(S, scope, NoFilter)} =
            {r.content : r \in {q \in Range(posts) :
                ProjectOf(q) \in S /\ Worthy(q, scope) /\ InScope(q, scope)}}

\* What a step does to the two periods a post may be in.
ChangesPeriod ==
    \A c \in {d \in DOMAIN Contents : Contents[d].dated} :
        LET r == [content |-> c]
            moves(now0, now1, before0, before1) ==
                /\ ~(now1 /\ before1)
                /\ now0 /\ ~now1 => before1
                /\ before0 => ~now1
        IN  /\ moves(QueryPeriod(r, 0), QueryPeriod(r, 0)', QueryPeriod(r, 1), QueryPeriod(r, 1)')
            /\ moves(KpiPeriod(r, 0), KpiPeriod(r, 0)', KpiPeriod(r, 1), KpiPeriod(r, 1)')
            /\ moves(MetricsPeriod(r, 0), MetricsPeriod(r, 0)',
                     MetricsPeriod(r, 1), MetricsPeriod(r, 1)')

(* However an endpoint counts its periods, a post that leaves the current  *)
(* one is in the one before, and none is in both.  [analytics_service.py:  *)
(* content_created_at >= NOW() - INTERVAL, bucket_date BETWEEN ...]        *)
WindowsAdjacent == [][ChangesPeriod]_dashboardVars
==============================================================================
