------------------------------ MODULE PostsCache ------------------------------
(***************************************************************************)
(* The posts endpoint of analysis-api (internal/http/analytics_service.py) *)
(* behind its caches: the response cache (pages, windows and the campaign  *)
(* context share one dictionary), project_client's campaign cache, the     *)
(* negative cache of timed out scopes, and the semaphore before the        *)
(* database; next to it hide_crawl_target, which flushes a target's posts. *)
(*                                                                         *)
(* One campaign with one project, whose posts are those of one target.     *)
(* All that matters of a response is whether it shows them.  Time passes   *)
(* in ticks; an entry carries the ticks it has left.                       *)
(***************************************************************************)
EXTENDS Naturals, FiniteSets

CONSTANTS Clients,       \* each has one request at a time
          Pods,          \* analysis-api pods, with caches of their own
          Pages,         \* <<scope, page>>, page \in 1, 2, ...: scope "all" or another
          WindowPages,   \* pages up to this one lie in the posts window
          MaxEntries,    \* _response_cache_max_entries
          Concurrency,   \* _db_concurrency_guard
          PostsTtl, EmptyTtl, ContextTtl, ClientTtl, TimeoutTtl,
          QueryTimeout,  \* ticks a statement may run
          FetchTimeout,  \* ticks a call to project-srv may take
          MaxClock       \* the clock stops here

ASSUME PostsCacheAssumption ==
    /\ IsFiniteSet(Clients) /\ Pods # {}
    /\ IsFiniteSet(Pages) /\ Pages # {}
    /\ Pages \subseteq (STRING \ {"context"}) \X (Nat \ {0})
    /\ {PostsTtl, EmptyTtl, ContextTtl, ClientTtl, TimeoutTtl} \subseteq Nat \ {0}
    /\ {QueryTimeout, FetchTimeout, WindowPages, MaxClock} \subseteq Nat
    /\ MaxEntries \in Nat \ {0} /\ Concurrency \in Nat \ {0}

VARIABLES event,        \* which of "hide" and "remove" happens in this behaviour
          since,        \* ticks since it did
          campaign,     \* whether the project belongs to it, at project-srv
          hidden,       \* hidden_crawl_targets has the target
          hide,         \* where the call of hide_crawl_target is
          rollup,       \* posts_recent_top has the project's rows
          cache,        \* _response_cache of each pod
          projects,     \* _campaign_cache of each pod's project_client
          timedOut,     \* _timeout_cache of each pod: ticks left by scope
          req           \* each client's request

world == <<event, since, campaign, hidden, hide, rollup>>
vars == <<world, cache, projects, timedOut, req>>

Scopes == {page[1] : page \in Pages}
Window(scope) == <<scope, 0>>
Context == <<"context", 0>>
Keys == Pages \cup {Window(s) : s \in Scopes} \cup {Context}

None == [shows |-> FALSE, left |-> 0, kept |-> FALSE]
Entry(shows, ttl) == [shows |-> shows, left |-> ttl, kept |-> TRUE]

\* fresh: it began after hide_crawl_target had returned; wait: ticks that the
\* query or fetch it runs may still take.
NoRequest == [at |-> "answered", pod |-> CHOOSE p \in Pods : TRUE,
              page |-> CHOOSE page \in Pages : TRUE,
              fresh |-> FALSE, shows |-> FALSE, wait |-> 0]
Waiting == {"rollup_wait", "query_wait"}
Running == {"rollup", "query"}

Init ==
    /\ event \in {"hide", "remove"} /\ since = 0
    /\ campaign = TRUE /\ hidden = FALSE /\ hide = "no"
    /\ rollup \in BOOLEAN
    /\ cache = [p \in Pods |-> [k \in Keys |-> None]]
    /\ projects = [p \in Pods |-> None]
    /\ timedOut = [p \in Pods |-> [s \in Scopes |-> 0]]
    /\ req = [c \in Clients |-> NoRequest]

------------------------------------------------------------------------------
\* The response cache, as operators on one pod's dictionary d.
\* Mutant: _cache_get does not look at expires_at.
LiveForever(e) == e.kept

Live(e) == e.kept /\ e.left > 0

Size(d) == Cardinality({k \in Keys : d[k].kept})
Soonest(d) == {k \in Keys : d[k].kept /\ \A j \in Keys : d[j].kept => d[k].left <= d[j].left}

\* _prune_response_cache: the expired, then the one that expires first.
Pruned(d) ==
    LET live == [k \in Keys |-> IF Live(d[k]) THEN d[k] ELSE None]
    IN  IF Size(d) <= MaxEntries THEN {d}
        ELSE IF Size(live) <= MaxEntries THEN {live}
        ELSE {[live EXCEPT ![k] = None] : k \in Soonest(live)}

\* _cache_set, and _cache_get of a key that is not live.
Stored(d, k, shows, ttl) == Pruned([d EXCEPT ![k] = Entry(shows, ttl)])
Missed(d, k) == [d EXCEPT ![k] = None]

------------------------------------------------------------------------------
\* A request r of client c goes on, d being its pod's dictionary so far.
Unfiltered(page) == page[1] = "all"
InWindow(page) == page[2] <= WindowPages

Goes(c, r, where, d) ==
    /\ req' = [req EXCEPT ![c] = [r EXCEPT !.at = where]]
    /\ cache' = [cache EXCEPT ![r.pod] = d]

Answers(c, r, shows, d) == Goes(c, [r EXCEPT !.shows = shows], "answered", d)

\* From the window, if it is cached; else a query.
TryWindow(c, r, d) ==
    LET w == Window(r.page[1])
    IN  IF InWindow(r.page) /\ Live(d[w])
        THEN \E e \in Stored(d, r.page, d[w].shows, PostsTtl) : Answers(c, r, d[w].shows, e)
        ELSE Goes(c, r, "query_wait", IF InWindow(r.page) THEN Missed(d, w) ELSE d)

\* After build_context: member says whether the context has the project.
WithContext(c, r, member, d) ==
    IF ~member THEN \E e \in Stored(d, r.page, FALSE, EmptyTtl) : Answers(c, r, FALSE, e)
    ELSE IF Unfiltered(r.page) THEN Goes(c, r, "rollup_wait", d)
    ELSE TryWindow(c, r, d)

\* A request arrives: up to its first await.
Begin(c, p, page) ==
    LET r == [NoRequest EXCEPT !.pod = p, !.page = page, !.fresh = (hide = "done")]
        d == Missed(cache[p], page)
    IN  /\ req[c].at = "answered"
        /\ IF timedOut[p][page[1]] > 0 THEN Answers(c, r, FALSE, cache[p])
           ELSE IF Live(cache[p][page])
                THEN Answers(c, r, cache[p][page].shows, cache[p])
           ELSE IF Live(d[Context]) THEN WithContext(c, r, d[Context].shows, d)
           ELSE IF Live(projects[p])
                THEN \E e \in Stored(d, Context, projects[p].shows, ContextTtl) :
                        WithContext(c, r, projects[p].shows, e)
           ELSE Goes(c, [r EXCEPT !.shows = campaign, !.wait = FetchTimeout], "fetch",
                     Missed(d, Context))
        /\ UNCHANGED <<world, projects, timedOut>>

\* project-srv has answered: get_campaign_projects, then build_context.
Fetched(c) ==
    LET r == req[c]
    IN  /\ r.at = "fetch"
        /\ projects' = [projects EXCEPT ![r.pod] = Entry(r.shows, ClientTtl)]
        /\ \E e \in Stored(cache[r.pod], Context, r.shows, ContextTtl) :
              WithContext(c, [r EXCEPT !.shows = FALSE], r.shows, e)
        /\ UNCHANGED <<world, timedOut>>

HasSlot(p) == Cardinality({c \in Clients : req[c].pod = p /\ req[c].at \in Running}) < Concurrency

\* The semaphore lets it through and the statement takes its snapshot: the
\* rollup's rows are not filtered by hidden_crawl_targets, the query's are.
Run(c) ==
    LET r == req[c]
    IN  /\ r.at \in Waiting /\ HasSlot(r.pod)
        /\ req' = [req EXCEPT ![c] = [r EXCEPT
              !.at = IF r.at = "rollup_wait" THEN "rollup" ELSE "query",
              !.shows = IF r.at = "rollup_wait" THEN rollup ELSE ~hidden,
              !.wait = QueryTimeout]]
        /\ UNCHANGED <<world, cache, projects, timedOut>>

RollupDone(c) ==
    LET r == req[c]
        d == cache[r.pod]
    IN  /\ r.at = "rollup"
        /\ IF r.shows THEN \E e \in Stored(d, r.page, TRUE, PostsTtl) : Answers(c, r, TRUE, e)
           ELSE TryWindow(c, r, d)
        /\ UNCHANGED <<world, projects, timedOut>>

QueryDone(c) ==
    LET r == req[c]
        d == cache[r.pod]
    IN  /\ r.at = "query"
        /\ \E w \in IF InWindow(r.page) THEN Stored(d, Window(r.page[1]), r.shows, PostsTtl) ELSE {d} :
              \E e \in Stored(w, r.page, r.shows, PostsTtl) : Answers(c, r, r.shows, e)
        /\ UNCHANGED <<world, projects, timedOut>>

\* A statement or a fetch that fails otherwise than by statement_timeout.
Fails(c) ==
    /\ req[c].at \in Running \cup {"fetch"}
    /\ Answers(c, req[c], FALSE, cache[req[c].pod])
    /\ UNCHANGED <<world, projects, timedOut>>

\* _guarded: the scope is marked, so that later requests fail at once.
TimesOut(c) ==
    /\ req[c].at \in Running /\ req[c].wait = 0
    /\ Answers(c, req[c], FALSE, cache[req[c].pod])
    /\ timedOut' = [timedOut EXCEPT ![req[c].pod][req[c].page[1]] = TimeoutTtl]
    /\ UNCHANGED <<world, projects>>

------------------------------------------------------------------------------
\* hide_crawl_target: the commit, then (an await later) the pod's caches.
HideCommit ==
    /\ event = "hide" /\ hide = "no"
    /\ hide' = "committed" /\ hidden' = TRUE
    /\ UNCHANGED <<event, since, campaign, rollup, cache, projects, timedOut, req>>

\* Pods other than these may have served it, and cleared their own.
HideReturn ==
    /\ hide = "committed"
    /\ hide' = "done"
    /\ \/ \E p \in Pods : /\ cache' = [cache EXCEPT ![p] = [k \in Keys |-> None]]
                          /\ timedOut' = [timedOut EXCEPT ![p] = [s \in Scopes |-> 0]]
       \/ UNCHANGED <<cache, timedOut>>
    /\ UNCHANGED <<event, since, campaign, hidden, rollup, projects, req>>

\* The rollup loop fills posts_recent_top from post_insight.
RollupRefresh ==
    /\ ~rollup /\ rollup' = TRUE
    /\ UNCHANGED <<event, since, campaign, hidden, hide, cache, projects, timedOut, req>>

Remove ==
    /\ event = "remove" /\ campaign
    /\ campaign' = FALSE
    /\ UNCHANGED <<event, since, hidden, hide, rollup, cache, projects, timedOut, req>>

Less(n) == IF n > 0 THEN n - 1 ELSE 0
Aged(e) == [e EXCEPT !.left = Less(@)]
Happened == hidden \/ ~campaign

\* No time passes while a request could take a slot, or for a statement or a
\* fetch that has used its time up.
Tick ==
    /\ \A c \in Clients : req[c].at \in Waiting => ~HasSlot(req[c].pod)
    /\ \A c \in Clients : req[c].at \in Running \cup {"fetch"} => req[c].wait > 0
    /\ cache' = [p \in Pods |-> [k \in Keys |-> Aged(cache[p][k])]]
    /\ projects' = [p \in Pods |-> Aged(projects[p])]
    /\ timedOut' = [p \in Pods |-> [s \in Scopes |-> Less(timedOut[p][s])]]
    /\ req' = [c \in Clients |-> [req[c] EXCEPT !.wait = Less(@)]]
    /\ since' = IF Happened /\ since < MaxClock THEN since + 1 ELSE since
    /\ UNCHANGED <<event, campaign, hidden, hide, rollup>>

Progress(c) == Fetched(c) \/ Run(c) \/ RollupDone(c) \/ QueryDone(c) \/ Fails(c) \/ TimesOut(c)

Next ==
    \/ \E c \in Clients, p \in Pods, page \in Pages : Begin(c, p, page)
    \/ \E c \in Clients : Progress(c)
    \/ HideCommit \/ HideReturn \/ RollupRefresh \/ Remove \/ Tick

Spec == Init /\ [][Next]_vars

------------------------------------------------------------------------------
Max2(a, b) == IF a > b THEN a ELSE b
MaxTtl == Max2(Max2(PostsTtl, EmptyTtl), ContextTtl)
Entries(ttl) == [shows : BOOLEAN, left : 0 .. ttl, kept : BOOLEAN]

TypeOK ==
    /\ campaign \in BOOLEAN /\ hidden \in BOOLEAN /\ rollup \in BOOLEAN
    /\ hide \in {"no", "committed", "done"}
    /\ cache \in [Pods -> [Keys -> Entries(MaxTtl)]]
    /\ projects \in [Pods -> Entries(ClientTtl)]
    /\ timedOut \in [Pods -> [Scopes -> 0 .. TimeoutTtl]]
    /\ req \in [Clients ->
          [at : Waiting \cup Running \cup {"answered", "fetch"}, pod : Pods, page : Pages,
           fresh : BOOLEAN, shows : BOOLEAN, wait : 0 .. Max2(QueryTimeout, FetchTimeout)]]
    /\ event \in {"hide", "remove"} /\ since \in 0 .. MaxClock

\* What a pod could still show a client: a page or a window of it is live.
ShowsLater(k) == \E p \in Pods : Live(cache[p][k]) /\ cache[p][k].shows

\* The time the caches stacked on one another keep a project's posts after
\* it left the campaign: project_client, context, window and page, and what
\* is under way between them (each wait at the semaphore, for the rollup and
\* for the query, is at most the other clients' statements).
StackedTtl ==
    FetchTimeout + ClientTtl + ContextTtl
    + 2 * (QueryTimeout * Cardinality(Clients)) + 2 * PostsTtl

(* What the caches keep is bounded in number and in time: every entry and *)
(* every wait stays within its limit, and contexts, windows and pages      *)
(* never outgrow them together; however pods and stale windows feed each   *)
(* other, a flushed target is gone from filtered pages once a running      *)
(* query, a window and a page are over, and a project that left the        *)
(* campaign is gone after StackedTtl.                                      *)
(* [_cache_set, _prune_response_cache, get_posts]                          *)
CachesForget ==
    /\ TypeOK
    /\ \A p \in Pods : Size(cache[p]) <= MaxEntries
    /\ hidden /\ since >= QueryTimeout + 2 * PostsTtl =>
          \A k \in Keys \ {Context} : k[1] # "all" => ~ShowsLater(k)
    /\ ~campaign /\ since >= StackedTtl => \A k \in Keys : ~ShowsLater(k)
=============================================================================
