--------------------------- MODULE PostsCacheProofs ---------------------------
(***************************************************************************)
(* Proofs about PostsCache, for every number of clients, pods and pages    *)
(* and all times: what the caches keep of a target that was flushed, or of *)
(* a project that left its campaign, is bounded in time, however windows,  *)
(* contexts and pages are filled from one another.                         *)
(***************************************************************************)
EXTENDS PostsCache, FiniteSetTheorems, TLAPS

------------------------------------------------------------------------------
(***************************************************************************)
(* When things may show what was flushed or has left.                      *)
(***************************************************************************)

\* The last tick of a campaign context that still has the project.
ContextLimit == FetchTimeout + ClientTtl + ContextTtl

\* The last tick of a statement whose rows still show the posts: its own time,
\* and after a removal also the statements of all who may be before it.
StatementLimit ==
    IF event = "hide" THEN QueryTimeout
    ELSE ContextLimit + 2 * (QueryTimeout * Cardinality(Clients))

Limit(k) ==
    IF k = Context THEN ContextLimit
    ELSE StatementLimit + (IF k[2] = 0 THEN PostsTtl ELSE 2 * PostsTtl)

\* The rollup's rows are not filtered by hidden_crawl_targets.
Limited(k) == event = "remove" \/ (k # Context /\ k[1] # "all")

Timely(d) ==
    \A k \in Keys : (Limited(k) /\ Live(d[k]) /\ d[k].shows) => d[k].left + since <= Limit(k)

Dictionaries == [Keys -> Entries(MaxTtl)]
Sound(d) == d \in Dictionaries /\ Size(d) <= MaxEntries /\ Timely(d)

Places == Waiting \cup Running \cup {"answered", "fetch"}
Requests == [at : Places, pod : Pods, page : Pages, fresh : BOOLEAN, shows : BOOLEAN,
             wait : 0 .. Max2(QueryTimeout, FetchTimeout)]

\* A request's query or fetch ends in time.
Prompt(r) ==
    /\ r.at \in Running => r.wait <= QueryTimeout
    /\ r.at \in {"rollup_wait", "rollup"} => Unfiltered(r.page)
    /\ (event = "hide" /\ r.at = "query" /\ r.shows) => r.wait + since <= QueryTimeout
    /\ (event = "remove" /\ r.at = "fetch" /\ r.shows) => r.wait + since <= FetchTimeout

\* The ticks a request's statements may still take, now and after a wait.
Owed(r) ==
    IF r.at = "rollup_wait" THEN 2 * QueryTimeout
    ELSE IF r.at = "rollup" THEN r.wait + QueryTimeout
    ELSE IF r.at = "query_wait" THEN QueryTimeout
    ELSE IF r.at = "query" THEN r.wait
    ELSE 0

\* Together they are a number that every tick makes smaller.
Debts == {o \in Clients \X (1 .. 2 * QueryTimeout) : o[2] <= Owed(req[o[1]])}

Active == \E c \in Clients : req[c].at \in Waiting \cup Running

\* After a removal: as long as a request is active, its time is counted.
Patience == (event = "remove" /\ Active) => since + Cardinality(Debts) <= StatementLimit

OneEvent ==
    /\ event = "hide" => campaign
    /\ event = "remove" => ~ hidden
    /\ ~ Happened => since = 0

ProjectsTimely ==
    \A p \in Pods : (event = "remove" /\ Live(projects[p]) /\ projects[p].shows) =>
        projects[p].left + since <= FetchTimeout + ClientTtl

\* The inductive invariant.
Forgetting ==
    /\ TypeOK
    /\ OneEvent
    /\ \A p \in Pods : Sound(cache[p])
    /\ ProjectsTimely
    /\ \A c \in Clients : Prompt(req[c])
    /\ Patience

------------------------------------------------------------------------------
(***************************************************************************)
(* Keys, sizes and entries.                                                *)
(***************************************************************************)
LEMMA KeyKinds ==
  /\ \A page \in Pages : /\ page \in Keys /\ page # Context
                         /\ page[1] \in Scopes /\ page[2] \in Nat \ {0}
                         /\ page = <<page[1], page[2]>>
  /\ \A s \in Scopes : /\ Window(s) \in Keys /\ Window(s) # Context
                       /\ Window(s)[1] = s /\ Window(s)[2] = 0
  /\ Context \in Keys
<1>1. \A page \in Pages : page \in (STRING \ {"context"}) \X (Nat \ {0})
  BY PostsCacheAssumption
<1>2. \A page \in Pages : /\ page[1] # "context" /\ page[2] \in Nat \ {0}
                          /\ page = <<page[1], page[2]>>
  BY <1>1
<1>3. \A s \in Scopes : s # "context"
  BY <1>2 DEF Scopes
<1> QED
  BY <1>2, <1>3 DEF Keys, Scopes, Window, Context

(* There are finitely many keys of the cache.                              *)
LEMMA KeysAreFinite == IsFiniteSet(Keys)
<1> DEFINE f == [page \in Pages |-> page[1]]
           g == [s \in Scopes |-> Window(s)]
           W == {Window(s) : s \in Scopes}
<1>1. f \in Surjection(Pages, Scopes)
  BY DEF Surjection, Scopes
<1>2. IsFiniteSet(Scopes) /\ IsFiniteSet(Pages)
  BY <1>1, PostsCacheAssumption, FS_Surjection
<1>3. g \in Surjection(Scopes, W)
  BY DEF Surjection
<1>4. IsFiniteSet(W)
  <2> HIDE DEF W, g
  <2> QED
    BY <1>2, <1>3, FS_Surjection
<1>5. IsFiniteSet({Context})
  BY FS_Singleton
<1>6. IsFiniteSet(Pages \cup W)
  BY <1>2, <1>4, FS_Union
<1>7. IsFiniteSet((Pages \cup W) \cup {Context})
  <2> HIDE DEF W
  <2> QED
    BY <1>5, <1>6, FS_Union
<1> QED
  BY <1>7 DEF Keys

(* Times to live and timeouts are numbers within the clock's range.        *)
LEMMA TtlTypes ==
  /\ MaxTtl \in Nat /\ PostsTtl \in 1 .. MaxTtl /\ EmptyTtl \in 1 .. MaxTtl
  /\ ContextTtl \in 1 .. MaxTtl /\ ClientTtl \in Nat \ {0} /\ TimeoutTtl \in Nat \ {0}
  /\ QueryTimeout \in Nat /\ FetchTimeout \in Nat /\ MaxClock \in Nat
  /\ Max2(QueryTimeout, FetchTimeout) \in Nat
  /\ QueryTimeout <= Max2(QueryTimeout, FetchTimeout)
  /\ FetchTimeout <= Max2(QueryTimeout, FetchTimeout)
  /\ MaxEntries \in Nat \ {0} /\ Concurrency \in Nat \ {0}
  BY PostsCacheAssumption DEF MaxTtl, Max2

(* An entry made now lives as long as its time to live.                    *)
LEMMA EntryTypes ==
  ASSUME NEW shows \in BOOLEAN, NEW ttl \in 1 .. MaxTtl
  PROVE  /\ Entry(shows, ttl) \in Entries(MaxTtl)
         /\ Entry(shows, ttl).shows = shows /\ Entry(shows, ttl).left = ttl
         /\ Entry(shows, ttl).kept
         /\ None \in Entries(MaxTtl) /\ ~ None.kept /\ ~ Live(None)
  BY TtlTypes DEF Entry, Entries, None, Live

Kept(d) == {k \in Keys : d[k].kept}

(* A cache has finitely many entries.                                      *)
LEMMA KeptIsFinite ==
  ASSUME NEW d
  PROVE  IsFiniteSet(Kept(d)) /\ Size(d) = Cardinality(Kept(d)) /\ Size(d) \in Nat
<1>1. Kept(d) \subseteq Keys
  BY DEF Kept
<1>2. IsFiniteSet(Kept(d))
  BY <1>1, KeysAreFinite, FS_Subset
<1>3. Size(d) = Cardinality(Kept(d))
  BY DEF Size, Kept
<1> QED
  BY <1>2, <1>3, FS_CardinalityType

\* Fewer keys are kept: the dictionary is no larger.
LEMMA FewerKept ==
  ASSUME NEW d, NEW e, \A k \in Keys : e[k].kept => d[k].kept
  PROVE  Size(e) <= Size(d)
<1>1. Kept(e) \subseteq Kept(d)
  BY DEF Kept
<1> QED
  BY <1>1, KeptIsFinite, FS_Subset

------------------------------------------------------------------------------
(***************************************************************************)
(* _cache_set and _prune_response_cache.                                   *)
(***************************************************************************)
Single(d, e, k) ==
    \A j \in Keys : e[j] = (IF j = k THEN None ELSE d[j])

(* Dropping an entry makes the cache smaller by one.                       *)
LEMMA PruneOne ==
  ASSUME NEW d, NEW k \in Keys, d[k].kept, NEW e, Single(d, e, k)
  PROVE  Size(e) = Size(d) - 1
<1>1. Kept(e) = Kept(d) \ {k}
  BY DEF Kept, Single, None
<1>2. k \in Kept(d)
  BY DEF Kept
<1> QED
  BY <1>1, <1>2, KeptIsFinite, FS_RemoveElement

(* Storing an entry makes the cache larger by at most one.                 *)
LEMMA AddOne ==
  ASSUME NEW d \in Dictionaries, NEW k \in Keys, NEW x
  PROVE  Size([d EXCEPT ![k] = x]) <= Size(d) + 1
<1> DEFINE e == [d EXCEPT ![k] = x]
<1>1. \A j \in Keys \ {k} : e[j] = d[j]
  BY DEF Dictionaries
<1>2. Kept(e) \subseteq Kept(d) \cup {k}
  BY <1>1 DEF Kept
<1>3. IsFiniteSet(Kept(d) \cup {k}) /\ Cardinality(Kept(d) \cup {k}) <= Size(d) + 1
  <2>1. IsFiniteSet(Kept(d)) /\ Size(d) = Cardinality(Kept(d)) /\ Size(d) \in Nat
    BY KeptIsFinite
  <2>2. /\ IsFiniteSet(Kept(d) \cup {k})
        /\ Cardinality(Kept(d) \cup {k}) =
              IF k \in Kept(d) THEN Cardinality(Kept(d)) ELSE Cardinality(Kept(d)) + 1
    BY <2>1, FS_AddElement
  <2> QED
    BY <2>1, <2>2
<1>4. Cardinality(Kept(e)) <= Cardinality(Kept(d) \cup {k})
  BY <1>2, <1>3, FS_Subset
<1> QED
  <2>1. Size(e) = Cardinality(Kept(e)) /\ Size(e) \in Nat /\ Size(d) \in Nat
    BY KeptIsFinite
  <2>2. Cardinality(Kept(d) \cup {k}) \in Nat
    BY <1>3, FS_CardinalityType
  <2> QED
    BY <1>3, <1>4, <2>1, <2>2

\* What pruning returns: entries of d or nothing, few enough of them.
LEMMA PrunedEntries ==
  ASSUME NEW d \in Dictionaries, Size(d) <= MaxEntries + 1, NEW e \in Pruned(d)
  PROVE  /\ e \in Dictionaries /\ Size(e) <= MaxEntries
         /\ \A k \in Keys : e[k] = d[k] \/ e[k] = None
<1> DEFINE live == [k \in Keys |-> IF Live(d[k]) THEN d[k] ELSE None]
<1>1. None \in Entries(MaxTtl) /\ ~ None.kept
  BY TtlTypes DEF None, Entries
<1>2. live \in Dictionaries
  BY <1>1 DEF Dictionaries
<1>3. \A k \in Keys : live[k].kept => d[k].kept
  BY <1>1 DEF Live
<1>4. Size(live) <= Size(d)
  BY <1>3, FewerKept
<1>5. Size(d) \in Nat /\ Size(live) \in Nat /\ MaxEntries \in Nat
  BY KeptIsFinite, TtlTypes
<1>6. CASE Size(d) <= MaxEntries
  BY <1>6 DEF Pruned
<1>7. CASE ~ (Size(d) <= MaxEntries) /\ Size(live) <= MaxEntries
  <2>1. e = live
    BY <1>7 DEF Pruned
  <2> QED
    BY <2>1, <1>2, <1>7
<1>8. CASE ~ (Size(d) <= MaxEntries) /\ ~ (Size(live) <= MaxEntries)
  <2>1. PICK k \in Soonest(live) : e = [live EXCEPT ![k] = None]
    BY <1>8 DEF Pruned
  <2>2. k \in Keys /\ live[k].kept
    BY <2>1 DEF Soonest
  <2>3. e \in Dictionaries
    BY <2>1, <2>2, <1>1, <1>2 DEF Dictionaries
  <2>4. Single(live, e, k)
    BY <2>1 DEF Single
  <2>5. Size(e) = Size(live) - 1
    <3> HIDE DEF live
    <3> QED
      BY <2>2, <2>4, PruneOne
  <2>6. \A j \in Keys : e[j] = d[j] \/ e[j] = None
    BY <2>4 DEF Single
  <2> QED
    BY <2>3, <2>5, <2>6, <1>4, <1>5
<1> QED
  BY <1>6, <1>7, <1>8

(* A store prunes to the limit, and what it keeps shows in time.           *)
LEMMA StoredIsSound ==
  ASSUME since \in Nat,
         NEW d, Sound(d), NEW k \in Keys, NEW shows \in BOOLEAN, NEW ttl \in 1 .. MaxTtl,
         (Limited(k) /\ shows) => ttl + since <= Limit(k),
         NEW e \in Stored(d, k, shows, ttl)
  PROVE  Sound(e)
<1> DEFINE x == [d EXCEPT ![k] = Entry(shows, ttl)]
<1>1. d \in Dictionaries /\ Size(d) <= MaxEntries /\ Timely(d)
  BY DEF Sound
<1>2. x \in Dictionaries
  BY <1>1, EntryTypes DEF Dictionaries
<1>3. Size(x) <= MaxEntries + 1
  <2>1. Size(x) <= Size(d) + 1
    BY <1>1, AddOne
  <2>2. Size(x) \in Nat /\ Size(d) \in Nat /\ MaxEntries \in Nat
    BY KeptIsFinite, TtlTypes
  <2> QED
    BY <1>1, <2>1, <2>2
<1>4. e \in Pruned(x)
  BY DEF Stored
<1>5. /\ e \in Dictionaries /\ Size(e) <= MaxEntries
      /\ \A j \in Keys : e[j] = x[j] \/ e[j] = None
  <2> HIDE DEF x
  <2> QED
    BY <1>2, <1>3, <1>4, PrunedEntries
<1>6. \A j \in Keys : x[j] = IF j = k THEN Entry(shows, ttl) ELSE d[j]
  BY <1>1 DEF Dictionaries
<1>7. ~ Live(None)
  BY DEF None, Live
<1>8. ASSUME NEW j \in Keys, Limited(j), Live(e[j]), e[j].shows
      PROVE  e[j].left + since <= Limit(j)
  <2>1. e[j] = x[j]
    BY <1>5, <1>7, <1>8
  <2>2. CASE j = k
    BY <2>1, <2>2, <1>6, <1>8, EntryTypes
  <2>3. CASE j # k
    BY <2>1, <2>3, <1>1, <1>6, <1>8 DEF Timely
  <2> QED
    BY <2>2, <2>3
<1> QED
  BY <1>5, <1>8 DEF Sound, Timely

(* A lookup that drops what has expired leaves the rest as it was.         *)
LEMMA MissedIsSound ==
  ASSUME NEW d, Sound(d), NEW k \in Keys
  PROVE  Sound(Missed(d, k)) /\ \A j \in Keys \ {k} : Missed(d, k)[j] = d[j]
<1> DEFINE e == Missed(d, k)
<1>1. d \in Dictionaries /\ Size(d) <= MaxEntries /\ Timely(d)
  BY DEF Sound
<1>2. \A j \in Keys : e[j] = IF j = k THEN None ELSE d[j]
  BY <1>1 DEF Missed, Dictionaries
<1>3. None \in Entries(MaxTtl) /\ ~ None.kept /\ ~ Live(None)
  BY TtlTypes DEF None, Entries, Live
<1>4. e \in Dictionaries
  BY <1>1, <1>3 DEF Missed, Dictionaries
<1>5. Size(e) <= Size(d)
  BY <1>2, <1>3, FewerKept
<1>6. Timely(e)
  BY <1>1, <1>2, <1>3 DEF Timely
<1>7. Size(d) \in Nat /\ Size(e) \in Nat /\ MaxEntries \in Nat
  BY KeptIsFinite, TtlTypes
<1> QED
  BY <1>1, <1>2, <1>4, <1>5, <1>6, <1>7 DEF Sound

(* An empty cache is sound.                                                *)
LEMMA EmptiedIsSound == Sound([k \in Keys |-> None])
<1> DEFINE e == [k \in Keys |-> None]
<1>1. None \in Entries(MaxTtl) /\ ~ None.kept /\ ~ Live(None)
  BY TtlTypes DEF None, Entries, Live
<1>2. Kept(e) = {}
  BY <1>1 DEF Kept
<1>3. Size(e) = 0
  BY <1>2, KeptIsFinite, FS_EmptySet
<1>4. Timely(e)
  BY <1>1 DEF Timely
<1> QED
  BY <1>1, <1>3, <1>4, TtlTypes DEF Sound, Dictionaries

------------------------------------------------------------------------------
(***************************************************************************)
(* A request goes on: where it lands, its pod's dictionary stays sound.    *)
(***************************************************************************)
Lands(c, r, places) ==
    \E x \in Requests, e \in Dictionaries :
        /\ x.at \in places /\ x.pod = r.pod /\ x.page = r.page
        /\ x.at = "rollup_wait" => Unfiltered(r.page)
        /\ Sound(e)
        /\ req' = [req EXCEPT ![c] = x] /\ cache' = [cache EXCEPT ![r.pod] = e]

(* Where a request may land, it may land among more.                       *)
LEMMA LandsWider ==
  ASSUME NEW c, NEW r, NEW A, NEW B, A \subseteq B, Lands(c, r, A)
  PROVE  Lands(c, r, B)
  BY DEF Lands

(* A request that goes on to wait lands there.                             *)
LEMMA GoesLands ==
  ASSUME NEW c \in Clients, NEW r \in Requests, NEW d, Sound(d),
         NEW where \in Places, where = "rollup_wait" => Unfiltered(r.page),
         Goes(c, r, where, d)
  PROVE  Lands(c, r, {where})
<1> DEFINE x == [r EXCEPT !.at = where]
<1>1. x \in Requests
  BY DEF Requests
<1>2. x.at = where /\ x.pod = r.pod /\ x.page = r.page
  BY DEF Requests
<1>3. req' = [req EXCEPT ![c] = x] /\ cache' = [cache EXCEPT ![r.pod] = d]
  BY DEF Goes
<1>4. d \in Dictionaries
  BY DEF Sound
<1> HIDE DEF x
<1> QED
  BY <1>1, <1>2, <1>3, <1>4 DEF Lands

(* A request that is answered lands among the answered.                    *)
LEMMA AnswersLands ==
  ASSUME NEW c \in Clients, NEW r \in Requests, NEW d, Sound(d), NEW shows \in BOOLEAN,
         Answers(c, r, shows, d)
  PROVE  Lands(c, r, {"answered"})
<1> DEFINE x == [r EXCEPT !.shows = shows]
<1>1. x \in Requests /\ x.pod = r.pod /\ x.page = r.page
  BY DEF Requests
<1>2. Goes(c, x, "answered", d)
  BY DEF Answers
<1>3. Lands(c, x, {"answered"})
  <2> HIDE DEF x
  <2> QED
    BY <1>1, <1>2, GoesLands DEF Places
<1> HIDE DEF x
<1> QED
  BY <1>1, <1>3 DEF Lands

(* How late a statement may read is a number.                              *)
LEMMA StatementLimitType == StatementLimit \in Nat /\ Cardinality(Clients) \in Nat
<1>1. Cardinality(Clients) \in Nat
  BY PostsCacheAssumption, FS_CardinalityType
<1> QED
  BY <1>1, TtlTypes DEF StatementLimit, ContextLimit

\* A page may be stored from a statement, and from a window it feeds on.
LEMMA PageLimits ==
  ASSUME NEW page \in Pages
  PROVE  /\ Limit(page) = StatementLimit + 2 * PostsTtl
         /\ Limit(Window(page[1])) = StatementLimit + PostsTtl
         /\ Limited(page) <=> Limited(Window(page[1]))
         /\ Limited(Context) <=> event = "remove"
         /\ Limit(Context) = ContextLimit
         /\ Window(page[1]) \in Keys
<1>1. page # Context /\ page[2] # 0 /\ Window(page[1]) # Context
      /\ Window(page[1])[1] = page[1] /\ Window(page[1])[2] = 0
      /\ Window(page[1]) \in Keys
  BY KeyKinds
<1> QED
  BY <1>1 DEF Limit, Limited

(* A lookup of the window answers, or waits for the database.              *)
LEMMA TryWindowLands ==
  ASSUME since \in Nat, NEW c \in Clients, NEW r \in Requests, NEW d, Sound(d),
         TryWindow(c, r, d)
  PROVE  Lands(c, r, {"answered", "query_wait"})
<1> DEFINE w == Window(r.page[1])
<1>1. r.page \in Pages /\ r.page \in Keys /\ w \in Keys
  BY KeyKinds DEF Requests
<1>2. CASE InWindow(r.page) /\ Live(d[w])
  <2>1. d[w] \in Entries(MaxTtl) /\ Timely(d)
    BY <1>1 DEF Sound, Dictionaries
  <2>2. d[w].shows \in BOOLEAN /\ d[w].left \in Nat /\ d[w].left > 0
    BY <2>1, <1>2, TtlTypes DEF Entries, Live
  <2>3. PICK e \in Stored(d, r.page, d[w].shows, PostsTtl) : Answers(c, r, d[w].shows, e)
    BY <1>2 DEF TryWindow
  <2>4. (Limited(r.page) /\ d[w].shows) => PostsTtl + since <= Limit(r.page)
    <3> SUFFICES ASSUME Limited(r.page), d[w].shows PROVE PostsTtl + since <= Limit(r.page)
      OBVIOUS
    <3>1. d[w].left + since <= Limit(w)
      BY <1>1, <1>2, <2>1, PageLimits DEF Timely
    <3>2. Limit(w) = StatementLimit + PostsTtl /\ Limit(r.page) = StatementLimit + 2 * PostsTtl
      BY <1>1, PageLimits
    <3> QED
      BY <2>2, <3>1, <3>2, StatementLimitType, TtlTypes
  <2>5. Sound(e)
    <3>1. PostsTtl \in 1 .. MaxTtl
      BY TtlTypes
    <3> HIDE DEF w
    <3> QED
      BY <1>1, <2>2, <2>3, <2>4, <3>1, StoredIsSound
  <2>6. Lands(c, r, {"answered"})
    BY <2>2, <2>3, <2>5, AnswersLands
  <2> QED
    BY <2>6, LandsWider
<1>3. CASE ~ (InWindow(r.page) /\ Live(d[w]))
  <2>1. PICK e \in {d, Missed(d, w)} : Goes(c, r, "query_wait", e)
    BY <1>3 DEF TryWindow
  <2>2. Sound(e)
    <3>1. Sound(Missed(d, w))
      <4> HIDE DEF w
      <4> QED
        BY <1>1, MissedIsSound
    <3> QED
      BY <2>1, <3>1
  <2>3. Lands(c, r, {"query_wait"})
    BY <2>1, <2>2, GoesLands DEF Places, Waiting
  <2> QED
    BY <2>3, LandsWider
<1> QED
  BY <1>2, <1>3

(* A request with its context answers, or waits for what the cache lacks.  *)
LEMMA WithContextLands ==
  ASSUME since \in Nat, NEW c \in Clients, NEW r \in Requests, NEW d, Sound(d),
         NEW member \in BOOLEAN, WithContext(c, r, member, d)
  PROVE  /\ Lands(c, r, {"answered", "rollup_wait", "query_wait"})
         /\ ~ member => Lands(c, r, {"answered"})
<1>1. r.page \in Pages /\ r.page \in Keys
  BY KeyKinds DEF Requests
<1>2. CASE ~ member
  <2>1. PICK e \in Stored(d, r.page, FALSE, EmptyTtl) : Answers(c, r, FALSE, e)
    BY <1>2 DEF WithContext
  <2>2. EmptyTtl \in 1 .. MaxTtl
    BY TtlTypes
  <2>3. Sound(e)
    BY <1>1, <2>1, <2>2, StoredIsSound
  <2>4. Lands(c, r, {"answered"})
    BY <2>1, <2>3, AnswersLands
  <2>6. Lands(c, r, {"answered", "rollup_wait", "query_wait"})
    BY <2>4 DEF Lands
  <2> QED
    BY <2>4, <2>6
<1>3. CASE member /\ Unfiltered(r.page)
  <2>1. Goes(c, r, "rollup_wait", d)
    BY <1>3 DEF WithContext
  <2>2. Lands(c, r, {"rollup_wait"})
    BY <1>3, <2>1, GoesLands DEF Places, Waiting
  <2>4. Lands(c, r, {"answered", "rollup_wait", "query_wait"})
    BY <2>2 DEF Lands
  <2> QED
    BY <1>3, <2>4
<1>4. CASE member /\ ~ Unfiltered(r.page)
  <2>1. TryWindow(c, r, d)
    BY <1>4 DEF WithContext
  <2>2. Lands(c, r, {"answered", "query_wait"})
    BY <2>1, TryWindowLands
  <2>4. Lands(c, r, {"answered", "rollup_wait", "query_wait"})
    BY <2>2 DEF Lands
  <2> QED
    BY <1>4, <2>4
<1> QED
  BY <1>2, <1>3, <1>4

------------------------------------------------------------------------------
(***************************************************************************)
(* The time owed to statements.                                            *)
(***************************************************************************)
AllDebts == Clients \X (1 .. 2 * QueryTimeout)

(* Clients can owe finitely many ticks.                                    *)
LEMMA DebtsBounded ==
  /\ IsFiniteSet(AllDebts)
  /\ Cardinality(AllDebts) = 2 * (QueryTimeout * Cardinality(Clients))
<1>1. 2 * QueryTimeout \in Nat /\ 1 \in Int /\ 2 * QueryTimeout \in Int
  BY TtlTypes
<1>2. /\ IsFiniteSet(1 .. 2 * QueryTimeout)
      /\ Cardinality(1 .. 2 * QueryTimeout) =
            IF 1 > 2 * QueryTimeout THEN 0 ELSE 2 * QueryTimeout - 1 + 1
  BY <1>1, FS_Interval
<1>3. Cardinality(1 .. 2 * QueryTimeout) = 2 * QueryTimeout
  BY <1>1, <1>2
<1>4. /\ IsFiniteSet(AllDebts)
      /\ Cardinality(AllDebts) = Cardinality(Clients) * Cardinality(1 .. 2 * QueryTimeout)
  BY <1>2, PostsCacheAssumption, FS_Product DEF AllDebts
<1>5. \A n, q \in Nat : n * (2 * q) = 2 * (q * n)
  OBVIOUS
<1> QED
  BY <1>3, <1>4, <1>5, StatementLimitType, TtlTypes

(* What clients owe is finite and bounded.                                 *)
LEMMA DebtsFinite ==
  /\ IsFiniteSet(Debts) /\ Cardinality(Debts) \in Nat
  /\ Cardinality(Debts) <= 2 * (QueryTimeout * Cardinality(Clients))
<1>1. Debts \subseteq AllDebts
  BY DEF Debts, AllDebts
<1>2. IsFiniteSet(Debts) /\ Cardinality(Debts) <= Cardinality(AllDebts)
  BY <1>1, DebtsBounded, FS_Subset
<1> QED
  BY <1>2, DebtsBounded, FS_CardinalityType

\* The same for the next state.
LEMMA DebtsFiniteNext ==
  /\ IsFiniteSet(Debts') /\ Cardinality(Debts') \in Nat
  /\ Cardinality(Debts') <= 2 * (QueryTimeout * Cardinality(Clients))
<1>1. Debts' \subseteq AllDebts
  BY DEF Debts, AllDebts
<1>2. IsFiniteSet(Debts') /\ Cardinality(Debts') <= Cardinality(AllDebts)
  BY <1>1, DebtsBounded, FS_Subset
<1> QED
  BY <1>2, DebtsBounded, FS_CardinalityType

(* What a request owes is a number.                                        *)
LEMMA OwedType ==
  ASSUME NEW r \in Requests
  PROVE  r.wait \in Nat /\ Owed(r) \in Nat
<1>1. r.wait \in 0 .. Max2(QueryTimeout, FetchTimeout)
  BY DEF Requests
<1>2. r.wait \in Nat
  BY <1>1, TtlTypes
<1>3. Owed(r) \in {2 * QueryTimeout, r.wait + QueryTimeout, QueryTimeout, r.wait, 0}
  BY DEF Owed
<1>4. 2 * QueryTimeout \in Nat /\ r.wait + QueryTimeout \in Nat /\ QueryTimeout \in Nat
  BY <1>2, TtlTypes
<1> QED
  BY <1>2, <1>3, <1>4

Busy(r) == r.at \in Waiting \cup Running

(* A request that moves on never owes more.                                *)
LEMMA OwesLess ==
  ASSUME NEW x \in Requests, NEW r \in Requests,
         x.at = "answered" \/ (r.at = "rollup" /\ x.at = "query_wait")
  PROVE  Owed(x) <= Owed(r) /\ (Busy(x) => Busy(r))
<1>1. r.wait \in Nat /\ Owed(r) \in Nat
  BY OwedType
<1>2. CASE x.at = "answered"
  <2>1. Owed(x) = 0
    BY <1>2 DEF Owed
  <2>2. ~ Busy(x)
    BY <1>2 DEF Busy, Waiting, Running
  <2>3. Owed(x) <= Owed(r)
    BY <1>1, <2>1
  <2> QED
    BY <2>2, <2>3
<1>3. CASE r.at = "rollup" /\ x.at = "query_wait"
  <2>1. Owed(x) = QueryTimeout
    BY <1>3 DEF Owed
  <2>2. Owed(r) = r.wait + QueryTimeout
    BY <1>3 DEF Owed
  <2>3. Busy(r)
    BY <1>3 DEF Busy, Running
  <2>4. Owed(x) <= Owed(r)
    BY <1>1, <2>1, <2>2, TtlTypes
  <2> QED
    BY <2>3, <2>4
<1> QED
  BY <1>2, <1>3

\* A request that owes no more than before, or starts early enough.
LEMMA PatienceKept ==
  ASSUME TypeOK, Patience, NEW c \in Clients, NEW x \in Requests,
         req' = [req EXCEPT ![c] = x], UNCHANGED <<since, event>>,
         \/ event = "remove" => since <= ContextLimit
         \/ Owed(x) <= Owed(req[c]) /\ (Busy(x) => Busy(req[c]))
  PROVE  Patience'
<1> SUFFICES ASSUME event = "remove", Active'
             PROVE  since + Cardinality(Debts') <= StatementLimit
  BY DEF Patience, StatementLimit
<1>1. StatementLimit = ContextLimit + 2 * (QueryTimeout * Cardinality(Clients))
  BY DEF StatementLimit
<1>2. since \in Nat /\ ContextLimit \in Nat /\ 2 * (QueryTimeout * Cardinality(Clients)) \in Nat
  <2>1. 2 * (QueryTimeout * Cardinality(Clients)) \in Nat
    BY DebtsBounded, FS_CardinalityType
  <2> QED
    BY <2>1, TtlTypes DEF TypeOK, ContextLimit
<1>3. CASE since <= ContextLimit
  BY <1>1, <1>2, <1>3, DebtsFiniteNext
<1>4. CASE Owed(x) <= Owed(req[c]) /\ (Busy(x) => Busy(req[c]))
  <2>1. req \in [Clients -> Requests]
    BY DEF TypeOK, Requests, Places
  <2>2. \A b \in Clients : req'[b] = IF b = c THEN x ELSE req[b]
    BY <2>1
  <2>3. Active
    BY <1>4, <2>2 DEF Active, Busy
  <2>4. \A b \in Clients : Owed(req'[b]) \in Nat /\ Owed(req[b]) \in Nat
    <3>1. \A b \in Clients : req'[b] \in Requests /\ req[b] \in Requests
      BY <2>1, <2>2
    <3> QED
      BY <3>1, OwedType
  <2>5. ASSUME NEW b \in Clients PROVE Owed(req'[b]) <= Owed(req[b])
    <3>1. CASE b = c
      BY <3>1, <1>4, <2>2
    <3>2. CASE b # c
      BY <3>2, <2>2, <2>4
    <3> QED
      BY <3>1, <3>2
  <2>6. Debts' \subseteq Debts
    <3> SUFFICES ASSUME NEW o \in Clients \X (1 .. 2 * QueryTimeout), o[2] <= Owed(req'[o[1]])
                 PROVE  o[2] <= Owed(req[o[1]])
      BY DEF Debts, Owed
    <3>1. o[1] \in Clients /\ o[2] \in Nat
      BY TtlTypes
    <3> QED
      BY <3>1, <2>4, <2>5
  <2>7. Cardinality(Debts') <= Cardinality(Debts)
    BY <2>6, DebtsFinite, FS_Subset
  <2>8. since + Cardinality(Debts) <= StatementLimit
    BY <2>3 DEF Patience
  <2> QED
    BY <2>7, <2>8, <1>2, DebtsFinite, DebtsFiniteNext, StatementLimitType
<1> QED
  BY <1>3, <1>4

------------------------------------------------------------------------------
(***************************************************************************)
(* The steps of a request.                                                 *)
(***************************************************************************)
Paths == {"answered", "rollup_wait", "query_wait"}

\* One request changes, and one pod's dictionary: the rest is as before.
LEMMA RequestMoves ==
  ASSUME Forgetting, UNCHANGED world, NEW c \in Clients, NEW x \in Requests,
         NEW e, Sound(e), NEW pod \in Pods,
         req' = [req EXCEPT ![c] = x], cache' = [cache EXCEPT ![pod] = e],
         projects' \in [Pods -> Entries(ClientTtl)], ProjectsTimely',
         timedOut' \in [Pods -> [Scopes -> 0 .. TimeoutTtl]],
         Prompt(x),
         \/ event = "remove" => since <= ContextLimit
         \/ Owed(x) <= Owed(req[c]) /\ (Busy(x) => Busy(req[c]))
  PROVE  Forgetting'
<1>a. /\ TypeOK /\ OneEvent /\ Patience /\ req \in [Clients -> Requests]
      /\ cache \in [Pods -> Dictionaries] /\ e \in Dictionaries
      /\ \A p \in Pods : Sound(cache[p])
      /\ \A b \in Clients : Prompt(req[b])
  BY DEF Forgetting, TypeOK, Requests, Places, Dictionaries, Sound
<1>1. req' \in [Clients -> Requests] /\ \A b \in Clients : req'[b] = IF b = c THEN x ELSE req[b]
  BY <1>a
<1>2. /\ cache' \in [Pods -> Dictionaries]
      /\ \A p \in Pods : cache'[p] = IF p = pod THEN e ELSE cache[p]
  BY <1>a
<1>3. TypeOK'
  BY <1>a, <1>1, <1>2 DEF TypeOK, world, Requests, Places, Dictionaries
<1>4. OneEvent'
  BY <1>a DEF OneEvent, world, Happened
<1>5. \A p \in Pods : Sound(cache'[p])
  BY <1>a, <1>2
<1>6. \A p \in Pods : Sound(cache[p])'
  BY <1>5 DEF Sound, Timely, Limited, Limit, StatementLimit, world
<1>7. \A b \in Clients : Prompt(req'[b])
  BY <1>1, <1>a
<1>8. \A b \in Clients : Prompt(req[b])'
  BY <1>7 DEF Prompt, world
<1>9. UNCHANGED <<since, event>>
  BY DEF world
<1>10. Patience'
  BY <1>a, <1>9, PatienceKept
<1> QED
  BY <1>3, <1>4, <1>6, <1>8, <1>10 DEF Forgetting

\* A request lands: it owes nothing more, or it was in time.
LEMMA LandingKeeps ==
  ASSUME Forgetting, UNCHANGED world, NEW c \in Clients, NEW r \in Requests,
         Lands(c, r, Paths),
         projects' \in [Pods -> Entries(ClientTtl)], ProjectsTimely',
         timedOut' \in [Pods -> [Scopes -> 0 .. TimeoutTtl]],
         \/ event = "remove" => since <= ContextLimit
         \/ Lands(c, r, {"answered"})
         \/ req[c].at = "rollup" /\ Lands(c, r, {"answered", "query_wait"})
  PROVE  Forgetting'
<1>1. PICK x \in Requests, e \in Dictionaries :
         /\ x.at \in Paths
         /\ x.at = "rollup_wait" => Unfiltered(x.page)
         /\ Sound(e)
         /\ req' = [req EXCEPT ![c] = x] /\ cache' = [cache EXCEPT ![r.pod] = e]
         /\ \/ event = "remove" => since <= ContextLimit
            \/ x.at = "answered"
            \/ req[c].at = "rollup" /\ x.at \in {"answered", "query_wait"}
  <2>1. CASE event = "remove" => since <= ContextLimit
    BY <2>1 DEF Lands
  <2>2. CASE Lands(c, r, {"answered"})
    BY <2>2 DEF Lands, Paths
  <2>3. CASE req[c].at = "rollup" /\ Lands(c, r, {"answered", "query_wait"})
    BY <2>3 DEF Lands, Paths
  <2> QED
    BY <2>1, <2>2, <2>3
<1>2. Prompt(x)
  BY <1>1 DEF Prompt, Paths, Running
<1>3. r.pod \in Pods /\ req[c] \in Requests
  BY DEF Requests, Forgetting, TypeOK, Places
<1>4. \/ event = "remove" => since <= ContextLimit
      \/ Owed(x) <= Owed(req[c]) /\ (Busy(x) => Busy(req[c]))
  <2>1. CASE event = "remove" => since <= ContextLimit
    BY <2>1
  <2>2. CASE x.at = "answered" \/ (req[c].at = "rollup" /\ x.at = "query_wait")
    BY <2>2, <1>3, OwesLess
  <2> QED
    BY <2>1, <2>2, <1>1
<1> QED
  BY <1>1, <1>2, <1>3, <1>4, RequestMoves

(* Without a fetch, what the client remembers of the campaign stays.       *)
LEMMA ProjectsKept ==
  ASSUME Forgetting, UNCHANGED <<world, projects>>
  PROVE  projects' \in [Pods -> Entries(ClientTtl)] /\ ProjectsTimely'
  BY DEF Forgetting, TypeOK, ProjectsTimely, world

\* A live context or campaign that has the project tells how late it is.
LEMMA ContextTells ==
  ASSUME Forgetting, NEW p \in Pods
  PROVE  /\ (event = "remove" /\ Live(cache[p][Context]) /\ cache[p][Context].shows)
               => since <= ContextLimit
         /\ cache[p][Context].shows \in BOOLEAN
         /\ (event = "remove" /\ Live(projects[p]) /\ projects[p].shows)
               => since <= FetchTimeout + ClientTtl /\ ContextTtl + since <= ContextLimit
         /\ projects[p].shows \in BOOLEAN
<1>1. Context \in Keys /\ since \in Nat /\ cache[p] \in Dictionaries /\ Timely(cache[p])
      /\ projects[p] \in Entries(ClientTtl) /\ ProjectsTimely
  BY KeyKinds DEF Forgetting, TypeOK, Sound
<1>2. cache[p][Context] \in Entries(MaxTtl)
  BY <1>1 DEF Dictionaries
<1>3. cache[p][Context].left \in Nat /\ cache[p][Context].shows \in BOOLEAN
  BY <1>2, TtlTypes DEF Entries
<1>4. projects[p].left \in Nat /\ projects[p].shows \in BOOLEAN
  BY <1>1, TtlTypes DEF Entries
<1>5. ContextLimit \in Nat /\ ContextLimit = FetchTimeout + ClientTtl + ContextTtl
  BY TtlTypes DEF ContextLimit
<1>6. ASSUME event = "remove", Live(cache[p][Context]), cache[p][Context].shows
      PROVE  since <= ContextLimit
  <2>1. cache[p][Context].left + since <= ContextLimit
    BY <1>1, <1>6 DEF Timely, Limited, Limit
  <2> QED
    BY <2>1, <1>1, <1>3, <1>5
<1>7. ASSUME event = "remove", Live(projects[p]), projects[p].shows
      PROVE  since <= FetchTimeout + ClientTtl /\ ContextTtl + since <= ContextLimit
  <2>1. projects[p].left + since <= FetchTimeout + ClientTtl
    BY <1>1, <1>7 DEF ProjectsTimely
  <2>2. FetchTimeout \in Nat /\ ClientTtl \in Nat /\ ContextTtl \in Nat
    BY TtlTypes
  <2>3. since <= FetchTimeout + ClientTtl
    BY <2>1, <2>2, <1>1, <1>4
  <2> QED
    BY <2>2, <2>3, <1>1, <1>5
<1> QED
  BY <1>3, <1>4, <1>6, <1>7

(* A request that begins keeps the invariant.                              *)
LEMMA BeginStep ==
  ASSUME Forgetting, NEW c \in Clients, NEW p \in Pods, NEW page \in Pages, Begin(c, p, page)
  PROVE  Forgetting'
<1> DEFINE r == [NoRequest EXCEPT !.pod = p, !.page = page, !.fresh = (hide = "done")]
           d == Missed(cache[p], page)
<1>a. /\ TypeOK /\ OneEvent /\ since \in Nat /\ Sound(cache[p]) /\ cache[p] \in Dictionaries
      /\ UNCHANGED <<world, projects, timedOut>> /\ page \in Keys /\ Context \in Keys
      /\ page # Context
  BY KeyKinds DEF Forgetting, TypeOK, Begin, Sound
<1>1. r \in Requests /\ r.pod = p /\ r.page = page
  <2>1. Pods # {} /\ Pages # {}
    OBVIOUS
  <2>2. 0 \in 0 .. Max2(QueryTimeout, FetchTimeout)
    BY TtlTypes
  <2> QED
    BY <2>1, <2>2 DEF NoRequest, Requests, Places
<1>2. Sound(d) /\ d[Context] = cache[p][Context]
  BY <1>a, MissedIsSound
<1>3. /\ projects' \in [Pods -> Entries(ClientTtl)] /\ ProjectsTimely'
      /\ timedOut' \in [Pods -> [Scopes -> 0 .. TimeoutTtl]]
  BY <1>a, ProjectsKept DEF TypeOK
<1>4. UNCHANGED world
  BY <1>a
<1>5. ASSUME Lands(c, r, {"answered"}) PROVE Forgetting'
  <2>1. Lands(c, r, Paths)
    BY <1>5 DEF Lands, Paths
  <2> HIDE DEF r
  <2> QED
    BY <1>1, <1>3, <1>4, <1>5, <2>1, LandingKeeps
<1>6. ASSUME NEW member \in BOOLEAN, NEW e, Sound(e), WithContext(c, r, member, e),
             (event = "remove" /\ member) => since <= ContextLimit
      PROVE  Forgetting'
  <2> HIDE DEF r
  <2>1. Lands(c, r, Paths) /\ (~ member => Lands(c, r, {"answered"}))
    BY <1>a, <1>1, <1>6, WithContextLands DEF Paths
  <2>2. CASE event = "remove" => since <= ContextLimit
    BY <1>1, <1>3, <1>4, <2>1, <2>2, LandingKeeps
  <2>3. CASE ~ (event = "remove" => since <= ContextLimit)
    <3>1. Lands(c, r, {"answered"})
      BY <1>6, <2>1, <2>3
    <3> QED
      BY <1>1, <1>3, <1>4, <2>1, <3>1, LandingKeeps
  <2> QED
    BY <2>2, <2>3
<1>7. CASE timedOut[p][page[1]] > 0
  <2>1. Answers(c, r, FALSE, cache[p])
    BY <1>7 DEF Begin
  <2> HIDE DEF r
  <2> QED
    BY <2>1, <1>1, <1>5, <1>a, AnswersLands
<1>8. CASE ~ (timedOut[p][page[1]] > 0) /\ Live(cache[p][page])
  <2>1. Answers(c, r, cache[p][page].shows, cache[p])
    BY <1>8 DEF Begin
  <2>2. cache[p][page].shows \in BOOLEAN
    BY <1>a DEF Dictionaries, Entries
  <2> HIDE DEF r
  <2> QED
    BY <2>1, <2>2, <1>1, <1>5, <1>a, AnswersLands
<1>9. CASE ~ (timedOut[p][page[1]] > 0) /\ ~ Live(cache[p][page]) /\ Live(d[Context])
  <2>1. WithContext(c, r, d[Context].shows, d)
    BY <1>9 DEF Begin
  <2>2. /\ d[Context].shows \in BOOLEAN
        /\ (event = "remove" /\ d[Context].shows) => since <= ContextLimit
    BY <1>2, <1>9, ContextTells
  <2> HIDE DEF r, d
  <2> QED
    BY <2>1, <2>2, <1>2, <1>6
<1>10. CASE ~ (timedOut[p][page[1]] > 0) /\ ~ Live(cache[p][page]) /\ ~ Live(d[Context])
            /\ Live(projects[p])
  <2>1. PICK e \in Stored(d, Context, projects[p].shows, ContextTtl) :
              WithContext(c, r, projects[p].shows, e)
    BY <1>10 DEF Begin
  <2>2. /\ projects[p].shows \in BOOLEAN
        /\ (event = "remove" /\ projects[p].shows)
              => since <= FetchTimeout + ClientTtl /\ ContextTtl + since <= ContextLimit
    BY <1>10, ContextTells
  <2>3. (Limited(Context) /\ projects[p].shows) => ContextTtl + since <= Limit(Context)
    BY <2>2 DEF Limited, Limit
  <2>4. ContextTtl \in 1 .. MaxTtl /\ ContextTtl \in Nat /\ ContextLimit \in Nat
    BY TtlTypes DEF ContextLimit
  <2>5. Sound(e)
    <3> HIDE DEF d
    <3> QED
      BY <1>a, <1>2, <2>1, <2>2, <2>3, <2>4, StoredIsSound
  <2>6. (event = "remove" /\ projects[p].shows) => since <= ContextLimit
    BY <2>2, <2>4, <1>a
  <2> HIDE DEF r, d
  <2> QED
    BY <2>1, <2>2, <2>5, <2>6, <1>6
<1>11. CASE ~ (timedOut[p][page[1]] > 0) /\ ~ Live(cache[p][page]) /\ ~ Live(d[Context])
            /\ ~ Live(projects[p])
  <2> DEFINE x == [r EXCEPT !.shows = campaign, !.wait = FetchTimeout]
  <2>1. Goes(c, x, "fetch", Missed(d, Context))
    BY <1>11 DEF Begin
  <2>2. campaign \in BOOLEAN /\ FetchTimeout \in 0 .. Max2(QueryTimeout, FetchTimeout)
    BY <1>a, TtlTypes DEF TypeOK
  <2>3. x \in Requests /\ x.pod = p /\ x.wait = FetchTimeout /\ x.shows = campaign
    <3> HIDE DEF r
    <3> QED
      BY <1>1, <2>2 DEF Requests
  <2> DEFINE y == [x EXCEPT !.at = "fetch"]
  <2>4. /\ y \in Requests /\ y.pod = p /\ y.wait = FetchTimeout /\ y.shows = campaign
        /\ y.at = "fetch"
    <3> HIDE DEF x
    <3> QED
      BY <2>3 DEF Requests, Places
  <2>5. req' = [req EXCEPT ![c] = y] /\ cache' = [cache EXCEPT ![p] = Missed(d, Context)]
    <3> HIDE DEF x
    <3> QED
      BY <2>1, <2>3 DEF Goes
  <2>6. Sound(Missed(d, Context))
    <3> HIDE DEF d
    <3> QED
      BY <1>2, <1>a, MissedIsSound
  <2>7. Prompt(y)
    <3>1. (event = "remove" /\ y.shows) => since = 0
      BY <1>a, <2>4 DEF OneEvent, Happened
    <3>2. (event = "remove" /\ y.at = "fetch" /\ y.shows) => y.wait + since <= FetchTimeout
      BY <3>1, <2>4, TtlTypes
    <3> HIDE DEF y
    <3> QED
      BY <3>2, <2>4 DEF Prompt, Running
  <2>8. Owed(y) <= Owed(req[c]) /\ (Busy(y) => Busy(req[c]))
    <3>1. Owed(y) = 0
      BY <2>4 DEF Owed
    <3>2. ~ Busy(y)
      BY <2>4 DEF Busy, Waiting, Running
    <3>3. Owed(req[c]) \in Nat
      <4>1. req[c] \in Requests
        BY <1>a DEF TypeOK, Requests, Places
      <4> QED
        BY <4>1, OwedType
    <3>4. Owed(y) <= Owed(req[c])
      BY <3>1, <3>3
    <3> QED
      BY <3>2, <3>4
  <2> HIDE DEF y, x, d
  <2> QED
    BY <2>4, <2>5, <2>6, <2>7, <2>8, <1>3, <1>4, RequestMoves
<1> QED
  BY <1>7, <1>8, <1>9, <1>10, <1>11

\* What the invariant says of a client's request.
LEMMA RequestFacts ==
  ASSUME Forgetting, NEW c \in Clients
  PROVE  /\ req[c] \in Requests /\ req[c].pod \in Pods /\ req[c].page \in Pages
         /\ req[c].wait \in Nat /\ req[c].shows \in BOOLEAN
         /\ Prompt(req[c]) /\ Sound(cache[req[c].pod]) /\ since \in Nat
<1>1. req[c] \in Requests /\ since \in Nat
  BY DEF Forgetting, TypeOK, Requests, Places
<1>2. req[c].pod \in Pods /\ req[c].page \in Pages /\ req[c].shows \in BOOLEAN
  BY <1>1 DEF Requests
<1>3. req[c].wait \in Nat
  BY <1>1, OwedType
<1> QED
  BY <1>1, <1>2, <1>3 DEF Forgetting

\* While a request is at a statement that shows the posts, it is not too late.
LEMMA StatementInTime ==
  ASSUME Forgetting, NEW c \in Clients,
         \/ req[c].at = "query" /\ req[c].shows
         \/ req[c].at = "rollup" /\ event = "remove"
  PROVE  since <= StatementLimit
<1>a. /\ event \in {"hide", "remove"} /\ since \in Nat /\ req[c].wait \in Nat
      /\ Prompt(req[c]) /\ Patience
  BY RequestFacts DEF Forgetting, TypeOK
<1>1. CASE event = "remove"
  <2>1. Active
    BY DEF Active, Running
  <2>2. since + Cardinality(Debts) <= StatementLimit
    BY <1>1, <1>a, <2>1 DEF Patience
  <2> QED
    BY <2>2, <1>a, DebtsFinite, StatementLimitType
<1>2. CASE event = "hide"
  <2>1. req[c].wait + since <= QueryTimeout
    BY <1>2, <1>a DEF Prompt
  <2>2. StatementLimit = QueryTimeout
    BY <1>2 DEF StatementLimit
  <2> QED
    BY <2>1, <2>2, <1>a, TtlTypes
<1> QED
  BY <1>a, <1>1, <1>2

(* A fetched context keeps the invariant.                                  *)
LEMMA FetchedStep ==
  ASSUME Forgetting, NEW c \in Clients, Fetched(c)
  PROVE  Forgetting'
<1> DEFINE r == req[c]
           x == [r EXCEPT !.shows = FALSE]
<1>a. /\ r \in Requests /\ r.pod \in Pods /\ r.page \in Pages /\ r.wait \in Nat
      /\ r.shows \in BOOLEAN /\ Prompt(r) /\ Sound(cache[r.pod]) /\ since \in Nat
      /\ r.at = "fetch" /\ UNCHANGED <<world, timedOut>>
      /\ projects' = [projects EXCEPT ![r.pod] = Entry(r.shows, ClientTtl)]
      /\ TypeOK /\ ProjectsTimely
  BY RequestFacts DEF Fetched, Forgetting
<1>1. (event = "remove" /\ r.shows) => since <= FetchTimeout
  <2>1. (event = "remove" /\ r.shows) => r.wait + since <= FetchTimeout
    BY <1>a DEF Prompt
  <2> QED
    BY <2>1, <1>a, TtlTypes
<1>2. x \in Requests /\ x.pod = r.pod
  BY <1>a DEF Requests
<1>3. PICK e \in Stored(cache[r.pod], Context, r.shows, ContextTtl) : WithContext(c, x, r.shows, e)
  BY DEF Fetched
<1>4. ContextTtl \in 1 .. MaxTtl /\ Context \in Keys
  BY KeyKinds, TtlTypes
<1>5. (event = "remove" /\ r.shows) => since <= ContextLimit /\ ContextTtl + since <= ContextLimit
  BY <1>1, <1>a, TtlTypes DEF ContextLimit
<1>6. (Limited(Context) /\ r.shows) => ContextTtl + since <= Limit(Context)
  BY <1>5 DEF Limited, Limit
<1>7. Sound(e)
  <2> HIDE DEF r
  <2> QED
    BY <1>a, <1>3, <1>4, <1>6, StoredIsSound
<1>8. Lands(c, x, Paths) /\ (~ r.shows => Lands(c, x, {"answered"}))
  <2> HIDE DEF r, x
  <2> QED
    BY <1>a, <1>2, <1>3, <1>7, WithContextLands DEF Paths
<1>9. projects' \in [Pods -> Entries(ClientTtl)]
  <2>1. Entry(r.shows, ClientTtl) \in Entries(ClientTtl)
    BY <1>a, TtlTypes DEF Entry, Entries
  <2> QED
    BY <2>1, <1>a DEF TypeOK
<1>10. ProjectsTimely'
  <2> SUFFICES ASSUME NEW p \in Pods, event = "remove", Live(projects'[p]), projects'[p].shows
               PROVE  projects'[p].left + since <= FetchTimeout + ClientTtl
    BY <1>a DEF ProjectsTimely, Live, world
  <2>1. CASE p = r.pod
    <3>1. projects'[p] = Entry(r.shows, ClientTtl)
      BY <2>1, <1>a DEF TypeOK
    <3>2. projects'[p].left = ClientTtl /\ r.shows
      BY <3>1 DEF Entry
    <3> QED
      BY <3>2, <1>1, <1>a, TtlTypes
  <2>2. CASE p # r.pod
    <3>1. projects'[p] = projects[p]
      BY <2>2, <1>a DEF TypeOK
    <3> QED
      BY <3>1, <1>a DEF ProjectsTimely
  <2> QED
    BY <2>1, <2>2
<1>11. timedOut' \in [Pods -> [Scopes -> 0 .. TimeoutTtl]] /\ UNCHANGED world
  BY <1>a DEF TypeOK
<1>12. (event = "remove" => since <= ContextLimit) \/ Lands(c, x, {"answered"})
  BY <1>5, <1>8
<1> HIDE DEF x
<1> QED
  BY <1>2, <1>8, <1>9, <1>10, <1>11, <1>12, LandingKeeps

(* A statement that gets its slot keeps the invariant.                     *)
LEMMA RunStep ==
  ASSUME Forgetting, NEW c \in Clients, Run(c)
  PROVE  Forgetting'
<1> DEFINE r == req[c]
           x == [r EXCEPT !.at = IF r.at = "rollup_wait" THEN "rollup" ELSE "query",
                          !.shows = IF r.at = "rollup_wait" THEN rollup ELSE ~ hidden,
                          !.wait = QueryTimeout]
<1>a. /\ r \in Requests /\ r.pod \in Pods /\ Prompt(r) /\ Sound(cache[r.pod]) /\ since \in Nat
      /\ r.at \in Waiting /\ UNCHANGED <<world, cache, projects, timedOut>>
      /\ req' = [req EXCEPT ![c] = x] /\ TypeOK /\ OneEvent
  BY RequestFacts DEF Run, Forgetting
<1>1. /\ x \in Requests /\ x.wait = QueryTimeout /\ x.page = r.page
      /\ x.at = (IF r.at = "rollup_wait" THEN "rollup" ELSE "query")
      /\ x.at = "query" => x.shows = ~ hidden
  <2>1. rollup \in BOOLEAN /\ (~ hidden) \in BOOLEAN
    BY <1>a DEF TypeOK
  <2>2. QueryTimeout \in 0 .. Max2(QueryTimeout, FetchTimeout)
    BY TtlTypes
  <2> QED
    BY <1>a, <2>1, <2>2 DEF Requests, Places, Running
<1>2. Prompt(x)
  <2>1. x.at \in {"rollup_wait", "rollup"} => Unfiltered(x.page)
    BY <1>a, <1>1 DEF Prompt
  <2>2. (event = "hide" /\ x.at = "query" /\ x.shows) => since = 0
    BY <1>a, <1>1 DEF OneEvent, Happened
  <2>3. (event = "hide" /\ x.at = "query" /\ x.shows) => x.wait + since <= QueryTimeout
    BY <2>2, <1>1, TtlTypes
  <2>4. x.wait <= QueryTimeout /\ x.at # "fetch"
    BY <1>1, TtlTypes
  <2> HIDE DEF x, r
  <2> QED
    BY <2>1, <2>3, <2>4 DEF Prompt
<1>3. Owed(x) <= Owed(r) /\ (Busy(x) => Busy(r))
  <2>1. Busy(r)
    BY <1>a DEF Busy
  <2>2. CASE r.at = "rollup_wait"
    <3>1. Owed(x) = QueryTimeout + QueryTimeout /\ Owed(r) = 2 * QueryTimeout
      BY <2>2, <1>1 DEF Owed
    <3>2. Owed(x) <= Owed(r)
      BY <3>1, TtlTypes
    <3> QED
      BY <2>1, <3>2
  <2>3. CASE r.at = "query_wait"
    <3>1. Owed(x) = QueryTimeout /\ Owed(r) = QueryTimeout
      BY <2>3, <1>1 DEF Owed
    <3>2. Owed(x) <= Owed(r)
      BY <3>1, TtlTypes
    <3> QED
      BY <2>1, <3>2
  <2> QED
    BY <2>2, <2>3, <1>a DEF Waiting
<1>4. cache' = [cache EXCEPT ![r.pod] = cache[r.pod]]
  BY <1>a DEF TypeOK
<1>5. /\ projects' \in [Pods -> Entries(ClientTtl)] /\ ProjectsTimely'
      /\ timedOut' \in [Pods -> [Scopes -> 0 .. TimeoutTtl]] /\ UNCHANGED world
  BY <1>a, ProjectsKept DEF TypeOK
<1> HIDE DEF x
<1> QED
  BY <1>a, <1>1, <1>2, <1>3, <1>4, <1>5, RequestMoves

(* An answer from the rollup keeps the invariant.                          *)
LEMMA RollupDoneStep ==
  ASSUME Forgetting, NEW c \in Clients, RollupDone(c)
  PROVE  Forgetting'
<1> DEFINE r == req[c]
           d == cache[r.pod]
<1>a. /\ r \in Requests /\ r.pod \in Pods /\ r.page \in Pages /\ Prompt(r) /\ Sound(d)
      /\ since \in Nat /\ r.at = "rollup" /\ UNCHANGED <<world, projects, timedOut>> /\ TypeOK
  BY RequestFacts DEF RollupDone, Forgetting
<1>1. /\ projects' \in [Pods -> Entries(ClientTtl)] /\ ProjectsTimely'
      /\ timedOut' \in [Pods -> [Scopes -> 0 .. TimeoutTtl]] /\ UNCHANGED world
  BY <1>a, ProjectsKept DEF TypeOK
<1>2. CASE r.shows
  <2>1. PICK e \in Stored(d, r.page, TRUE, PostsTtl) : Answers(c, r, TRUE, e)
    BY <1>2 DEF RollupDone
  <2>2. Limited(r.page) => PostsTtl + since <= Limit(r.page)
    <3>1. Limited(r.page) => event = "remove"
      BY <1>a DEF Limited, Prompt, Unfiltered
    <3>2. event = "remove" => since <= StatementLimit
      BY <1>a, StatementInTime
    <3>3. Limit(r.page) = StatementLimit + 2 * PostsTtl
      BY <1>a, PageLimits
    <3> QED
      BY <3>1, <3>2, <3>3, <1>a, StatementLimitType, TtlTypes
  <2>3. r.page \in Keys /\ PostsTtl \in 1 .. MaxTtl
    BY <1>a, KeyKinds, TtlTypes
  <2>4. Sound(e)
    <3> HIDE DEF r, d
    <3> QED
      BY <1>a, <2>1, <2>2, <2>3, StoredIsSound
  <2>5. Lands(c, r, {"answered"})
    BY <1>a, <2>1, <2>4, AnswersLands
  <2>6. Lands(c, r, Paths)
    BY <2>5 DEF Lands, Paths
  <2> QED
    BY <1>a, <1>1, <2>5, <2>6, LandingKeeps
<1>3. CASE ~ r.shows
  <2>1. TryWindow(c, r, d)
    BY <1>3 DEF RollupDone
  <2>2. Lands(c, r, {"answered", "query_wait"})
    BY <1>a, <2>1, TryWindowLands
  <2>3. Lands(c, r, Paths)
    BY <2>2 DEF Lands, Paths
  <2> QED
    BY <1>a, <1>1, <2>2, <2>3, LandingKeeps
<1> QED
  BY <1>2, <1>3

(* An answer from the query keeps the invariant.                           *)
LEMMA QueryDoneStep ==
  ASSUME Forgetting, NEW c \in Clients, QueryDone(c)
  PROVE  Forgetting'
<1> DEFINE r == req[c]
           d == cache[r.pod]
           w == Window(r.page[1])
<1>a. /\ r \in Requests /\ r.pod \in Pods /\ r.page \in Pages /\ Prompt(r) /\ Sound(d)
      /\ r.shows \in BOOLEAN
      /\ since \in Nat /\ r.at = "query" /\ UNCHANGED <<world, projects, timedOut>> /\ TypeOK
  BY RequestFacts DEF QueryDone, Forgetting
<1>1. /\ projects' \in [Pods -> Entries(ClientTtl)] /\ ProjectsTimely'
      /\ timedOut' \in [Pods -> [Scopes -> 0 .. TimeoutTtl]] /\ UNCHANGED world
  BY <1>a, ProjectsKept DEF TypeOK
<1>2. PICK f \in (IF InWindow(r.page) THEN Stored(d, w, r.shows, PostsTtl) ELSE {d}) :
         \E e \in Stored(f, r.page, r.shows, PostsTtl) : Answers(c, r, r.shows, e)
  BY DEF QueryDone
<1>3. PICK e \in Stored(f, r.page, r.shows, PostsTtl) : Answers(c, r, r.shows, e)
  BY <1>2
<1>4. /\ r.page \in Keys /\ w \in Keys /\ PostsTtl \in 1 .. MaxTtl
      /\ Limit(r.page) = StatementLimit + 2 * PostsTtl
      /\ Limit(w) = StatementLimit + PostsTtl
  BY <1>a, KeyKinds, PageLimits, TtlTypes
<1>5. r.shows => since <= StatementLimit
  BY <1>a, StatementInTime
<1>6. r.shows => PostsTtl + since <= Limit(r.page) /\ PostsTtl + since <= Limit(w)
  BY <1>a, <1>4, <1>5, StatementLimitType, TtlTypes
<1>7. Sound(f)
  <2>1. CASE InWindow(r.page)
    <3>1. f \in Stored(d, w, r.shows, PostsTtl)
      BY <1>2, <2>1
    <3> HIDE DEF r, d, w
    <3> QED
      BY <3>1, <1>a, <1>4, <1>6, StoredIsSound
  <2>2. CASE ~ InWindow(r.page)
    BY <1>2, <1>a, <2>2
  <2> QED
    BY <2>1, <2>2
<1>8. Sound(e)
  <2> HIDE DEF r, d, w
  <2> QED
    BY <1>7, <1>a, <1>3, <1>4, <1>6, StoredIsSound
<1>9. Lands(c, r, {"answered"})
  BY <1>a, <1>3, <1>8, AnswersLands
<1>10. Lands(c, r, Paths)
  BY <1>9 DEF Lands, Paths
<1> QED
  BY <1>a, <1>1, <1>9, <1>10, LandingKeeps

(* A failed or timed out request keeps the invariant.                      *)
LEMMA GivesUpStep ==
  ASSUME Forgetting, NEW c \in Clients, Fails(c) \/ TimesOut(c)
  PROVE  Forgetting'
<1>a. /\ req[c] \in Requests /\ req[c].pod \in Pods /\ req[c].page \in Pages
      /\ Sound(cache[req[c].pod]) /\ TypeOK
      /\ UNCHANGED <<world, projects>>
      /\ Answers(c, req[c], FALSE, cache[req[c].pod])
  BY RequestFacts DEF Fails, TimesOut, Forgetting
<1>1. projects' \in [Pods -> Entries(ClientTtl)] /\ ProjectsTimely' /\ UNCHANGED world
  BY <1>a, ProjectsKept
<1>2. timedOut' \in [Pods -> [Scopes -> 0 .. TimeoutTtl]]
  <2>1. CASE Fails(c)
    BY <2>1, <1>a DEF Fails, TypeOK
  <2>2. CASE TimesOut(c)
    <3>1. TimeoutTtl \in 0 .. TimeoutTtl /\ req[c].page[1] \in Scopes
      BY <1>a, TtlTypes DEF Scopes
    <3> QED
      BY <2>2, <3>1, <1>a DEF TimesOut, TypeOK
  <2> QED
    BY <2>1, <2>2
<1>3. Lands(c, req[c], {"answered"})
  BY <1>a, AnswersLands
<1>4. Lands(c, req[c], Paths)
  BY <1>3 DEF Lands, Paths
<1> QED
  BY <1>a, <1>1, <1>2, <1>3, <1>4, LandingKeeps

------------------------------------------------------------------------------
(***************************************************************************)
(* The steps of the world around, and time.                                *)
(***************************************************************************)
LEMMA WorldStep ==
  ASSUME Forgetting, HideCommit \/ HideReturn \/ RollupRefresh \/ Remove \/ UNCHANGED vars
  PROVE  Forgetting'
<1> USE DEF vars, world
<1>a. /\ TypeOK /\ OneEvent /\ ProjectsTimely /\ Patience
      /\ \A p \in Pods : Sound(cache[p])
      /\ \A c \in Clients : Prompt(req[c])
      /\ UNCHANGED <<event, since, projects, req>>
  BY DEF Forgetting, HideCommit, HideReturn, RollupRefresh, Remove
<1>1. cache' \in [Pods -> Dictionaries] /\ \A p \in Pods : Sound(cache'[p])
  <2>1. CASE UNCHANGED cache
    BY <2>1, <1>a DEF TypeOK, Dictionaries
  <2>2. CASE \E q \in Pods : cache' = [cache EXCEPT ![q] = [k \in Keys |-> None]]
    <3>1. PICK q \in Pods : cache' = [cache EXCEPT ![q] = [k \in Keys |-> None]]
      BY <2>2
    <3>2. Sound([k \in Keys |-> None])
      BY EmptiedIsSound
    <3>3. [k \in Keys |-> None] \in Dictionaries
      BY <3>2 DEF Sound
    <3> QED
      BY <1>a, <3>1, <3>2, <3>3 DEF TypeOK, Dictionaries
  <2> QED
    BY <2>1, <2>2 DEF HideCommit, HideReturn, RollupRefresh, Remove
<1>2. timedOut' \in [Pods -> [Scopes -> 0 .. TimeoutTtl]]
  <2>1. CASE UNCHANGED timedOut
    BY <2>1, <1>a DEF TypeOK
  <2>2. CASE \E q \in Pods : timedOut' = [timedOut EXCEPT ![q] = [s \in Scopes |-> 0]]
    <3>1. [s \in Scopes |-> 0] \in [Scopes -> 0 .. TimeoutTtl]
      BY TtlTypes
    <3> QED
      BY <2>2, <3>1, <1>a DEF TypeOK
  <2> QED
    BY <2>1, <2>2 DEF HideCommit, HideReturn, RollupRefresh, Remove
<1>3. TypeOK'
  <2>1. campaign' \in BOOLEAN /\ hidden' \in BOOLEAN /\ rollup' \in BOOLEAN
        /\ hide' \in {"no", "committed", "done"}
    BY <1>a DEF TypeOK, HideCommit, HideReturn, RollupRefresh, Remove
  <2> QED
    BY <1>1, <1>2, <1>a, <2>1 DEF TypeOK, Dictionaries
<1>4. OneEvent'
  BY <1>a DEF OneEvent, Happened, HideCommit, HideReturn, RollupRefresh, Remove
<1>5. \A p \in Pods : Sound(cache[p])'
  BY <1>1, <1>a DEF Sound, Timely, Limited, Limit, StatementLimit
<1>6. ProjectsTimely'
  BY <1>a DEF ProjectsTimely
<1>7. \A c \in Clients : Prompt(req[c])'
  BY <1>a DEF Prompt
<1>8. Patience'
  BY <1>a DEF Patience, Active, Debts, StatementLimit
<1> QED
  BY <1>3, <1>4, <1>5, <1>6, <1>7, <1>8 DEF Forgetting

\* An entry a tick later.
LEMMA AgedEntry ==
  ASSUME NEW ttl \in Nat, NEW e \in Entries(ttl)
  PROVE  /\ Aged(e) \in Entries(ttl)
         /\ Aged(e).kept = e.kept /\ Aged(e).shows = e.shows
         /\ Live(Aged(e)) => Live(e) /\ Aged(e).left = e.left - 1
         /\ e.left \in Nat
<1>1. e.left \in 0 .. ttl /\ e.left \in Nat
  BY DEF Entries
<1>2. Less(e.left) \in 0 .. ttl
  BY <1>1 DEF Less
<1>3. Aged(e) = [e EXCEPT !.left = Less(e.left)]
  BY DEF Aged
<1>4. Aged(e) \in Entries(ttl)
  BY <1>2, <1>3 DEF Entries
<1>5. Aged(e).kept = e.kept /\ Aged(e).shows = e.shows /\ Aged(e).left = Less(e.left)
  BY <1>3 DEF Entries
<1>6. Live(Aged(e)) => Live(e) /\ Aged(e).left = e.left - 1
  BY <1>1, <1>5 DEF Live, Less
<1> QED
  BY <1>1, <1>4, <1>5, <1>6

\* A tick can pass only when a statement is running for those who wait.
LEMMA SomeoneRuns ==
  ASSUME Forgetting, Tick, Active
  PROVE  \E b \in Clients : req[b].at \in Running /\ req[b].wait > 0
<1>1. PICK c \in Clients : req[c].at \in Waiting \cup Running
  BY DEF Active
<1>2. \A b \in Clients : req[b].at \in Running => req[b].wait > 0
  BY DEF Tick
<1>3. CASE req[c].at \in Running
  BY <1>2, <1>3
<1>4. CASE req[c].at \in Waiting
  <2> DEFINE R == {b \in Clients : req[b].pod = req[c].pod /\ req[b].at \in Running}
  <2>1. ~ (Cardinality(R) < Concurrency)
    BY <1>4 DEF Tick, HasSlot
  <2>2. R # {}
    <3>1. Cardinality({}) = 0
      BY FS_EmptySet
    <3>2. 0 < Concurrency
      BY TtlTypes
    <3> HIDE DEF R
    <3> QED
      BY <2>1, <3>1, <3>2
  <2> QED
    BY <1>2, <2>2
<1> QED
  BY <1>1, <1>3, <1>4

(* A tick is paid for by those that run.                                   *)
LEMMA TickPatience ==
  ASSUME Forgetting, Tick
  PROVE  Patience'
<1>a. /\ req \in [Clients -> Requests] /\ since \in Nat /\ Patience
      /\ req' = [c \in Clients |-> [req[c] EXCEPT !.wait = Less(@)]]
      /\ UNCHANGED event /\ since' \in {since, since + 1}
      /\ \A c \in Clients : req[c].at \in Running => req[c].wait > 0
      /\ \A c \in Clients : Prompt(req[c])
  BY DEF Forgetting, TypeOK, Requests, Places, Tick
<1> SUFFICES ASSUME event = "remove", Active'
             PROVE  since' + Cardinality(Debts') <= StatementLimit
  BY <1>a DEF Patience, StatementLimit
<1>1. ASSUME NEW c \in Clients
      PROVE  /\ req'[c].at = req[c].at /\ req'[c].wait = Less(req[c].wait)
             /\ req[c].wait \in Nat /\ req'[c].wait \in Nat
  <2>1. req[c] \in Requests /\ req[c].wait \in Nat
    BY <1>a, OwedType
  <2>2. req'[c] = [req[c] EXCEPT !.wait = Less(req[c].wait)]
    BY <1>a
  <2>3. req'[c].at = req[c].at /\ req'[c].wait = Less(req[c].wait)
    BY <2>1, <2>2 DEF Requests
  <2>4. Less(req[c].wait) \in Nat
    BY <2>1 DEF Less
  <2> QED
    BY <2>1, <2>3, <2>4
<1>2. Active
  BY <1>1 DEF Active
<1>3. ASSUME NEW c \in Clients
      PROVE  /\ Owed(req'[c]) \in Nat /\ Owed(req[c]) \in Nat
             /\ Owed(req'[c]) <= Owed(req[c])
             /\ req[c].at \in Running => Owed(req'[c]) < Owed(req[c])
             /\ req[c].at \in Running => Owed(req[c]) \in 1 .. 2 * QueryTimeout
  <2>1. /\ req'[c].at = req[c].at /\ req'[c].wait = Less(req[c].wait)
        /\ req[c].wait \in Nat /\ QueryTimeout \in Nat
    BY <1>1, TtlTypes
  <2>2. CASE req[c].at \in Running
    <3>1. req[c].wait > 0 /\ req[c].wait <= QueryTimeout
      BY <2>2, <1>a DEF Prompt
    <3>2. req'[c].wait = req[c].wait - 1
      BY <2>1, <3>1 DEF Less
    <3>3. CASE req[c].at = "rollup"
      <4>1. /\ Owed(req[c]) = req[c].wait + QueryTimeout
            /\ Owed(req'[c]) = req'[c].wait + QueryTimeout
        BY <2>1, <3>3 DEF Owed
      <4> QED
        BY <4>1, <2>1, <3>1, <3>2
    <3>4. CASE req[c].at = "query"
      <4>1. Owed(req[c]) = req[c].wait /\ Owed(req'[c]) = req'[c].wait
        BY <2>1, <3>4 DEF Owed
      <4> QED
        BY <4>1, <2>1, <3>1, <3>2
    <3> QED
      BY <2>2, <3>3, <3>4 DEF Running
  <2>3. CASE req[c].at \notin Running
    <3>1. Owed(req'[c]) = Owed(req[c])
      BY <2>1, <2>3 DEF Owed, Running
    <3>2. Owed(req[c]) \in Nat
      BY <1>a, OwedType
    <3> QED
      BY <3>1, <3>2, <2>3
  <2> QED
    BY <2>2, <2>3
<1>4. PICK b \in Clients : req[b].at \in Running
  BY <1>2, SomeoneRuns
<1> DEFINE o == <<b, Owed(req[b])>>
<1>5. o \in Debts /\ o \notin Debts'
  BY <1>3, <1>4 DEF Debts
<1>6. Debts' \subseteq Debts
  <2> SUFFICES ASSUME NEW u \in Clients \X (1 .. 2 * QueryTimeout), u[2] <= Owed(req'[u[1]])
               PROVE  u[2] <= Owed(req[u[1]])
    BY DEF Debts, Owed
  <2>1. u[1] \in Clients /\ u[2] \in Nat
    BY TtlTypes
  <2> QED
    BY <2>1, <1>3
<1>7. Debts' \subseteq Debts \ {o}
  BY <1>5, <1>6
<1>8. IsFiniteSet(Debts \ {o}) /\ Cardinality(Debts \ {o}) = Cardinality(Debts) - 1
  <2> HIDE DEF o
  <2> QED
    BY <1>5, DebtsFinite, FS_RemoveElement
<1>9. Cardinality(Debts') <= Cardinality(Debts \ {o})
  <2> HIDE DEF o
  <2> QED
    BY <1>7, <1>8, FS_Subset
<1>10. since + Cardinality(Debts) <= StatementLimit
  BY <1>2, <1>a DEF Patience
<1> QED
  BY <1>8, <1>9, <1>10, <1>a, DebtsFinite, DebtsFiniteNext, StatementLimitType

(* A tick of the clock keeps the invariant.                                *)
LEMMA TickStep ==
  ASSUME Forgetting, Tick
  PROVE  Forgetting'
<1>a. /\ TypeOK /\ OneEvent /\ ProjectsTimely /\ since \in Nat /\ MaxTtl \in Nat
      /\ \A p \in Pods : Sound(cache[p])
      /\ \A c \in Clients : Prompt(req[c])
      /\ UNCHANGED <<event, campaign, hidden, hide, rollup>>
      /\ cache \in [Pods -> Dictionaries] /\ req \in [Clients -> Requests]
  BY TtlTypes DEF Forgetting, TypeOK, Tick, Dictionaries, Requests, Places
<1>1. since' \in Nat /\ since' \in 0 .. MaxClock /\ since' <= since + 1
      /\ (~ Happened => since' = since)
  BY <1>a, TtlTypes DEF Tick, TypeOK
<1>2. ASSUME NEW p \in Pods PROVE cache'[p] \in Dictionaries /\ Sound(cache[p])'
  <2> DEFINE d == cache[p]
             e == [k \in Keys |-> Aged(d[k])]
  <2>1. cache'[p] = e
    BY DEF Tick
  <2>2. d \in Dictionaries /\ Size(d) <= MaxEntries /\ Timely(d)
    BY <1>a DEF Sound
  <2>3. ASSUME NEW k \in Keys
        PROVE  /\ e[k] \in Entries(MaxTtl) /\ e[k].kept = d[k].kept /\ e[k].shows = d[k].shows
               /\ Live(e[k]) => Live(d[k]) /\ e[k].left = d[k].left - 1
               /\ d[k].left \in Nat
    <3>1. d[k] \in Entries(MaxTtl) /\ e[k] = Aged(d[k])
      BY <2>2 DEF Dictionaries
    <3> QED
      BY <3>1, <1>a, AgedEntry
  <2>4. e \in Dictionaries
    <3>1. e \in [Keys -> Entries(MaxTtl)]
      BY <2>3
    <3> QED
      BY <3>1 DEF Dictionaries
  <2>5. Size(e) <= MaxEntries
    <3>1. \A k \in Keys : e[k].kept => d[k].kept
      BY <2>3
    <3>2. Size(e) <= Size(d)
      <4> HIDE DEF e, d
      <4> QED
        BY <3>1, FewerKept
    <3>3. Size(e) \in Nat /\ Size(d) \in Nat /\ MaxEntries \in Nat
      <4> HIDE DEF e, d
      <4> QED
        BY KeptIsFinite, TtlTypes
    <3> QED
      BY <2>2, <3>2, <3>3
  <2>6. ASSUME NEW k \in Keys, Limited(k), Live(e[k]), e[k].shows
        PROVE  e[k].left + since' <= Limit(k)
    <3>1. Live(d[k]) /\ d[k].shows /\ e[k].left = d[k].left - 1 /\ d[k].left \in Nat
      BY <2>3, <2>6
    <3>2. d[k].left + since <= Limit(k)
      BY <3>1, <2>2, <2>6 DEF Timely
    <3>3. Limit(k) \in Nat
      BY StatementLimitType, TtlTypes DEF Limit, ContextLimit
    <3> HIDE DEF e, d
    <3> QED
      BY <3>1, <3>2, <3>3, <1>1, <1>a
  <2>7. Timely(cache[p])'
    BY <2>1, <2>6, <1>a DEF Timely, Limited, Limit, StatementLimit
  <2> QED
    BY <2>1, <2>4, <2>5, <2>7 DEF Sound
<1>3. ASSUME NEW p \in Pods
      PROVE  /\ projects'[p] \in Entries(ClientTtl)
             /\ (event = "remove" /\ Live(projects'[p]) /\ projects'[p].shows)
                   => projects'[p].left + since' <= FetchTimeout + ClientTtl
  <2>1. projects'[p] = Aged(projects[p]) /\ projects[p] \in Entries(ClientTtl)
        /\ ClientTtl \in Nat /\ FetchTimeout \in Nat
    BY <1>a, TtlTypes DEF Tick, TypeOK
  <2>2. /\ projects'[p] \in Entries(ClientTtl)
        /\ projects'[p].shows = projects[p].shows /\ projects[p].left \in Nat
        /\ Live(projects'[p]) => Live(projects[p]) /\ projects'[p].left = projects[p].left - 1
    BY <2>1, AgedEntry
  <2>3. (event = "remove" /\ Live(projects[p]) /\ projects[p].shows)
           => projects[p].left + since <= FetchTimeout + ClientTtl
    BY <1>a DEF ProjectsTimely
  <2> QED
    BY <2>1, <2>2, <2>3, <1>1, <1>a
<1>4. ProjectsTimely'
  BY <1>3, <1>a DEF ProjectsTimely
<1>5. ASSUME NEW c \in Clients PROVE req'[c] \in Requests /\ Prompt(req[c])'
  <2> DEFINE r == req[c]
  <2>1. r \in Requests /\ r.wait \in 0 .. Max2(QueryTimeout, FetchTimeout) /\ r.wait \in Nat
    <3>1. r \in Requests
      BY <1>a
    <3>2. r.wait \in 0 .. Max2(QueryTimeout, FetchTimeout)
      BY <3>1 DEF Requests
    <3> QED
      BY <3>1, <3>2, OwedType
  <2>2. req'[c] = [r EXCEPT !.wait = Less(r.wait)]
    BY DEF Tick
  <2>3. Less(r.wait) \in 0 .. Max2(QueryTimeout, FetchTimeout)
    BY <2>1, TtlTypes DEF Less
  <2>4. req'[c] \in Requests
    <3> HIDE DEF r
    <3> QED
      BY <2>1, <2>2, <2>3 DEF Requests
  <2>5. /\ req'[c].at = r.at /\ req'[c].page = r.page /\ req'[c].shows = r.shows
        /\ req'[c].wait = Less(r.wait)
    <3> HIDE DEF r
    <3> QED
      BY <2>1, <2>2 DEF Requests
  <2>6. r.at \in Running \cup {"fetch"} => req'[c].wait = r.wait - 1
    BY <2>1, <2>5 DEF Tick, Less
  <2>7. Prompt(r)
    BY <1>a
  <2>8. r.at \in Running => req'[c].wait <= QueryTimeout
    BY <2>1, <2>6, <2>7, TtlTypes DEF Prompt
  <2>9. (event = "hide" /\ r.at = "query" /\ r.shows) => req'[c].wait + since' <= QueryTimeout
    BY <2>1, <2>6, <2>7, <1>1, <1>a, TtlTypes DEF Prompt, Running
  <2>10. (event = "remove" /\ r.at = "fetch" /\ r.shows) => req'[c].wait + since' <= FetchTimeout
    BY <2>1, <2>6, <2>7, <1>1, <1>a, TtlTypes DEF Prompt
  <2>11. r.at \in {"rollup_wait", "rollup"} => Unfiltered(r.page)
    BY <2>7 DEF Prompt
  <2>12. Prompt(req[c])'
    BY <2>5, <2>8, <2>9, <2>10, <2>11, <1>a DEF Prompt, Unfiltered
  <2> QED
    BY <2>4, <2>12
<1>6. TypeOK'
  <2>1. cache' \in [Pods -> Dictionaries]
    <3>1. cache' = [p \in Pods |-> [k \in Keys |-> Aged(cache[p][k])]]
      BY DEF Tick
    <3>2. \A p \in Pods : [k \in Keys |-> Aged(cache[p][k])] \in Dictionaries
      BY <1>2, <3>1
    <3> QED
      BY <3>1, <3>2
  <2>2. projects' \in [Pods -> Entries(ClientTtl)]
    <3>1. projects' = [p \in Pods |-> Aged(projects[p])]
      BY DEF Tick
    <3> QED
      BY <1>3, <3>1
  <2>3. req' \in [Clients -> Requests]
    <3>1. req' = [c \in Clients |-> [req[c] EXCEPT !.wait = Less(@)]]
      BY DEF Tick
    <3> QED
      BY <1>5, <3>1
  <2>4. timedOut' \in [Pods -> [Scopes -> 0 .. TimeoutTtl]]
    <3>1. \A p \in Pods, t \in Scopes : timedOut[p][t] \in 0 .. TimeoutTtl
      BY <1>a DEF TypeOK
    <3>2. \A p \in Pods, t \in Scopes : Less(timedOut[p][t]) \in 0 .. TimeoutTtl
      BY <3>1, TtlTypes DEF Less
    <3> QED
      BY <3>2 DEF Tick
  <2> QED
    BY <2>1, <2>2, <2>3, <2>4, <1>1, <1>a DEF TypeOK, Dictionaries, Requests, Places
<1>7. OneEvent'
  BY <1>1, <1>a DEF OneEvent, Happened
<1>8. Patience'
  BY TickPatience
<1> QED
  BY <1>2, <1>4, <1>5, <1>6, <1>7, <1>8 DEF Forgetting

------------------------------------------------------------------------------
(* The invariant holds at the start.                                       *)
LEMMA ForgettingInit == Init => Forgetting
<1> SUFFICES ASSUME Init PROVE Forgetting
  OBVIOUS
<1>1. NoRequest \in Requests /\ NoRequest.at = "answered"
  <2>1. Pods # {} /\ Pages # {}
    BY PostsCacheAssumption
  <2>2. 0 \in 0 .. Max2(QueryTimeout, FetchTimeout)
    BY TtlTypes
  <2> QED
    BY <2>1, <2>2 DEF NoRequest, Requests, Places
<1>2. \A ttl \in Nat : None \in Entries(ttl)
  BY DEF None, Entries
<1>3. ~ Live(None)
  BY DEF None, Live
<1>4. /\ campaign = TRUE /\ hidden = FALSE /\ hide = "no" /\ rollup \in BOOLEAN
      /\ event \in {"hide", "remove"} /\ since = 0
      /\ cache = [p \in Pods |-> [k \in Keys |-> None]]
      /\ projects = [p \in Pods |-> None]
      /\ timedOut = [p \in Pods |-> [s \in Scopes |-> 0]]
      /\ req = [c \in Clients |-> NoRequest]
  BY DEF Init
<1>5. cache \in [Pods -> Dictionaries]
  BY <1>2, <1>4, TtlTypes DEF Dictionaries
<1>6. projects \in [Pods -> Entries(ClientTtl)]
  BY <1>2, <1>4, TtlTypes
<1>7. timedOut \in [Pods -> [Scopes -> 0 .. TimeoutTtl]]
  BY <1>4, TtlTypes
<1>8. req \in [Clients -> Requests]
  BY <1>1, <1>4
<1>9. since \in 0 .. MaxClock
  BY <1>4, TtlTypes
<1>10. TypeOK
  BY <1>4, <1>5, <1>6, <1>7, <1>8, <1>9 DEF TypeOK, Dictionaries, Requests, Places
<1>11. \A p \in Pods : Sound(cache[p])
  BY <1>4, EmptiedIsSound
<1>12. OneEvent
  BY <1>4 DEF OneEvent
<1>13. ProjectsTimely
  BY <1>3, <1>4 DEF ProjectsTimely
<1>14. \A c \in Clients : Prompt(req[c])
  BY <1>1, <1>4 DEF Prompt, Running
<1>15. ~ Active
  BY <1>1, <1>4 DEF Active, Waiting, Running
<1> QED
  BY <1>10, <1>11, <1>12, <1>13, <1>14, <1>15 DEF Forgetting, Patience

(* Every step keeps the invariant.                                         *)
LEMMA ForgettingStep == Forgetting /\ [Next]_vars => Forgetting'
<1> SUFFICES ASSUME Forgetting, [Next]_vars PROVE Forgetting'
  OBVIOUS
<1>1. CASE \E c \in Clients, p \in Pods, page \in Pages : Begin(c, p, page)
  BY <1>1, BeginStep
<1>2. ASSUME NEW c \in Clients, Progress(c) PROVE Forgetting'
  BY <1>2, FetchedStep, RunStep, RollupDoneStep, QueryDoneStep, GivesUpStep DEF Progress
<1>3. CASE HideCommit \/ HideReturn \/ RollupRefresh \/ Remove \/ UNCHANGED vars
  BY <1>3, WorldStep
<1>4. CASE Tick
  BY <1>4, TickStep
<1> QED
  BY <1>1, <1>2, <1>3, <1>4 DEF Next

\* What is live is no later than its limit: past that, nothing shows.
LEMMA ForgettingForgets == Forgetting => CachesForget
<1> SUFFICES ASSUME Forgetting PROVE CachesForget
  OBVIOUS
<1>a. /\ TypeOK /\ since \in Nat /\ OneEvent /\ event \in {"hide", "remove"}
      /\ \A p \in Pods : Sound(cache[p])
  BY DEF Forgetting, TypeOK
<1>1. \A p \in Pods : Size(cache[p]) <= MaxEntries
  BY <1>a DEF Sound
<1>2. ASSUME NEW k \in Keys, Limited(k), since >= Limit(k) PROVE ~ ShowsLater(k)
  <2> SUFFICES ASSUME NEW p \in Pods, Live(cache[p][k]), cache[p][k].shows PROVE FALSE
    BY DEF ShowsLater
  <2>1. cache[p][k] \in Entries(MaxTtl) /\ Timely(cache[p])
    BY <1>a DEF Sound, Dictionaries
  <2>2. cache[p][k].left \in Nat /\ cache[p][k].left > 0
    BY <2>1, TtlTypes DEF Entries, Live
  <2>3. cache[p][k].left + since <= Limit(k)
    BY <2>1, <1>2 DEF Timely
  <2>4. Limit(k) \in Nat
    BY StatementLimitType, TtlTypes DEF Limit, ContextLimit
  <2> QED
    BY <2>2, <2>3, <2>4, <1>a, <1>2
<1>3. ASSUME hidden, since >= QueryTimeout + 2 * PostsTtl,
             NEW k \in Keys \ {Context}, k[1] # "all"
      PROVE  ~ ShowsLater(k)
  <2>1. event = "hide"
    BY <1>3, <1>a DEF OneEvent
  <2>2. StatementLimit = QueryTimeout /\ Limited(k)
    BY <2>1, <1>3 DEF StatementLimit, Limited
  <2>3. Limit(k) \in {QueryTimeout + PostsTtl, QueryTimeout + 2 * PostsTtl}
    BY <2>2, <1>3 DEF Limit
  <2>4. since >= Limit(k)
    BY <2>3, <1>3, <1>a, TtlTypes
  <2> QED
    BY <2>2, <2>4, <1>2
<1>4. ASSUME ~ campaign, since >= StackedTtl, NEW k \in Keys
      PROVE  ~ ShowsLater(k)
  <2>1. event = "remove" /\ Limited(k)
    BY <1>4, <1>a DEF OneEvent, Limited
  <2>2. StatementLimit + 2 * PostsTtl = StackedTtl
    <3>1. 2 * (QueryTimeout * Cardinality(Clients)) \in Nat
      BY DebtsBounded, FS_CardinalityType
    <3>2. StatementLimit = FetchTimeout + ClientTtl + ContextTtl
                           + 2 * (QueryTimeout * Cardinality(Clients))
      BY <2>1 DEF StatementLimit, ContextLimit
    <3> QED
      BY <3>1, <3>2, TtlTypes DEF StackedTtl
  <2>3. Limit(k) \in {ContextLimit, StatementLimit + PostsTtl, StatementLimit + 2 * PostsTtl}
    BY DEF Limit
  <2>4. ContextLimit \in Nat /\ ContextLimit <= StatementLimit
    <3>1. 2 * (QueryTimeout * Cardinality(Clients)) \in Nat
      BY DebtsBounded, FS_CardinalityType
    <3>2. StatementLimit = ContextLimit + 2 * (QueryTimeout * Cardinality(Clients))
      BY <2>1 DEF StatementLimit
    <3>3. ContextLimit \in Nat
      BY TtlTypes DEF ContextLimit
    <3> QED
      BY <3>1, <3>2, <3>3
  <2>5. since >= Limit(k)
    BY <2>2, <2>3, <2>4, <1>4, <1>a, StatementLimitType, TtlTypes
  <2> QED
    BY <2>1, <2>5, <1>2
<1> QED
  BY <1>a, <1>1, <1>3, <1>4 DEF CachesForget

(***************************************************************************)
(* The inductive invariant holds always, so the caches forget in time and  *)
(* never outgrow their limit (analytics_service.py: _cache_set,            *)
(* _prune_response_cache, get_posts; project_client.py).                   *)
(***************************************************************************)
THEOREM CachesAlwaysForget == Spec => []CachesForget
<1>1. Init => Forgetting
  BY ForgettingInit
<1>2. Forgetting /\ [Next]_vars => Forgetting'
  BY ForgettingStep
<1>3. Forgetting => CachesForget
  BY ForgettingForgets
<1> QED
  BY <1>1, <1>2, <1>3, PTL DEF Spec
===============================================================================
