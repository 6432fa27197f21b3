---------------------------- MODULE Normalization ----------------------------
(***************************************************************************)
(* What the pipeline's first stage makes of a batch of UAP records         *)
(* (internal/normalization): one mention for each record the language gate *)
(* lets through, with an id of its own and its place in a thread.          *)
(*                                                                         *)
(* A document is named <<"doc", n>> and its mention <<"mention", n>>: the  *)
(* mention id is a UUID5 of project and document and equals no document's  *)
(* id, while parents and roots are kept as document ids.  Mention ids sort *)
(* by n.  A text is what the gate, the compact form and the raw text tell  *)
(* apart; whether the gate supports its language comes with the record.    *)
(***************************************************************************)
EXTENDS Integers, FiniteSets, SequencesExt

NoId == <<>>
NoTime == [zone |-> "none", minute |-> 0]   \* published_at absent or not ISO

DocTypes == {"post", "comment", "reply"}
DOC_TYPE_DEPTH == [post |-> 0, comment |-> 1, reply |-> 2]

MentionId(doc) == <<"mention", doc[2]>>

\* A reply's root is its comment: the walk stops at the first parent.
RootId(r) ==
    IF DOC_TYPE_DEPTH[r.type] = 0 \/ r.parent = NoId THEN r.doc ELSE r.parent

MentionOf(r) ==
    [id     |-> MentionId(r.doc),
     origin |-> r.doc,
     root   |-> RootId(r),
     parent |-> r.parent,
     depth  |-> DOC_TYPE_DEPTH[r.type],
     author |-> r.author,
     text   |-> r.text,
     posted |-> r.posted,
     copies |-> 1]          \* dedup_cluster_size, until dedup annotates it

\* A list comprehension: what s has at the given places, in their order.
\* (SelectSeq is recursive in the library: nothing is proved of it.)
Nth(places, n) == CHOOSE i \in places : Cardinality({j \in places : j <= i}) = n
At(s, places) == [n \in 1 .. Cardinality(places) |-> s[Nth(places, n)]]

\* All pairs of a list, in the order of two nested loops.
PairsOf(s) ==
    LET from(i) == [j \in 1 .. Len(s) - i |-> <<s[i], s[i + j]>>]
    IN  FlattenSeq([i \in DOMAIN s |-> from(i)])

\* Union-find, of dedup and of the topics: an item is followed to the top of
\* its tree; path compression, which leaves every top what it was, is left out.
Find(parent, item) ==
    LET N == Cardinality(DOMAIN parent)
        up[n \in 0 .. N] == IF n = 0 THEN item ELSE parent[up[n - 1]]
    IN  up[N]

\* Mutant: the item is put below the other root, and its own root forgotten.
UnionOfItems(parent, pair) == [parent EXCEPT ![pair[2]] = Find(parent, pair[1])]

Union(parent, pair) ==
    [parent EXCEPT ![Find(parent, pair[2])] = Find(parent, pair[1])]

Unions(parent, pairs) ==
    LET N == Len(pairs)
        after[n \in 0 .. N] == IF n = 0 THEN parent ELSE Union(after[n - 1], pairs[n])
    IN  after[N]

Trees(parent) ==
    {{j \in DOMAIN parent : Find(parent, j) = Find(parent, i)} : i \in DOMAIN parent}

Normalize(records) ==
    LET kept == At(records, {i \in DOMAIN records : records[i].supported})
    IN  [i \in DOMAIN kept |-> MentionOf(kept[i])]

Ids(mentions) == {m.id : m \in Range(mentions)}

\* A dict of mentions by id: of two with one id, the later one.
ById(mentions) ==
    [id \in Ids(mentions) |->
        mentions[SelectLastInSeq(mentions, LAMBDA m : m.id = id)]]
==============================================================================
