------------------------------- MODULE Threads -------------------------------
(***************************************************************************)
(* build_threads (internal/threads): mentions grouped by root, a summary   *)
(* of each thread and the context of each mention in it.  The parent of a  *)
(* mention is looked up among mention ids.                                 *)
(***************************************************************************)
EXTENDS Normalization

ThreadOf(root, mentions) == At(mentions, {i \in DOMAIN mentions : mentions[i].root = root})
ChildrenOf(id, mentions) == SelectSeq(mentions, LAMBDA m : m.parent = id)
IdsOf(mentions) == [i \in DOMAIN mentions |-> mentions[i].id]

\* Mutant: min() without the depth.
PrecedesById(m, o, ids) ==
    LET inner(x) == IF x.parent \in ids THEN 1 ELSE 0
    IN  \/ inner(m) < inner(o)
        \/ inner(m) = inner(o) /\ m.id[2] < o.id[2]

\* min() by depth, then parents that are not in the batch, then mention id.
Precedes(m, o, ids) ==
    LET inner(x) == IF x.parent \in ids THEN 1 ELSE 0
    IN  \/ m.depth < o.depth
        \/ m.depth = o.depth /\ inner(m) < inner(o)
        \/ m.depth = o.depth /\ inner(m) = inner(o) /\ m.id[2] < o.id[2]

RootMention(root, thread, mentions) ==
    IF root \in Ids(mentions)
    THEN ById(mentions)[root]
    ELSE LET first(i) == \A j \in DOMAIN thread :
                 /\ ~Precedes(thread[j], thread[i], Ids(mentions))
                 /\ j < i => Precedes(thread[i], thread[j], Ids(mentions))
         IN  thread[CHOOSE i \in DOMAIN thread : first(i)]

\* The parents upwards, root first.  A chain is no longer than the batch.
Lineage(m, mentions) ==
    LET up(walk, i) ==
            IF walk.at = NoId THEN walk
            ELSE [ids |-> <<walk.at>> \o walk.ids,
                  at  |-> IF walk.at \in Ids(mentions)
                          THEN ById(mentions)[walk.at].parent ELSE NoId]
        end == FoldLeft(up, [ids |-> <<>>, at |-> m.parent],
                        [i \in 1 .. Len(mentions) + 1 |-> i])
    IN  end.ids

Context(m, root, mentions) ==
    LET found == m.parent \in Ids(mentions)
        texts == <<root.text>>
                   \o (IF found THEN <<ById(mentions)[m.parent].text>> ELSE <<>>)
                   \o <<m.text>>
    IN  [mention    |-> m.id,
         lineage    |-> Lineage(m, mentions),
         siblings   |-> IF m.parent = NoId THEN {}
                        ELSE Range(IdsOf(ChildrenOf(m.parent, mentions))) \ {m.id},
         children   |-> IdsOf(ChildrenOf(m.id, mentions)),
         rootText   |-> root.text,
         parentText |-> IF found THEN {ById(mentions)[m.parent].text} ELSE {},
         texts      |-> Range(texts)]

\* Mutant: replies are comments too.
SummaryOfDescendants(thread) ==
    LET at(D) == Cardinality({i \in DOMAIN thread : thread[i].depth \in D})
    IN  [total    |-> Len(thread),
         comments |-> at({1, 2}),
         replies  |-> at({2}),
         deepest  |-> CHOOSE d \in 0 .. 2 :
                         /\ at({d}) > 0
                         /\ \A e \in 0 .. 2 : at({e}) > 0 => e <= d]

Summary(thread) ==
    LET at(D) == Cardinality({i \in DOMAIN thread : thread[i].depth \in D})
    IN  [total    |-> Len(thread),
         comments |-> at({1}),
         replies  |-> at({2}),
         deepest  |-> CHOOSE d \in 0 .. 2 :
                         /\ at({d}) > 0
                         /\ \A e \in 0 .. 2 : at({e}) > 0 => e <= d]

Threads(mentions) ==
    LET roots == {m.root : m \in Range(mentions)}
        build(root) ==
            LET thread == ThreadOf(root, mentions)
                top    == RootMention(root, thread, mentions)
            IN  [summary  |-> Summary(thread),
                 contexts |-> {Context(m, top, mentions) : m \in Range(thread)}]
    IN  [root \in roots |-> build(root)]
==============================================================================
