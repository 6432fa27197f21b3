-------------------------------- MODULE Dedup --------------------------------
(***************************************************************************)
(* DeduplicationService (internal/dedup): mentions with the same text form *)
(* exact clusters; among the others, pairs that share a MinHash bucket, or *)
(* all pairs of a small batch, are joined when their shingles are similar. *)
(* Every mention then carries the size of its cluster, and 1/size weighs   *)
(* it from there on.                                                       *)
(*                                                                         *)
(* What is hashed comes as alike, the pairs {t, u} of texts with a Jaccard *)
(* similarity of at least near_similarity_threshold, and as bucket, the    *)
(* bucket of each text: one band stands for num_bands.                     *)
(***************************************************************************)
EXTENDS Normalization, FiniteSetsExt

CONSTANTS LongTexts,            \* texts of at least min_text_length
          BruteForceThreshold,  \* _BRUTE_FORCE_THRESHOLD
          MaxBucketSize         \* max_bucket_size

ASSUME DedupAssumption == BruteForceThreshold \in Nat /\ MaxBucketSize \in Nat

Holding(text, mentions) == At(mentions, {i \in DOMAIN mentions : mentions[i].text = text})

\* The ids of a cluster, and its size: a redelivered mention counts twice.
\* The order, that of the fingerprints, is some order of the texts.
ExactClusters(mentions) ==
    LET texts == {t \in LongTexts : Len(Holding(t, mentions)) >= 2}
        cluster(t) == [ids  |-> Ids(Holding(t, mentions)),
                       size |-> Len(Holding(t, mentions))]
        byText == SetToSeq(texts)
    IN  [i \in DOMAIN byText |-> cluster(byText[i])]

Members(clusters) == UNION {c.ids : c \in Range(clusters)}

\* Mutant: exact copies stay candidates.
AllCandidates(mentions, exact) ==
    At(mentions, {i \in DOMAIN mentions : mentions[i].text \in LongTexts})

NearCandidates(mentions, exact) ==
    At(mentions, {i \in DOMAIN mentions : /\ mentions[i].id \notin exact
                                          /\ mentions[i].text \in LongTexts})

\* The keys of the dict of signatures, in insertion order.
Signatures(candidates) ==
    LET new == {i \in DOMAIN candidates :
                   \A j \in 1 .. i - 1 : candidates[j].id # candidates[i].id}
        first == At(candidates, new)
    IN  [k \in DOMAIN first |-> first[k].id]

\* Pairs that share a bucket, bucket by bucket in insertion order, then all
\* pairs if the batch is small.
ComparedPairs(ids, text, bucket) ==
    LET with(i) == {j \in DOMAIN ids : bucket[text[ids[j]]] = bucket[text[ids[i]]]}
        first == {i \in DOMAIN ids : \A j \in with(i) : i <= j}
        pairs(i) == IF Cardinality(with(i)) > MaxBucketSize THEN <<>>
                    ELSE PairsOf(At(ids, with(i)))
    IN  FlattenSeq([k \in 1 .. Cardinality(first) |-> pairs(Nth(first, k))])
          \o (IF Len(ids) <= BruteForceThreshold THEN PairsOf(ids) ELSE <<>>)

NearClusters(mentions, exact, alike, bucket) ==
    LET candidates == NearCandidates(mentions, exact)
        ids == Signatures(candidates)
        text == [id \in Range(ids) |-> ById(candidates)[id].text]
        compared == ComparedPairs(ids, text, bucket)
        similar(x, y) == text[x] = text[y] \/ {text[x], text[y]} \in alike
        joined == At(compared, {k \in DOMAIN compared : similar(compared[k][1], compared[k][2])})
        groups == Trees(Unions([id \in Range(ids) |-> id], joined))
    IN  SetToSeq({[ids |-> g, size |-> Cardinality(g)] : g \in {h \in groups : Cardinality(h) >= 2}})

\* _annotation_map: of two clusters with a mention, the later one counts.
ClusterSize(clusters, id) ==
    LET i == SelectLastInSeq(clusters, LAMBDA c : id \in c.ids)
    IN  IF i = 0 THEN 1 ELSE clusters[i].size

Clusters(mentions, alike, bucket) ==
    LET exact == ExactClusters(mentions)
    IN  exact \o NearClusters(mentions, Members(exact), alike, bucket)

Annotate(mentions, clusters) ==
    [i \in DOMAIN mentions |->
        [mentions[i] EXCEPT !.copies = ClusterSize(clusters, mentions[i].id)]]
==============================================================================
