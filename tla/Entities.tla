------------------------------ MODULE Entities -------------------------------
(***************************************************************************)
(* SimplifiedEntityEnricher (internal/enrichment/usecase/entity_enricher): *)
(* the names in each mention, looked up in the ontology's aliases, and the *)
(* unknown names that several mentions of a batch share.                   *)
(***************************************************************************)
EXTENDS Registry

CONSTANTS Surfaces,      \* words that look like a name: handle, tag, capitals
          MaxCandidates  \* candidates kept of a mention

ASSUME EntitiesAssumption == MaxCandidates \in Nat

Unresolved == "unresolved"

\* prepare, _extract_raw_candidates: distinct names, the first few of them.
Candidates(words) ==
    LET new == {i \in DOMAIN words : /\ words[i] \in Surfaces
                                     /\ \A j \in 1 .. i - 1 : words[j] # words[i]}
    IN  At(words, {i \in new : Cardinality({j \in new : j <= i}) <= MaxCandidates})

Resolved(id, surface, entity) ==
    [mention |-> id, surface |-> surface, entity |-> entity, cluster |-> 0]

\* A candidate that is an alias names its entity, once; another alias of the
\* same entity is kept as an unresolved name.
FromCandidates(id, words, ontology) ==
    LET aliases == AliasMap(ontology)
        some == Candidates(words)
        known(n) == <<some[n]>> \in DOMAIN aliases
        entity(n) == aliases[<<some[n]>>].id
        names(n) == known(n) /\ \A k \in 1 .. n - 1 : known(k) => entity(k) # entity(n)
    IN  [n \in DOMAIN some |->
            Resolved(id, <<some[n]>>, IF names(n) THEN entity(n) ELSE Unresolved)]

\* _ontology_scan: entities of the text that no candidate named.
FromScan(id, words, ontology, facts) ==
    LET aliases == AliasMap(ontology)
        order == AliasOrder(ontology)
        entity(n) == aliases[order[n]].id
        said(n) == /\ aliases[order[n]].active
                   /\ Says(words, order[n])
                   /\ entity(n) \notin {f.entity : f \in Range(facts)}
        found == At(order, {n \in DOMAIN order :
                              said(n) /\ \A k \in 1 .. n - 1 : said(k) => entity(k) # entity(n)})
    IN  [n \in DOMAIN found |->
            Resolved(id, Head(aliases[found[n]].aliases), aliases[found[n]].id)]

EntityFactsOf(m, ontology) ==
    LET words == Words[m.text]
        named == FromCandidates(m.id, words, ontology)
    IN  named \o FromScan(m.id, words, ontology, named)

\* annotate_batch_local_candidates: a name no entity has, by who says it.
WithClusters(facts) ==
    LET size(s) == Len(SelectSeq(facts, LAMBDA f : f.entity = Unresolved /\ f.surface = s))
    IN  [i \in DOMAIN facts |->
            IF facts[i].entity = Unresolved
            THEN [facts[i] EXCEPT !.cluster = size(facts[i].surface)]
            ELSE facts[i]]

EntityFacts(mentions, ontology) ==
    LET upTo[n \in 0 .. Len(mentions)] ==
            IF n = 0 THEN <<>> ELSE upTo[n - 1] \o EntityFactsOf(mentions[n], ontology)
    IN  WithClusters(upTo[Len(mentions)])

\* Names with a cluster of their own: two facts, not two mentions, make one.
CandidateClusters(facts) ==
    {[surface |-> f.surface,
      mentions |-> {g.mention : g \in {x \in Range(facts) : /\ x.entity = Unresolved
                                                            /\ x.surface = f.surface}}] :
        f \in {x \in Range(facts) : x.entity = Unresolved /\ x.cluster > 1}}
==============================================================================
