------------------------------ MODULE Registry -------------------------------
(***************************************************************************)
(* The ontology of a project as the enrichers see it                       *)
(* (internal/ontology/usecase): a domain file with entities, aspects,      *)
(* issues and topics, and the rules a project adds to it.                  *)
(*                                                                         *)
(* A text is a sequence of words, a phrase is one too; what the patterns   *)
(* make of characters (case, accents, word boundaries) is left out.        *)
(***************************************************************************)
EXTENDS Normalization

CONSTANT Words   \* the words of each text

IsSequence(s) == s \in Seq(Range(s))
ASSUME RegistryAssumption == \A t \in DOMAIN Words : IsSequence(Words[t])

Kinds == {"ASPECT", "ISSUE", "TOPIC"}

\* entities, aspects, issues, topics: in the order of the file.
\* An entity has an id, aliases (its name first) and active, for scans;
\* a category an id, a name and phrases; a rule a kind, the target whose
\* signal it is, a name, a mode, phrases in order and negative phrases.
CategoriesType(cs) ==
    /\ IsSequence(cs)
    /\ \A c \in Range(cs) : /\ DOMAIN c = {"id", "name", "phrases"}
                             /\ IsFiniteSet(c.phrases)
                             /\ \A ph \in c.phrases : IsSequence(ph)

OntologyType(o) ==
    /\ IsSequence(o.entities)
    /\ \A e \in Range(o.entities) : /\ IsSequence(e.aliases) /\ e.aliases # <<>>
                                   /\ e.active \in BOOLEAN
    /\ \A cs \in {o.aspects, o.issues, o.topics} : CategoriesType(cs)
    /\ IsSequence(o.rules)
    /\ \A r \in Range(o.rules) : /\ r.kind \in Kinds /\ r.mode \in {"ANY", "ALL"}
                                /\ IsSequence(r.phrases)
                                /\ \A ph \in Range(r.phrases) : IsSequence(ph)

NoOntology == [entities |-> <<>>, aspects |-> <<>>, issues |-> <<>>,
               topics |-> <<>>, rules |-> <<>>]

-----------------------------------------------------------------------------
\* Where a phrase occurs in words.
Spans(words, phrase) ==
    {p \in 1 .. Len(words) - Len(phrase) + 1 :
        SubSeq(words, p, p + Len(phrase) - 1) = phrase}

Says(words, phrase) == Spans(words, phrase) # {}

\* for_kind
RulesFor(ontology, kind) ==
    At(ontology.rules, {i \in DOMAIN ontology.rules : ontology.rules[i].kind = kind})

\* What a rule finds: nothing next to a negative phrase, the first of its
\* phrases that is there, or in mode ALL every one or nothing.
Evidence(rule, words) ==
    LET hits == {i \in DOMAIN rule.phrases : Says(words, rule.phrases[i])}
        kept == IF rule.mode = "ALL"
                THEN {i \in hits : hits = DOMAIN rule.phrases}
                ELSE {i \in hits : \A j \in hits : i <= j}
    IN  IF \E ph \in rule.negative : Says(words, ph)
        THEN {}
        ELSE {[phrase |-> rule.phrases[i], at |-> Min(Spans(words, rule.phrases[i]))] : i \in kept}

\* _merge_user_phrase_rules: the phrases of a rule join those of its target,
\* whatever its mode and its negative phrases; a new target comes last.
Merged(categories, rules) ==
    LET given(id) == UNION {Range(r.phrases) : r \in {x \in Range(rules) : x.target = id}}
        new(i) == /\ rules[i].phrases # <<>>
                  /\ rules[i].target \notin {c.id : c \in Range(categories)}
                  /\ \A j \in 1 .. i - 1 :
                        rules[j].phrases = <<>> \/ rules[j].target # rules[i].target
        added == At(rules, {i \in DOMAIN rules : new(i)})
    IN  [i \in DOMAIN categories |->
            [categories[i] EXCEPT !.phrases = @ \cup given(categories[i].id)]]
          \o [k \in DOMAIN added |-> [id |-> added[k].target, name |-> added[k].target,
                                      phrases |-> given(added[k].target)]]

\* aspect_seed_phrases, issue_seed_phrases, topic_seed_phrases
Seeds(ontology, kind) ==
    Merged(CASE kind = "ASPECT" -> ontology.aspects
             [] kind = "ISSUE"  -> ontology.issues
             [] kind = "TOPIC"  -> ontology.topics,
           RulesFor(ontology, kind))

\* alias_map: each alias leads to the last entity that has it, and keeps the
\* place of the first.
AliasMap(ontology) ==
    LET has(alias) == {i \in DOMAIN ontology.entities :
                          alias \in Range(ontology.entities[i].aliases)}
        all == UNION {Range(e.aliases) : e \in Range(ontology.entities)}
    IN  [alias \in all |-> ontology.entities[Max(has(alias))]]

\* The place of an alias in the file.
Earlier(a, alias, ontology) ==
    LET aliases(i) == ontology.entities[i].aliases
        first(x) == Min({i \in DOMAIN ontology.entities : x \in Range(aliases(i))})
        place(x) == Min({k \in DOMAIN aliases(first(x)) : aliases(first(x))[k] = x})
    IN  \/ first(a) < first(alias)
        \/ first(a) = first(alias) /\ place(a) < place(alias)

AliasOrder(ontology) ==
    LET all == DOMAIN AliasMap(ontology)
        before(alias) == {a \in all : Earlier(a, alias, ontology)}
    IN  [n \in 1 .. Cardinality(all) |->
            CHOOSE alias \in all : Cardinality(before(alias)) = n - 1]

-----------------------------------------------------------------------------
\* Counter.most_common(n): by count, then by first occurrence.
MostCommon(words, n) ==
    LET count(w) == Len(SelectSeq(words, LAMBDA x : x = w))
        first(w) == Min({i \in DOMAIN words : words[i] = w})
        before(w) == {x \in Range(words) : \/ count(x) > count(w)
                                           \/ count(x) = count(w) /\ first(x) < first(w)}
        size == Min({n, Cardinality(Range(words))})
    IN  [k \in 1 .. size |-> CHOOSE w \in Range(words) : Cardinality(before(w)) = k - 1]
==============================================================================
