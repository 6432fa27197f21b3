-------------------------- MODULE KeywordExtraction --------------------------
(***************************************************************************)
(* The keywords of a text (internal/keyword_extraction, pkg/spacy_yake):   *)
(* terms of the aspect dictionary, and what YAKE and spaCy propose when    *)
(* there are few.  A keyword is a sequence of words; those with digits are *)
(* left out.                                                               *)
(***************************************************************************)
EXTENDS Registry

CONSTANTS Dictionary,     \* terms and aspects of the dictionary, in order
          Proposals,      \* of a text: statistical, entity and syntactic ones
          AiNoise,        \* AI_NOISE_TOKENS
          AiThreshold,    \* ai_threshold
          ProposalLimit,  \* SpacyYakeConfig.max_keywords
          MaxKeywords     \* max_keywords

ASSUME KeywordAssumption ==
    AiThreshold \in Nat /\ ProposalLimit \in Nat /\ MaxKeywords \in Nat

General == "GENERAL"
DictionaryScore == 100  \* SCORE_DICT_MATCH
EntityWeight == 150     \* entity_weight
ChunkWeight == 100      \* chunk_weight

\* build_lookup_map: a term listed again keeps its place, not its aspect.
Lookup ==
    LET put(map, entry) ==
            IF \E i \in DOMAIN map : map[i].term = entry.term
            THEN [i \in DOMAIN map |-> IF map[i].term = entry.term THEN entry ELSE map[i]]
            ELSE Append(map, entry)
    IN  FoldLeft(put, <<>>, Dictionary)

\* Sorted by score, best first, equal ones in their order.
ByScore(kws) ==
    LET scores == SetToSortSeq({kw.score : kw \in Range(kws)}, >)
    IN  FlattenSeq([n \in DOMAIN scores |-> SelectSeq(kws, LAMBDA kw : kw.score = scores[n])])
FirstOf(kws, limit) == [n \in DOMAIN kws \cap (1 .. limit) |-> kws[n]]

\* match_dictionary
FromEntries(hits) ==
    [n \in DOMAIN hits |-> [word |-> hits[n].term, aspect |-> hits[n].aspect,
                            score |-> DictionaryScore]]
DictionaryKeywords(words) == FromEntries(SelectSeq(Lookup, LAMBDA e : Says(words, e.term)))

\* SpacyYake.extract, _combine_keyword_sources: statistical ones bring a score.
Proposed(p) ==
    LET of(words, kind, score) ==
            [n \in DOMAIN words |-> [word |-> words[n], kind |-> kind, score |-> score]]
        statistical == [n \in DOMAIN p.statistical |->
                           [word |-> p.statistical[n].word, kind |-> "statistical",
                            score |-> p.statistical[n].score]]
    IN  FirstOf(ByScore(statistical \o of(p.entities, "entity", EntityWeight)
                                    \o of(p.chunks, "syntactic", ChunkWeight)),
                ProposalLimit)

\* fuzzy_map_aspect
FuzzyAspect(word, map) ==
    LET same == SelectSeq(map, LAMBDA e : e.term = word)
        near == SelectSeq(map, LAMBDA e : Says(word, e.term) \/ Says(e.term, word))
    IN  IF same # <<>> THEN Head(same).aspect
        ELSE IF near # <<>> THEN Head(near).aspect ELSE General

\* should_keep_ai_keyword
WorthKeeping(word, aspect, terms) ==
    /\ aspect # General
    /\ Len(word) >= 2
    /\ \A term \in terms \ {word} : ~Says(word, term)
    /\ Len(SelectSeq(word, LAMBDA w : w \notin AiNoise)) >= 2

\* extract_ai keeps the kinds "statistical" and "chunk" and those that begin
\* with "entity": noun chunks are of the kind "syntactic".
WithAspects(usable) ==
    [n \in DOMAIN usable |->
        [word |-> usable[n].word, aspect |-> FuzzyAspect(usable[n].word, Lookup),
         score |-> usable[n].score]]

AiKeywords(text, terms) ==
    LET usable == SelectSeq(FirstOf(Proposed(Proposals[text]), MaxKeywords),
                            LAMBDA p : p.word \notin terms /\ p.kind # "syntactic")
    IN  SelectSeq(WithAspects(usable), LAMBDA kw : WorthKeeping(kw.word, kw.aspect, terms))

\* process: few terms of the dictionary let the proposals in.
WithProposals(text, known) ==
    IF Len(known) >= AiThreshold THEN known
    ELSE known \o AiKeywords(text, {kw.word : kw \in Range(known)})

EachOnce(kws) ==
    LET add(kept, kw) == IF \E k \in Range(kept) : k.word = kw.word
                         THEN kept ELSE Append(kept, kw)
    IN  FoldLeft(add, <<>>, kws)

Extracted(text) ==
    FirstOf(ByScore(EachOnce(WithProposals(text, DictionaryKeywords(Words[text])))), MaxKeywords)
==============================================================================
