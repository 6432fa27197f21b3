------------------------------ MODULE Relevance ------------------------------
(***************************************************************************)
(* How much a text is about the business of a campaign                     *)
(* (internal/relevance.py), in ten-thousandths.                            *)
(*                                                                         *)
(* A text is what the rules see of it: the signals whose terms it          *)
(* contains, its traits, its characters, words and distinct words.         *)
(***************************************************************************)
EXTENDS Integers, FiniteSets

\* BRAND_TERMS, LOGISTICS_TERMS, COMPETITOR_TERMS; the terms of the record:
\* brand, entity, matched and content keywords, domain code.
TermKinds == {"brand", "logistics", "competitor", "domain"}

\* COD_LOGISTICS_CONTEXT_TERMS, COD_GAMING_MARKERS, GENERIC_SHORT_TERMS,
\* OFFTOPIC_FOREIGN_MARKERS.  The word cod is a term of logistics as well as
\* the name of a game; "codm" is a word that begins so.
Traits == {"cod", "codm", "delivery", "gaming", "generic", "marker", "foreign_words",
           "vietnamese"}

\* build_context_summary: title, subtitle, crawl keyword and what is known of
\* the parent, each with the signals it contains.
ContextSays(parts) == UNION parts

\* _is_generic_short, _looks_offtopic_foreign, _looks_cod_gaming
GenericShort(t) == \/ t.length = 0
                   \/ t.words <= 4
                   \/ t.length < 45 /\ "generic" \in t.traits
Foreign(t) == \/ "marker" \in t.traits
              \/ "foreign_words" \in t.traits /\ "vietnamese" \notin t.traits
CodGaming(t) == /\ {"cod", "codm"} \cap t.traits # {}
                /\ "delivery" \notin t.traits
                /\ "gaming" \in t.traits \/ "vietnamese" \notin t.traits

ActionIntents == {"COMPLAINT", "CRISIS", "SUPPORT", "LEAD"}
Risky == {"MEDIUM", "HIGH", "CRITICAL"}

Points(condition, n) == IF condition THEN n ELSE 0
Capped(condition, cap, n) == IF condition /\ n > cap THEN cap ELSE n

\* says: signals of the text; around: those of its context.
BrandPoints(says, around) ==
    IF "brand" \in says THEN 5000 ELSE Points("brand" \in around, 2200)
LogisticsPoints(says, around) ==
    IF "logistics" \in says THEN 2800 ELSE Points("logistics" \in around, 1000)
\* Mutant: a competitor the text names counts only next to logistics.
CompetitorPointsNested(says, around) ==
    IF "competitor" \in says
    THEN Points("logistics" \in (says \cup around), 1600)
    ELSE Points("competitor" \in around /\ "brand" \in around, 600)

CompetitorPoints(says, around) ==
    IF "competitor" \in says /\ ({"logistics"} \cap (says \cup around) # {} \/ "brand" \in around)
    THEN 1600
    ELSE Points("competitor" \in around /\ "brand" \in around, 600)

\* Mutant: the former weight of a domain term around the text.
DomainPointsBefore(says, around) ==
    IF "domain" \in says THEN 4600 ELSE Points("domain" \in around, 4000)

DomainPoints(says, around) ==
    IF "domain" \in says THEN 4600 ELSE Points("domain" \in around, 1800)

\* verdict: what the analysis made of the text so far.
VerdictPoints(says, around, verdict) ==
    LET own == "brand" \in says \/ "logistics" \in says
    IN  Points(verdict.intent \in ActionIntents, 1000)
          + Points(verdict.risk \in Risky /\ own, 800)
          + Points(verdict.label = "NEGATIVE" /\ (own \/ "competitor" \in says), 500)
          + IF verdict.aspects /\ (own \/ "brand" \in around) THEN 800
            ELSE Points(verdict.aspects /\ "domain" \in (says \cup around), 600)

Gathered(t, around, verdict) ==
    BrandPoints(t.says, around) + LogisticsPoints(t.says, around)
      + CompetitorPoints(t.says, around) + DomainPoints(t.says, around)
      + VerdictPoints(t.says, around, verdict)
      + Points(t.length >= 80 /\ t.says \cap {"brand", "logistics", "domain"} # {}, 600)

\* What a text that names nothing itself can get at most.
CappedPoints(t, type, around, n) ==
    LET silent == t.says = {}
        comment == IF type # "comment" \/ ~silent THEN n
                   ELSE IF around # {} /\ t.length >= 20
                   THEN Capped(TRUE, 4800, n) ELSE Capped(TRUE, 1800, n)
    IN  Capped(silent /\ Foreign(t), 1200,
               Capped(silent /\ GenericShort(t), 1600, comment))

\* calculate_business_relevance; bare: neither text nor context.
BusinessRelevance(t, type, around, bare, verdict) ==
    IF CodGaming(t) /\ "brand" \notin t.says THEN 800
    ELSE IF bare THEN 0
    ELSE Capped(TRUE, 10000, CappedPoints(t, type, around, Gathered(t, around, verdict)))
==============================================================================
