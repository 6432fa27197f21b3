---------------------------- MODULE PipelineProofs ---------------------------
(***************************************************************************)
(* What holds of every run of the pipeline, whatever its records, models   *)
(* and failures.  First the scores of one post, as functions of its text,  *)
(* context and counts; then the batch, where places are what matters; then *)
(* what this makes of the facts of a run; threads, bursts, and the digest. *)
(***************************************************************************)
EXTENDS Pipeline, FiniteSetTheorems, TLAPS

TextType(t) ==
    t \in [says : SUBSET TermKinds, traits : SUBSET (Traits \cup Intentions \cup Cries),
           length : Nat, words : Nat, distinct : Nat]

\* A text without characters has no traits.
EmptyIsBare(t, bare) == bare => t.traits = {}

VerdictType(v) == v.aspects \in BOOLEAN

\* Nothing said in addition.
Nothing == [says |-> {}, traits |-> {}]

(* A text that says more is a text that differs in its terms and traits.   *)
LEMMA SayingType ==
    ASSUME NEW t, TextType(t), NEW also \in Wordings
    PROVE  LET u == Saying(t, also)
           IN  /\ TextType(u)
               /\ u.says = t.says \cup also.says /\ u.traits = t.traits \cup also.traits
               /\ u.length = t.length /\ u.words = t.words /\ u.distinct = t.distinct
               /\ \A x : x \notin Brought => (x \in u.traits <=> x \in t.traits)
  <1>1. also.says \in SUBSET TermKinds /\ also.traits \in SUBSET Brought
    BY DEF Wordings
  <1>2. Brought \subseteq Traits
    BY DEF Brought, Traits
  <1>3. QED BY <1>1, <1>2 DEF TextType, Saying

(* To say nothing more is to say the same.                                 *)
LEMMA NothingMore ==
    /\ Nothing \in Wordings
    /\ \A t : TextType(t) => Saying(t, Nothing) = t
  <1>1. Nothing \in Wordings
    BY DEF Nothing, Wordings
  <1>2. ASSUME NEW t, TextType(t) PROVE Saying(t, Nothing) = t
    BY <1>2 DEF Nothing, Saying, TextType
  <1>3. QED BY <1>1, <1>2

-----------------------------------------------------------------------------
(* Each of the signals is worth at least as much next to more of them.     *)
(* [relevance.py:230-262]                                                  *)
LEMMA SignalsGrow ==
    ASSUME NEW says \in SUBSET TermKinds, NEW more \in SUBSET TermKinds, says \subseteq more,
           NEW around \in SUBSET TermKinds
    PROVE  /\ 0 <= BrandPoints(says, around)
           /\ BrandPoints(says, around) <= BrandPoints(more, around)
           /\ BrandPoints(more, around) \in Int
           /\ 0 <= LogisticsPoints(says, around)
           /\ LogisticsPoints(says, around) <= LogisticsPoints(more, around)
           /\ LogisticsPoints(more, around) \in Int
           /\ 0 <= CompetitorPoints(says, around)
           /\ CompetitorPoints(says, around) <= CompetitorPoints(more, around)
           /\ CompetitorPoints(more, around) \in Int
           /\ 0 <= DomainPoints(says, around)
           /\ DomainPoints(says, around) <= DomainPoints(more, around)
           /\ DomainPoints(more, around) \in Int
  <1>1. /\ 0 <= BrandPoints(says, around)
        /\ BrandPoints(says, around) <= BrandPoints(more, around)
        /\ BrandPoints(more, around) \in Int
    BY DEF BrandPoints, Points
  <1>2. /\ 0 <= LogisticsPoints(says, around)
        /\ LogisticsPoints(says, around) <= LogisticsPoints(more, around)
        /\ LogisticsPoints(more, around) \in Int
    BY DEF LogisticsPoints, Points
  <1>3. /\ 0 <= CompetitorPoints(says, around)
        /\ CompetitorPoints(says, around) <= CompetitorPoints(more, around)
        /\ CompetitorPoints(more, around) \in Int
    <2>1. CASE "competitor" \in says
      <3>1. {"logistics"} \cap (says \cup around) # {}
                => {"logistics"} \cap (more \cup around) # {}
        OBVIOUS
      <3>2. "competitor" \in more
        BY <2>1
      <3>3. QED BY <2>1, <3>1, <3>2 DEF CompetitorPoints, Points
    <2>2. CASE "competitor" \notin says
      BY <2>2 DEF CompetitorPoints, Points
    <2>3. QED BY <2>1, <2>2
  <1>4. /\ 0 <= DomainPoints(says, around)
        /\ DomainPoints(says, around) <= DomainPoints(more, around)
        /\ DomainPoints(more, around) \in Int
    BY DEF DomainPoints, Points
  <1>5. QED BY <1>1, <1>2, <1>3, <1>4

(* So is what the analysis found.  [relevance.py:264-293]                  *)
LEMMA VerdictGrows ==
    ASSUME NEW says \in SUBSET TermKinds, NEW more \in SUBSET TermKinds, says \subseteq more,
           NEW around \in SUBSET TermKinds, NEW v, VerdictType(v)
    PROVE  /\ 0 <= VerdictPoints(says, around, v)
           /\ VerdictPoints(says, around, v) <= VerdictPoints(more, around, v)
           /\ VerdictPoints(more, around, v) \in Int
  <1> DEFINE Own(s) == "brand" \in s \/ "logistics" \in s
             Risk(s) == Points(v.risk \in Risky /\ Own(s), 800)
             Complaint(s) == Points(v.label = "NEGATIVE" /\ (Own(s) \/ "competitor" \in s), 500)
             Aspect(s) == IF v.aspects /\ (Own(s) \/ "brand" \in around) THEN 800
                          ELSE Points(v.aspects /\ "domain" \in (s \cup around), 600)
             Acts == Points(v.intent \in ActionIntents, 1000)
  <1>1. Own(says) => Own(more)
    OBVIOUS
  <1>2. 0 <= Acts /\ Acts \in Int
    BY DEF Points
  <1>3. 0 <= Risk(says) /\ Risk(says) <= Risk(more) /\ Risk(more) \in Int /\ Risk(says) \in Int
    BY <1>1 DEF Points
  <1>4. /\ 0 <= Complaint(says) /\ Complaint(says) <= Complaint(more)
        /\ Complaint(more) \in Int /\ Complaint(says) \in Int
    BY <1>1 DEF Points
  <1>5. /\ 0 <= Aspect(says) /\ Aspect(says) <= Aspect(more)
        /\ Aspect(more) \in Int /\ Aspect(says) \in Int
    BY <1>1 DEF Points
  <1>6. \A s : VerdictPoints(s, around, v) = Acts + Risk(s) + Complaint(s) + Aspect(s)
    BY DEF VerdictPoints
  <1> HIDE DEF Own, Risk, Complaint, Aspect, Acts
  <1>7. QED BY <1>2, <1>3, <1>4, <1>5, <1>6

(* So is all of it together.  [relevance.py:230-297]                       *)
LEMMA GatheredGrows ==
    ASSUME NEW t, TextType(t), NEW also \in Wordings,
           NEW around \in SUBSET TermKinds, NEW v, VerdictType(v)
    PROVE  /\ 0 <= Gathered(t, around, v)
           /\ Gathered(t, around, v) <= Gathered(Saying(t, also), around, v)
           /\ Gathered(t, around, v) \in Int
           /\ Gathered(Saying(t, also), around, v) \in Int
  <1> DEFINE u == Saying(t, also)
             Long(x) == Points(x.length >= 80
                                 /\ x.says \cap {"brand", "logistics", "domain"} # {}, 600)
             FourSignals(s) ==
                 BrandPoints(s, around) + LogisticsPoints(s, around)
                   + CompetitorPoints(s, around) + DomainPoints(s, around)
  <1>1. /\ t.says \in SUBSET TermKinds /\ t.says \subseteq u.says
        /\ u.says \in SUBSET TermKinds /\ u.length = t.length /\ t.length \in Nat
    BY SayingType DEF TextType
  <1>2. /\ 0 <= Long(t) /\ Long(t) <= Long(u) /\ Long(t) \in Int /\ Long(u) \in Int
    <2>1. t.says \cap {"brand", "logistics", "domain"} # {}
              => u.says \cap {"brand", "logistics", "domain"} # {}
      BY <1>1
    <2>2. QED BY <1>1, <2>1 DEF Points
  <1>3. \A s \in SUBSET TermKinds :
            /\ BrandPoints(s, around) \in Int /\ LogisticsPoints(s, around) \in Int
            /\ CompetitorPoints(s, around) \in Int /\ DomainPoints(s, around) \in Int
            /\ VerdictPoints(s, around, v) \in Int
    BY SignalsGrow, VerdictGrows
  <1>4. 0 <= FourSignals(t.says) /\ FourSignals(t.says) <= FourSignals(u.says)
    BY <1>1, <1>3, SignalsGrow
  <1>5. FourSignals(t.says) \in Int /\ FourSignals(u.says) \in Int
    BY <1>1, <1>3
  <1>6. /\ 0 <= VerdictPoints(t.says, around, v)
        /\ VerdictPoints(t.says, around, v) <= VerdictPoints(u.says, around, v)
    BY <1>1, VerdictGrows
  <1>7. /\ Gathered(t, around, v) = FourSignals(t.says) + VerdictPoints(t.says, around, v) + Long(t)
        /\ Gathered(u, around, v) = FourSignals(u.says) + VerdictPoints(u.says, around, v) + Long(u)
    BY DEF Gathered
  <1> HIDE DEF u, Long, FourSignals
  <1>8. QED BY <1>1, <1>2, <1>3, <1>4, <1>5, <1>6, <1>7 DEF u

(* Caps only bind texts that say nothing.  [relevance.py:299-321]          *)
LEMMA CapsGrow ==
    ASSUME NEW t, TextType(t), NEW also \in Wordings,
           NEW around \in SUBSET TermKinds, NEW type,
           NEW n \in Int, NEW m \in Int, n <= m, 0 <= n
    PROVE  /\ 0 <= CappedPoints(t, type, around, n)
           /\ CappedPoints(t, type, around, n) <= n
           /\ CappedPoints(t, type, around, n) \in Int
           /\ CappedPoints(Saying(t, also), type, around, m) \in Int
           /\ CappedPoints(t, type, around, n) <= CappedPoints(Saying(t, also), type, around, m)
  <1> DEFINE u == Saying(t, also)
  <1>2. /\ (GenericShort(u) <=> GenericShort(t)) /\ (Foreign(u) => Foreign(t))
        /\ u.length = t.length /\ t.says \subseteq u.says
    <2>1. /\ u.length = t.length /\ u.words = t.words
          /\ t.says \subseteq u.says /\ t.traits \subseteq u.traits
          /\ \A x : x \notin Brought => (x \in u.traits <=> x \in t.traits)
      BY SayingType
    <2>2. "generic" \notin Brought /\ "marker" \notin Brought /\ "foreign_words" \notin Brought
      BY DEF Brought
    <2> HIDE DEF u
    <2>3. QED BY <2>1, <2>2 DEF GenericShort, Foreign
  <1> DEFINE Comment(x, k) == IF type # "comment" \/ x.says # {} THEN k
                              ELSE IF around # {} /\ x.length >= 20
                              THEN Capped(TRUE, 4800, k) ELSE Capped(TRUE, 1800, k)
             Short(x, k) == Capped(x.says = {} /\ GenericShort(x), 1600, Comment(x, k))
  <1>3. \A x, k : CappedPoints(x, type, around, k)
                      = Capped(x.says = {} /\ Foreign(x), 1200, Short(x, k))
    BY DEF CappedPoints
  <1>4. /\ 0 <= Comment(t, n) /\ Comment(t, n) <= n /\ Comment(t, n) \in Int
        /\ Comment(u, m) \in Int
    BY DEF Capped
  <1>5. /\ 0 <= Short(t, n) /\ Short(t, n) <= n /\ Short(t, n) \in Int /\ Short(u, m) \in Int
    <2> HIDE DEF Comment
    <2>1. QED BY <1>4 DEF Capped
  <1>6. /\ 0 <= CappedPoints(t, type, around, n)
        /\ CappedPoints(t, type, around, n) <= n
        /\ CappedPoints(t, type, around, n) \in Int
        /\ CappedPoints(u, type, around, m) \in Int
    <2> HIDE DEF Short
    <2>1. QED BY <1>3, <1>5 DEF Capped
  <1>7. CASE u.says # {}
    <2>1. CappedPoints(u, type, around, m) = m
      BY <1>7 DEF CappedPoints, Capped
    <2>2. QED BY <1>6, <2>1
  <1>8. CASE u.says = {}
    <2>1. CappedPoints(t, type, around, m) <= CappedPoints(u, type, around, m)
      <3>1. t.says = {}
        BY <1>2, <1>8
      <3>2. Comment(u, m) = Comment(t, m)
        <4> HIDE DEF u
        <4>1. QED BY <1>2, <1>8, <3>1
      <3>3. Short(u, m) = Short(t, m)
        <4> HIDE DEF u, Comment
        <4>1. QED BY <1>2, <1>8, <3>1, <3>2
      <3> HIDE DEF u, Short
      <3>4. QED BY <1>2, <1>3, <1>5, <1>8, <3>1, <3>3 DEF Capped
    <2>2. Comment(t, n) <= Comment(t, m) /\ Comment(t, m) \in Int
      <3>1. CASE type # "comment" \/ t.says # {}
        BY <3>1
      <3>2. CASE ~(type # "comment" \/ t.says # {}) /\ around # {} /\ t.length >= 20
        BY <3>2 DEF Capped
      <3>3. CASE ~(type # "comment" \/ t.says # {}) /\ ~(around # {} /\ t.length >= 20)
        BY <3>3 DEF Capped
      <3> HIDE DEF Comment
      <3>4. QED BY <3>1, <3>2, <3>3
    <2>3. Short(t, n) <= Short(t, m) /\ Short(t, m) \in Int
      <3> HIDE DEF Comment
      <3>1. QED BY <1>4, <2>2 DEF Capped
    <2>4. CappedPoints(t, type, around, n) <= CappedPoints(t, type, around, m)
      <3> HIDE DEF Short
      <3>1. QED BY <1>3, <1>5, <2>3 DEF Capped
    <2>5. CappedPoints(t, type, around, m) \in Int
      <3> HIDE DEF Short
      <3>1. QED BY <1>3, <2>3 DEF Capped
    <2>6. QED BY <1>6, <2>1, <2>4, <2>5
  <1>9. QED BY <1>6, <1>7, <1>8

Topped(x) == IF x > 10000 THEN 10000 ELSE x

(* The relevance of a text is one of three values.                         *)
LEMMA RelevanceOfText ==
    ASSUME NEW type, NEW around, NEW bare \in BOOLEAN, NEW v
    PROVE  \A x : LET r == BusinessRelevance(x, type, around, bare, v)
                      k == CappedPoints(x, type, around, Gathered(x, around, v))
                  IN  /\ TakenForGame(x) => r = 800
                      /\ ~TakenForGame(x) /\ bare => r = 0
                      /\ ~TakenForGame(x) /\ ~bare => r = Topped(k)
  <1> TAKE x
  <1> DEFINE k == CappedPoints(x, type, around, Gathered(x, around, v))
  <1>1. TakenForGame(x) => BusinessRelevance(x, type, around, bare, v) = 800
    BY DEF BusinessRelevance, TakenForGame
  <1>2. ~TakenForGame(x) /\ bare => BusinessRelevance(x, type, around, bare, v) = 0
    BY DEF BusinessRelevance, TakenForGame
  <1>3. ASSUME ~TakenForGame(x), ~bare
        PROVE  BusinessRelevance(x, type, around, bare, v) = Topped(k)
    <2>1. ~(CodGaming(x) /\ "brand" \notin x.says)
      BY <1>3 DEF TakenForGame
    <2>2. BusinessRelevance(x, type, around, bare, v) = IF k > 10000 THEN 10000 ELSE k
      BY <1>3, <2>1 DEF BusinessRelevance, Capped
    <2>3. QED BY <2>2 DEF Topped
  <1>4. QED BY <1>1, <1>2, <1>3

(***************************************************************************)
(* A text that names more of the business is never less relevant: no bonus *)
(* or cap of calculate_business_relevance works against it, whatever the   *)
(* traits that come with the words, its context and what the analysis made *)
(* of it.  The branch for a game does: the word cod alone may turn a text  *)
(* into one, which is what SameMatter leaves out unless the brand is named.*)
(***************************************************************************)
THEOREM MoreSaidCountsMore ==
    ASSUME NEW t, TextType(t), NEW also \in Wordings,
           NEW around \in SUBSET TermKinds, NEW v, VerdictType(v),
           NEW type, NEW bare \in BOOLEAN, EmptyIsBare(t, bare), SameMatter(t, also)
    PROVE  BusinessRelevance(t, type, around, bare, v)
               <= BusinessRelevance(Saying(t, also), type, around, bare, v)
  <1> DEFINE u == Saying(t, also)
             n == Gathered(t, around, v)
             m == Gathered(u, around, v)
             a == CappedPoints(t, type, around, n)
             b == CappedPoints(u, type, around, m)
  <1>1. /\ t.says \subseteq u.says /\ u.says \in SUBSET TermKinds
        /\ u.says = t.says \cup also.says
    BY SayingType DEF TextType
  <1>2. n \in Int /\ m \in Int /\ 0 <= n /\ n <= m
    BY GatheredGrows
  <1>3. a \in Int /\ b \in Int /\ 0 <= a /\ a <= b
    <2> HIDE DEF n, m
    <2>1. \A x, y \in Int : x <= y /\ 0 <= x =>
              /\ 0 <= CappedPoints(t, type, around, x)
              /\ CappedPoints(t, type, around, x) \in Int
              /\ CappedPoints(u, type, around, y) \in Int
              /\ CappedPoints(t, type, around, x) <= CappedPoints(u, type, around, y)
      BY CapsGrow
    <2> HIDE DEF u
    <2>2. QED BY <1>2, <2>1
  <1>4. \A x : LET r == BusinessRelevance(x, type, around, bare, v)
                   k == CappedPoints(x, type, around, Gathered(x, around, v))
               IN  /\ TakenForGame(x) => r = 800
                   /\ ~TakenForGame(x) /\ bare => r = 0
                   /\ ~TakenForGame(x) /\ ~bare => r = Topped(k)
    BY RelevanceOfText
  <1>5. "brand" \in u.says => 5000 <= b
    <2> SUFFICES ASSUME "brand" \in u.says PROVE 5000 <= b
      OBVIOUS
    <2>1. b = m
      <3> HIDE DEF m, u
      <3>1. QED BY DEF CappedPoints, Capped
    <2>2. BrandPoints(u.says, around) = 5000
      <3> HIDE DEF u
      <3>1. QED BY DEF BrandPoints
    <2>3. /\ LogisticsPoints(u.says, around) \in Int /\ 0 <= LogisticsPoints(u.says, around)
          /\ CompetitorPoints(u.says, around) \in Int /\ 0 <= CompetitorPoints(u.says, around)
          /\ DomainPoints(u.says, around) \in Int /\ 0 <= DomainPoints(u.says, around)
          /\ VerdictPoints(u.says, around, v) \in Int /\ 0 <= VerdictPoints(u.says, around, v)
      <3> HIDE DEF u
      <3>1. QED BY <1>1, SignalsGrow, VerdictGrows
    <2>4. 5000 <= m
      <3> HIDE DEF u
      <3>1. QED BY <2>2, <2>3 DEF Gathered, Points
    <2>5. QED BY <2>1, <2>4
  <1>6. bare => ~CodGaming(t)
    BY DEF EmptyIsBare, CodGaming
  <1>7. TakenForGame(u) => TakenForGame(t)
    <2> HIDE DEF u
    <2>1. QED BY <1>1 DEF TakenForGame, SameMatter, u
  <1>8. TakenForGame(t) => ~bare
    BY <1>6 DEF TakenForGame
  <1>9. /\ Topped(a) <= Topped(b)
        /\ "brand" \in u.says => 800 <= Topped(b)
    <2> HIDE DEF a, b
    <2>1. QED BY <1>3, <1>5 DEF Topped
  <1>10. TakenForGame(t) /\ ~TakenForGame(u) => "brand" \in u.says
    BY <1>1 DEF SameMatter
  <1>11. CASE bare
    <2>1. /\ BusinessRelevance(t, type, around, bare, v) = 0
          /\ BusinessRelevance(u, type, around, bare, v) = 0
      BY <1>4, <1>7, <1>8, <1>11
    <2>2. QED BY <2>1
  <1>12. CASE ~bare /\ TakenForGame(u)
    <2>1. /\ BusinessRelevance(t, type, around, bare, v) = 800
          /\ BusinessRelevance(u, type, around, bare, v) = 800
      BY <1>4, <1>7, <1>12
    <2>2. QED BY <2>1
  <1>13. CASE ~bare /\ ~TakenForGame(u) /\ TakenForGame(t)
    <2>1. /\ BusinessRelevance(t, type, around, bare, v) = 800
          /\ BusinessRelevance(u, type, around, bare, v) = Topped(b)
      BY <1>4, <1>13
    <2>2. QED BY <1>9, <1>10, <1>13, <2>1
  <1>14. CASE ~bare /\ ~TakenForGame(u) /\ ~TakenForGame(t)
    <2>1. /\ BusinessRelevance(t, type, around, bare, v) = Topped(a)
          /\ BusinessRelevance(u, type, around, bare, v) = Topped(b)
      BY <1>4, <1>14
    <2>2. QED BY <1>9, <2>1
  <1>15. QED BY <1>11, <1>12, <1>13, <1>14

(***************************************************************************)
(* A text that says nothing of the business stays below the gate of the    *)
(* index (0.45) while its context has one kind of term only, whatever the  *)
(* analysis made of it: the weights of what is found around a text leave   *)
(* room for every bonus.  [relevance.py:252, builder/constant.py]          *)
(***************************************************************************)
THEOREM LoneContextBelowGate ==
    ASSUME NEW t, TextType(t), t.says = {},
           NEW k \in TermKinds, NEW around \in SUBSET {k}, NEW v, VerdictType(v),
           NEW type, NEW bare \in BOOLEAN
    PROVE  BusinessRelevance(t, type, around, bare, v) < 4500
  <1> DEFINE n == Gathered(t, around, v)
             c == CappedPoints(t, type, around, n)
  <1>1. /\ BrandPoints({}, around) = IF "brand" \in around THEN 2200 ELSE 0
        /\ LogisticsPoints({}, around) = IF "logistics" \in around THEN 1000 ELSE 0
        /\ CompetitorPoints({}, around) = IF "competitor" \in around /\ "brand" \in around
                                          THEN 600 ELSE 0
        /\ DomainPoints({}, around) = IF "domain" \in around THEN 1800 ELSE 0
    BY DEF BrandPoints, LogisticsPoints, CompetitorPoints, DomainPoints, Points
  <1>2. BrandPoints({}, around) + LogisticsPoints({}, around)
          + CompetitorPoints({}, around) + DomainPoints({}, around)
            \in {0, 1000, 1800, 2200}
    <2>1. ~("competitor" \in around /\ "brand" \in around)
          /\ ~("domain" \in around /\ "brand" \in around)
          /\ ~("logistics" \in around /\ "brand" \in around)
          /\ ~("domain" \in around /\ "logistics" \in around)
      OBVIOUS
    <2>2. QED BY <1>1, <2>1
  <1>3. VerdictPoints({}, around, v) \in {0, 600, 800, 1000, 1600, 1800}
    <2> DEFINE own == "brand" \in {} \/ "logistics" \in {}
               aspect == IF v.aspects /\ (own \/ "brand" \in around) THEN 800
                         ELSE Points(v.aspects /\ "domain" \in ({} \cup around), 600)
    <2>1. Points(v.intent \in ActionIntents, 1000) \in {0, 1000}
      BY DEF Points
    <2>2. Points(v.risk \in Risky /\ own, 800) = 0
      BY DEF Points
    <2>3. Points(v.label = "NEGATIVE" /\ (own \/ "competitor" \in {}), 500) = 0
      BY DEF Points
    <2>4. aspect \in {0, 600, 800}
      BY DEF Points
    <2>5. VerdictPoints({}, around, v)
             = Points(v.intent \in ActionIntents, 1000) + Points(v.risk \in Risky /\ own, 800)
               + Points(v.label = "NEGATIVE" /\ (own \/ "competitor" \in {}), 500) + aspect
      BY DEF VerdictPoints
    <2> HIDE DEF own, aspect
    <2>6. QED BY <2>1, <2>2, <2>3, <2>4, <2>5
  <1>4. n \in Int /\ 0 <= n /\ n <= 4000
    <2>1. Points(t.length >= 80 /\ t.says \cap {"brand", "logistics", "domain"} # {}, 600) = 0
      BY DEF Points
    <2>2. n = BrandPoints({}, around) + LogisticsPoints({}, around)
                + CompetitorPoints({}, around) + DomainPoints({}, around)
                + VerdictPoints({}, around, v)
                + Points(t.length >= 80 /\ t.says \cap {"brand", "logistics", "domain"} # {}, 600)
      BY DEF Gathered
    <2> HIDE DEF n
    <2>3. QED BY <1>1, <1>2, <1>3, <2>1, <2>2
  <1>5. c <= 4000 /\ c \in Int
    <2> HIDE DEF n
    <2>1. \A x, y \in Int : x <= y /\ 0 <= x =>
              /\ CappedPoints(t, type, around, x) <= x
              /\ CappedPoints(t, type, around, x) \in Int
      BY CapsGrow, NothingMore, around \in SUBSET TermKinds
    <2>2. QED BY <1>4, <2>1
  <1>6. LET r == BusinessRelevance(t, type, around, bare, v)
        IN  /\ TakenForGame(t) => r = 800
            /\ ~TakenForGame(t) /\ bare => r = 0
            /\ ~TakenForGame(t) /\ ~bare => r = Topped(c)
    BY RelevanceOfText
  <1> HIDE DEF c
  <1>7. Topped(c) < 4500
    BY <1>5 DEF Topped
  <1>8. CASE TakenForGame(t)
    BY <1>6, <1>8
  <1>9. CASE ~TakenForGame(t) /\ bare
    <2>1. BusinessRelevance(t, type, around, bare, v) = 0
      BY ONLY <1>6, <1>9, Zenon
    <2>2. QED BY ONLY <2>1
  <1>10. CASE ~TakenForGame(t) /\ ~bare
    BY <1>6, <1>7, <1>10
  <1>11. QED BY <1>8, <1>9, <1>10

-----------------------------------------------------------------------------
CountsType(c) == c.likes \in Nat /\ c.comments \in Nat /\ c.shares \in Nat

(* The base of a risk is what sentiment and words of crisis add up to; the *)
(* model has no sentiment that adds the extreme.  [calculate_risk]         *)
LEMMA BaseValues ==
    ASSUME NEW label \in Labels, NEW alarm \in BOOLEAN
    PROVE  RiskBase(label, alarm) \in {0, 30, 40, 70}
  BY DEF Labels, RiskBase, ScoreOf

(* The level of a risk is the highest threshold it reaches.                *)
LEMMA LevelReached ==
    ASSUME NEW c, CountsType(c), NEW base \in {0, 30, 40, 70}
    PROVE  /\ Reaches(c, base, 80) => LevelOf(c, base) = "CRITICAL"
           /\ ~Reaches(c, base, 80) /\ Reaches(c, base, 60) => LevelOf(c, base) = "HIGH"
           /\ ~Reaches(c, base, 60) /\ Reaches(c, base, 30) => LevelOf(c, base) = "MEDIUM"
           /\ ~Reaches(c, base, 30) => LevelOf(c, base) = "LOW"
  <1> DEFINE P == Reaches(c, base, 80)
             Q == Reaches(c, base, 60)
             S == Reaches(c, base, 30)
  <1>1. (P => Q) /\ (Q => S)
    <2>1. Others(c) \in Nat /\ Boost(c, base) \in Nat
      BY DEF CountsType, Others, Boost
    <2>2. QED BY <2>1 DEF Reaches
  <1>2. LevelOf(c, base) = CASE P -> "CRITICAL" [] ~P /\ Q -> "HIGH"
                             [] ~Q /\ S -> "MEDIUM" [] OTHER -> "LOW"
    BY DEF LevelOf
  <1> HIDE DEF P, Q, S
  <1>3. /\ P => LevelOf(c, base) = "CRITICAL"
        /\ ~P /\ Q => LevelOf(c, base) = "HIGH"
        /\ ~Q /\ S => LevelOf(c, base) = "MEDIUM"
        /\ ~S => LevelOf(c, base) = "LOW"
    BY <1>1, <1>2
  <1>4. QED BY <1>3 DEF P, Q, S

(* The levels are ranked in the order of RiskLevels.                       *)
LEMMA RiskRanks ==
    /\ RiskRank("LOW") = 1 /\ RiskRank("MEDIUM") = 2
    /\ RiskRank("HIGH") = 3 /\ RiskRank("CRITICAL") = 4
  <1>1. DOMAIN RiskLevels = 1 .. 4 /\ RiskLevels[1] = "LOW" /\ RiskLevels[2] = "MEDIUM"
        /\ RiskLevels[3] = "HIGH" /\ RiskLevels[4] = "CRITICAL"
    BY DEF RiskLevels
  <1>2. \A k \in 1 .. 4 : k = 1 \/ k = 2 \/ k = 3 \/ k = 4
    OBVIOUS
  <1>3. \A k \in DOMAIN RiskLevels :
            /\ RiskLevels[k] = "LOW" <=> k = 1
            /\ RiskLevels[k] = "MEDIUM" <=> k = 2
            /\ RiskLevels[k] = "HIGH" <=> k = 3
            /\ RiskLevels[k] = "CRITICAL" <=> k = 4
    BY <1>1, <1>2
  <1>4. 1 \in DOMAIN RiskLevels /\ 2 \in DOMAIN RiskLevels
        /\ 3 \in DOMAIN RiskLevels /\ 4 \in DOMAIN RiskLevels
    BY <1>1
  <1>5. RiskRank("LOW") = 1
    BY <1>3, <1>4 DEF RiskRank
  <1>6. RiskRank("MEDIUM") = 2
    BY <1>3, <1>4 DEF RiskRank
  <1>7. RiskRank("HIGH") = 3
    BY <1>3, <1>4 DEF RiskRank
  <1>8. RiskRank("CRITICAL") = 4
    BY <1>3, <1>4 DEF RiskRank
  <1>9. QED BY <1>5, <1>6, <1>7, <1>8

(***************************************************************************)
(* Without shares no post is a critical risk, whatever is said in it.      *)
(* [impact_calculation/usecase/helpers.py:calculate_risk]                  *)
(***************************************************************************)
THEOREM CriticalNeedsShares ==
    ASSUME NEW c, CountsType(c), c.shares = 0, NEW label \in Labels, NEW alarm \in BOOLEAN
    PROVE  RiskLevel(c, label, alarm) # "CRITICAL"
  <1> DEFINE base == RiskBase(label, alarm)
  <1>1. Others(c) \in Nat /\ Others(c) >= 1 /\ Boost(c, base) = 0
    BY DEF CountsType, Others, Boost
  <1>2. base \in {0, 30, 40, 70}
    BY BaseValues
  <1>3. ~Reaches(c, base, 80)
    <2> HIDE DEF base
    <2>1. QED BY <1>1, <1>2 DEF Reaches
  <1>4. LevelOf(c, base) \in {"HIGH", "MEDIUM", "LOW"}
    <2> HIDE DEF base
    <2>1. QED BY <1>2, <1>3, LevelReached
  <1>5. RiskLevel(c, label, alarm) = LevelOf(c, base)
    BY Zenon DEF RiskLevel
  <1>6. QED BY <1>4, <1>5

(***************************************************************************)
(* More shares never make a post a lower risk, the threshold at which they *)
(* begin to count included.  [calculate_risk]                              *)
(***************************************************************************)
THEOREM SharesNeverCalm ==
    ASSUME NEW c, CountsType(c), NEW d, CountsType(d),
           c.likes = d.likes, c.comments = d.comments, c.shares <= d.shares,
           NEW label \in Labels, NEW alarm \in BOOLEAN
    PROVE  RiskRank(RiskLevel(c, label, alarm)) <= RiskRank(RiskLevel(d, label, alarm))
  <1> DEFINE base == RiskBase(label, alarm)
  <1>1. /\ Others(c) = Others(d) /\ Others(c) \in Nat
        /\ Boost(c, base) \in Nat /\ Boost(d, base) \in Nat
        /\ Boost(c, base) <= Boost(d, base)
    BY DEF CountsType, Others, Boost
  <1>2. base \in {0, 30, 40, 70}
    BY BaseValues
  <1>3. /\ Reaches(c, base, 80) => Reaches(d, base, 80)
        /\ Reaches(c, base, 60) => Reaches(d, base, 60)
        /\ Reaches(c, base, 30) => Reaches(d, base, 30)
    <2> HIDE DEF base
    <2>1. QED BY <1>1, <1>2 DEF Reaches
  <1>4. \/ /\ Reaches(d, base, 80) /\ RiskRank(LevelOf(d, base)) = 4
        \/ /\ ~Reaches(d, base, 80) /\ Reaches(d, base, 60)
           /\ RiskRank(LevelOf(d, base)) = 3
        \/ /\ ~Reaches(d, base, 80) /\ ~Reaches(d, base, 60) /\ Reaches(d, base, 30)
           /\ RiskRank(LevelOf(d, base)) = 2
        \/ /\ ~Reaches(d, base, 80) /\ ~Reaches(d, base, 60) /\ ~Reaches(d, base, 30)
           /\ RiskRank(LevelOf(d, base)) = 1
    <2> HIDE DEF base
    <2>1. QED BY <1>2, LevelReached, RiskRanks
  <1>5. /\ RiskRank(LevelOf(c, base)) \in 1 .. 4
        /\ ~Reaches(c, base, 80) => RiskRank(LevelOf(c, base)) \in 1 .. 3
        /\ ~Reaches(c, base, 80) /\ ~Reaches(c, base, 60)
              => RiskRank(LevelOf(c, base)) \in 1 .. 2
        /\ ~Reaches(c, base, 80) /\ ~Reaches(c, base, 60) /\ ~Reaches(c, base, 30)
              => RiskRank(LevelOf(c, base)) = 1
    <2> HIDE DEF base
    <2>1. QED BY <1>2, LevelReached, RiskRanks
  <1>6. /\ RiskLevel(c, label, alarm) = LevelOf(c, base)
        /\ RiskLevel(d, label, alarm) = LevelOf(d, base)
    BY Zenon DEF RiskLevel
  <1>7. RiskRank(LevelOf(c, base)) <= RiskRank(LevelOf(d, base))
    <2> HIDE DEF base
    <2>1. QED BY <1>3, <1>4, <1>5
  <1>8. QED BY <1>6, <1>7

-----------------------------------------------------------------------------
\* Places of a sequence, and list comprehensions over them.

(* Taking what a sequence has at some places misses none, and keeps their  *)
(* order: the n-th of finitely many places is the one that n of them reach *)
(* up to.                                                                  *)
LEMMA PlacesInOrder ==
    ASSUME NEW S \in SUBSET Nat, IsFiniteSet(S)
    PROVE  /\ Cardinality(S) \in Nat
           /\ \A n \in 1 .. Cardinality(S) : Nth(S, n) \in S
           /\ \A i \in S : \E n \in 1 .. Cardinality(S) : Nth(S, n) = i
           /\ \A m, n \in 1 .. Cardinality(S) : m < n => Nth(S, m) < Nth(S, n)
           /\ \A n \in 1 .. Cardinality(S) : Cardinality({j \in S : j <= Nth(S, n)}) = n
  <1> DEFINE Upto(i) == {j \in S : j <= i}
             N == Cardinality(S)
             rank == [i \in S |-> Cardinality(Upto(i))]
  <1>1. N \in Nat
    BY FS_CardinalityType
  <1>2. ASSUME NEW i \in S
        PROVE  IsFiniteSet(Upto(i)) /\ Cardinality(Upto(i)) \in 1 .. N
    <2>1. Upto(i) \in SUBSET S /\ i \in Upto(i)
      OBVIOUS
    <2> HIDE DEF Upto
    <2>2. IsFiniteSet(Upto(i)) /\ Cardinality(Upto(i)) <= N
      BY <2>1, FS_Subset
    <2>3. Cardinality(Upto(i)) \in Nat /\ Cardinality(Upto(i)) # 0
      BY <2>1, <2>2, FS_CardinalityType, FS_EmptySet
    <2>4. QED BY <1>1, <2>2, <2>3
  <1>3. ASSUME NEW i \in S, NEW k \in S, i < k
        PROVE  Cardinality(Upto(i)) < Cardinality(Upto(k))
    <2>1. Upto(i) \in SUBSET Upto(k) /\ k \in Upto(k) /\ k \notin Upto(i)
      <3>1. i \in Nat /\ k \in Nat /\ k <= k /\ ~(k <= i) /\ \A j \in S : j \in Nat
        BY <1>3
      <3>2. ASSUME NEW j \in S, j <= i PROVE j <= k
        BY <1>3, <3>1, <3>2
      <3>3. QED BY <3>1, <3>2
    <2>2. /\ IsFiniteSet(Upto(k))
          /\ Cardinality(Upto(k)) \in 1 .. N /\ Cardinality(Upto(i)) \in 1 .. N
      BY <1>2
    <2> HIDE DEF Upto, N
    <2>3. /\ Cardinality(Upto(i)) <= Cardinality(Upto(k))
          /\ Cardinality(Upto(i)) # Cardinality(Upto(k))
      BY <2>1, <2>2, FS_Subset
    <2>4. QED BY <1>1, <2>2, <2>3
  <1>4. \A i, k \in S : Cardinality(Upto(i)) = Cardinality(Upto(k)) => i = k
    <2> SUFFICES ASSUME NEW i \in S, NEW k \in S, i # k
                 PROVE  Cardinality(Upto(i)) # Cardinality(Upto(k))
      OBVIOUS
    <2>1. i < k \/ k < i
      OBVIOUS
    <2>2. Cardinality(Upto(i)) \in Nat /\ Cardinality(Upto(k)) \in Nat
      BY <1>1, <1>2
    <2> HIDE DEF Upto
    <2>3. QED BY <1>3, <2>1, <2>2
  <1>5. rank \in Injection(S, 1 .. N)
    <2>1. rank \in [S -> 1 .. N]
      BY <1>2
    <2>2. \A i, k \in S : rank[i] = rank[k] => i = k
      BY <1>4
    <2> HIDE DEF rank, N
    <2>3. QED BY <2>1, <2>2 DEF Injection, IsInjective
  <1>6. rank \in Surjection(S, 1 .. N)
    <2>1. IsFiniteSet(1 .. N) /\ Cardinality(1 .. N) = N
      BY <1>1, FS_Interval
    <2>2. N = Cardinality(S)
      OBVIOUS
    <2> HIDE DEF rank, N
    <2>3. QED BY <1>5, <2>1, <2>2, FS_Injection
  <1>7. ASSUME NEW n \in 1 .. N
        PROVE  Nth(S, n) \in S /\ Cardinality(Upto(Nth(S, n))) = n
    <2>1. PICK i \in S : rank[i] = n
      <3> HIDE DEF rank, N
      <3>1. QED BY <1>6, <1>7 DEF Surjection
    <2>2. Cardinality({j \in S : j <= i}) = n
      BY <2>1
    <2>3. QED BY <2>2 DEF Nth
  <1>8. ASSUME NEW i \in S PROVE \E n \in 1 .. N : Nth(S, n) = i
    <2> DEFINE n == Cardinality(Upto(i))
    <2>1. n \in 1 .. N
      BY <1>2
    <2>2. Nth(S, n) \in S /\ Cardinality(Upto(Nth(S, n))) = n
      <3> HIDE DEF Upto, n
      <3>1. QED BY <1>7, <2>1
    <2>3. Nth(S, n) = i
      <3>1. Cardinality(Upto(Nth(S, n))) = Cardinality(Upto(i))
        BY <2>2
      <3> HIDE DEF Upto, n
      <3>2. QED BY <1>4, <2>2, <3>1
    <2>4. QED BY <2>1, <2>3
  <1>9. ASSUME NEW m \in 1 .. N, NEW n \in 1 .. N, m < n
        PROVE  Nth(S, m) < Nth(S, n)
    <2>1. /\ Nth(S, m) \in S /\ Cardinality(Upto(Nth(S, m))) = m
          /\ Nth(S, n) \in S /\ Cardinality(Upto(Nth(S, n))) = n
      BY <1>7
    <2> HIDE DEF Upto
    <2>2. ~(Nth(S, n) < Nth(S, m))
      <3>1. SUFFICES ASSUME Nth(S, n) < Nth(S, m) PROVE FALSE
        OBVIOUS
      <3>2. Cardinality(Upto(Nth(S, n))) < Cardinality(Upto(Nth(S, m)))
        BY <1>3, <2>1, <3>1
      <3>3. n < m
        BY <2>1, <3>2
      <3>4. QED BY <1>1, <1>9, <3>3
    <2>3. Nth(S, m) # Nth(S, n)
      BY <1>9, <2>1
    <2>4. Nth(S, m) \in Nat /\ Nth(S, n) \in Nat
      BY <2>1
    <2>5. QED BY <2>2, <2>3, <2>4
  <1>10. QED BY <1>1, <1>7, <1>8, <1>9

\* The places of a sequence are finitely many numbers.
LEMMA PlacesFinite ==
    ASSUME NEW R, NEW s \in Seq(R), NEW S \in SUBSET (DOMAIN s)
    PROVE  S \in SUBSET Nat /\ IsFiniteSet(S)
  <1>1. DOMAIN s = 1 .. Len(s) /\ Len(s) \in Nat
    OBVIOUS
  <1>2. IsFiniteSet(1 .. Len(s))
    BY <1>1, FS_Interval
  <1>3. QED BY <1>1, <1>2, FS_Subset

(* A list comprehension keeps what it is asked for and nothing else.       *)
LEMMA AtPlaces ==
    ASSUME NEW R, NEW s \in Seq(R), NEW S \in SUBSET (DOMAIN s)
    PROVE  /\ At(s, S) \in Seq(R)
           /\ Len(At(s, S)) = Cardinality(S)
           /\ DOMAIN At(s, S) = 1 .. Cardinality(S)
           /\ \A n \in DOMAIN At(s, S) : Nth(S, n) \in S /\ At(s, S)[n] = s[Nth(S, n)]
           /\ \A i \in S : \E n \in DOMAIN At(s, S) : Nth(S, n) = i
  <1>1. S \in SUBSET Nat /\ IsFiniteSet(S)
    BY PlacesFinite
  <1>2. /\ Cardinality(S) \in Nat
        /\ \A n \in 1 .. Cardinality(S) : Nth(S, n) \in S
        /\ \A i \in S : \E n \in 1 .. Cardinality(S) : Nth(S, n) = i
    BY <1>1, PlacesInOrder
  <1>3. At(s, S) = [n \in 1 .. Cardinality(S) |-> s[Nth(S, n)]]
    BY DEF At
  <1>4. \A n \in 1 .. Cardinality(S) : s[Nth(S, n)] \in R
    BY <1>2
  <1>5. At(s, S) \in Seq(R) /\ Len(At(s, S)) = Cardinality(S)
    BY <1>2, <1>3, <1>4
  <1>6. QED BY <1>2, <1>3, <1>5

(* Places that are all shifted by as much are as many, in the same order.  *)
LEMMA ShiftedCount ==
    ASSUME NEW S \in SUBSET Nat, IsFiniteSet(S), NEW d \in Nat
    PROVE  IsFiniteSet({d + k : k \in S}) /\ Cardinality({d + k : k \in S}) = Cardinality(S)
  <1> DEFINE H == {d + k : k \in S}
             f == [k \in S |-> d + k]
  <1>1. f \in [S -> H] /\ \A k \in S : f[k] = d + k
    OBVIOUS
  <1>2. \A k, l \in S : d + k = d + l => k = l
    OBVIOUS
  <1>3. \A h \in H : \E k \in S : h = d + k
    OBVIOUS
  <1> HIDE DEF f, H
  <1>4. f \in Injection(S, H)
    BY <1>1, <1>2 DEF Injection, IsInjective
  <1>5. f \in Surjection(S, H)
    BY <1>1, <1>3 DEF Surjection
  <1>6. IsFiniteSet(H) /\ Cardinality(H) = Cardinality(S)
    BY <1>4, <1>5, FS_Surjection
  <1>7. QED BY <1>6 DEF H

(* Shifted places are reached in the same order.                           *)
LEMMA ShiftedPlaces ==
    ASSUME NEW S \in SUBSET Nat, IsFiniteSet(S), NEW d \in Nat, NEW H, H = {d + k : k \in S}
    PROVE  /\ H \in SUBSET Nat /\ IsFiniteSet(H) /\ Cardinality(H) = Cardinality(S)
           /\ \A n \in 1 .. Cardinality(S) : Nth(H, n) = d + Nth(S, n)
  <1>1. H \in SUBSET Nat
    OBVIOUS
  <1>2. IsFiniteSet(H) /\ Cardinality(H) = Cardinality(S)
    BY ShiftedCount
  <1>3. ASSUME NEW n \in 1 .. Cardinality(S) PROVE Nth(H, n) = d + Nth(S, n)
    <2> DEFINE i == Nth(S, n)
               low == {j \in S : j <= i}
    <2>1. i \in S /\ Cardinality(low) = n
      BY PlacesInOrder
    <2>2. d + i \in H
      BY <2>1
    <2>3. PICK m \in 1 .. Cardinality(H) : Nth(H, m) = d + i
      <3>1. \A x \in H : \E m \in 1 .. Cardinality(H) : Nth(H, m) = x
        BY <1>1, <1>2, PlacesInOrder
      <3> HIDE DEF i
      <3>2. QED BY <2>2, <3>1
    <2>4. Cardinality({j \in H : j <= Nth(H, m)}) = m
      BY <1>1, <1>2, PlacesInOrder
    <2>5. {j \in H : j <= d + i} = {d + k : k \in low}
      <3>1. i \in Nat /\ \A k \in S : k \in Nat
        BY <2>1
      <3> HIDE DEF i
      <3>2. \A k \in S : d + k <= d + i <=> k <= i
        BY <3>1
      <3>3. QED BY <3>2
    <2>6. Cardinality({d + k : k \in low}) = Cardinality(low)
      <3>1. low \in SUBSET S /\ low \in SUBSET Nat
        OBVIOUS
      <3> HIDE DEF low
      <3>2. IsFiniteSet(low)
        BY <3>1, FS_Subset
      <3>3. QED BY <3>1, <3>2, ShiftedCount
    <2>7. m = n
      <3> HIDE DEF low, i
      <3>1. QED BY <2>1, <2>3, <2>4, <2>5, <2>6
    <2>8. QED BY <2>3, <2>7
  <1>4. QED BY <1>1, <1>2, <1>3

-----------------------------------------------------------------------------
\* The NLP facts of a run and their records.

FactsKinds == {"mentions", "clusters", "profiles", "threads", "nlp", "analysed",
               "enrichment", "report", "crisis"}

\* The facts of the NLP stage are those of records of the run, and what
\* enrich_batch makes of these records.
NlpFactsOfRecords ==
    /\ ScenarioType(run)
    /\ DOMAIN facts = FactsKinds
    /\ facts.analysed \in Seq(Range(run.records))
    /\ facts.nlp = EnrichBatch(facts.analysed, run.failing)

(* Of no records there are no facts.                                       *)
LEMMA NothingToEnrich ==
    ASSUME NEW failing
    PROVE  EnrichBatch(<<>>, failing) = <<>>
  <1> DEFINE records == <<>>
             fine == {i \in DOMAIN records : records[i].fate = "fine"}
             built == At([i \in DOMAIN records |-> i], fine)
  <1>1. fine = {} /\ Cardinality(fine) = 0
    BY FS_EmptySet
  <1>2. DOMAIN built = {}
    BY <1>1 DEF At
  <1>3. \E g : EnrichBatch(records, failing) = [n \in DOMAIN built |-> g[n]]
    <2> HIDE DEF fine
    <2>1. /\ DOMAIN EnrichBatch(records, failing) = DOMAIN built
          /\ EnrichBatch(records, failing)
                = [n \in DOMAIN built |-> EnrichBatch(records, failing)[n]]
      BY DEF EnrichBatch, fine
    <2>2. QED BY <2>1
  <1>4. PICK g : EnrichBatch(records, failing) = [n \in DOMAIN built |-> g[n]]
    BY <1>3
  <1> HIDE DEF built
  <1>5. EnrichBatch(records, failing) = [n \in {} |-> g[n]]
    BY <1>2, <1>4
  <1>6. QED BY <1>5

(* No other stage touches what the NLP stage found.  [run_pipeline.py]      *)
LEMMA OtherStages ==
    ASSUME DOMAIN facts = FactsKinds,
           WithoutMentions \/ NormalizationStage \/ DedupStage \/ SpamStage \/ ThreadsStage
             \/ EnrichmentStage \/ ReviewStage \/ ReportingStage \/ CrisisStage
    PROVE  /\ run' = run /\ DOMAIN facts' = FactsKinds
           /\ facts'.analysed = facts.analysed /\ facts'.nlp = facts.nlp
  <1> USE DEF FactsKinds
  <1>1. CASE WithoutMentions
    BY <1>1 DEF WithoutMentions, Finish
  <1>2. CASE NormalizationStage
    BY <1>2 DEF NormalizationStage, Finish
  <1>3. CASE DedupStage
    BY <1>3 DEF DedupStage, Finish
  <1>4. CASE SpamStage
    BY <1>4 DEF SpamStage, Finish, Raise
  <1>5. CASE ThreadsStage
    BY <1>5 DEF ThreadsStage, Finish
  <1>6. CASE EnrichmentStage
    BY <1>6 DEF EnrichmentStage, Finish
  <1>7. CASE ReviewStage
    BY <1>7 DEF ReviewStage, Finish
  <1>8. CASE ReportingStage
    BY <1>8 DEF ReportingStage, Finish
  <1>9. CASE CrisisStage
    BY <1>9 DEF CrisisStage, Finish
  <1>10. QED BY <1>1, <1>2, <1>3, <1>4, <1>5, <1>6, <1>7, <1>8, <1>9

(* In every run the NLP facts are those of records of the run.             *)
LEMMA NlpFactsStay == Spec => []NlpFactsOfRecords
  <1>1. Init => NlpFactsOfRecords
    <2> SUFFICES ASSUME Init PROVE NlpFactsOfRecords
      OBVIOUS
    <2>1. ScenarioType(run)
      BY PipelineAssumption DEF Init
    <2>2. facts.analysed = <<>> /\ facts.nlp = <<>> /\ DOMAIN facts = FactsKinds
      BY DEF Init, NoFacts, FactsKinds
    <2>3. facts.nlp = EnrichBatch(facts.analysed, run.failing)
      BY <2>2, NothingToEnrich
    <2>4. QED BY <2>1, <2>2, <2>3 DEF NlpFactsOfRecords
  <1>2. NlpFactsOfRecords /\ [Next]_vars => NlpFactsOfRecords'
    <2> SUFFICES ASSUME NlpFactsOfRecords, [Next]_vars PROVE NlpFactsOfRecords'
      OBVIOUS
    <2>1. CASE NlpStage
      <3>1. NlpInput \in Seq(Range(run.records))
        <4>1. run.records \in Seq(Range(run.records))
          <5>1. run.records \in Seq(Records)
            BY DEF NlpFactsOfRecords, ScenarioType
          <5>2. QED BY <5>1 DEF Range
        <4>2. QED BY <4>1, AtPlaces DEF NlpInput
      <3>2. /\ run' = run /\ facts'.analysed = NlpInput
            /\ facts'.nlp = EnrichBatch(NlpInput, run.failing)
            /\ DOMAIN facts' = FactsKinds
        BY <2>1 DEF NlpStage, Finish, NlpFactsOfRecords, FactsKinds
      <3>3. QED BY <3>1, <3>2 DEF NlpFactsOfRecords
    <2>2. CASE UNCHANGED vars
      BY <2>2 DEF vars, NlpFactsOfRecords
    <2>3. CASE Next /\ ~NlpStage
      <3>1. /\ run' = run /\ DOMAIN facts' = FactsKinds
            /\ facts'.analysed = facts.analysed /\ facts'.nlp = facts.nlp
        BY <2>3, OtherStages DEF Next, NlpFactsOfRecords
      <3>2. QED BY <3>1 DEF NlpFactsOfRecords
    <2>4. QED BY <2>1, <2>2, <2>3
  <1>3. QED BY <1>1, <1>2, PTL DEF Spec

Fine(records) == {i \in DOMAIN records : records[i].fate = "fine"}
Asked(records) == {i \in DOMAIN records : records[i].fate # "raises" /\ ~Skips(records[i].post)}

\* The sentiment enrich_batch takes for the record at a place.
SentimentOf(records, failing, i) ==
    LET places  == SentimentPlaces(records)
        inputs  == [k \in DOMAIN places |-> SentimentInput(records[places[k]])]
        outputs == ProcessBatch(inputs, failing)
    IN  IF i \in Range(places) /\ "batch" \notin failing
        THEN outputs[CHOOSE k \in DOMAIN places : places[k] = i]
        ELSE [overall |-> Unset, aspects |-> <<>>]

\* Places are taken from the places themselves.
LEMMA PlacesThemselves ==
    ASSUME NEW R, NEW s \in Seq(R), NEW S \in SUBSET (DOMAIN s)
    PROVE  /\ DOMAIN At([i \in DOMAIN s |-> i], S) = 1 .. Cardinality(S)
           /\ Cardinality(S) \in Nat
           /\ \A n \in 1 .. Cardinality(S) :
                 At([i \in DOMAIN s |-> i], S)[n] = Nth(S, n) /\ Nth(S, n) \in S
           /\ \A i \in S : \E n \in 1 .. Cardinality(S) : Nth(S, n) = i
           /\ \A m, n \in 1 .. Cardinality(S) : m < n => Nth(S, m) < Nth(S, n)
  <1>1. S \in SUBSET Nat /\ IsFiniteSet(S)
    BY PlacesFinite
  <1>2. /\ Cardinality(S) \in Nat
        /\ \A n \in 1 .. Cardinality(S) : Nth(S, n) \in S
        /\ \A i \in S : \E n \in 1 .. Cardinality(S) : Nth(S, n) = i
        /\ \A m, n \in 1 .. Cardinality(S) : m < n => Nth(S, m) < Nth(S, n)
    BY <1>1, PlacesInOrder
  <1>3. QED BY <1>2 DEF At

(* The facts of a batch are those of its records that can be built, in     *)
(* their order.  [batch_enricher.py:enrich_batch]                          *)
LEMMA FactsOfBatch ==
    ASSUME NEW R, NEW records \in Seq(R), NEW failing
    PROVE  /\ DOMAIN EnrichBatch(records, failing) = 1 .. Cardinality(Fine(records))
           /\ \A n \in 1 .. Cardinality(Fine(records)) :
                 LET i == Nth(Fine(records), n)
                 IN  /\ i \in DOMAIN records /\ records[i].fate = "fine"
                     /\ EnrichBatch(records, failing)[n]
                           = FactOf(records[i], SentimentOf(records, failing, i))
  <1> DEFINE built == At([i \in DOMAIN records |-> i], Fine(records))
  <1>1. EnrichBatch(records, failing)
            = [n \in DOMAIN built |->
                  FactOf(records[built[n]], SentimentOf(records, failing, built[n]))]
    BY DEF EnrichBatch, SentimentOf, Fine
  <1>2. Fine(records) \in SUBSET (DOMAIN records)
    BY DEF Fine
  <1>3. /\ DOMAIN built = 1 .. Cardinality(Fine(records))
        /\ \A n \in 1 .. Cardinality(Fine(records)) :
              built[n] = Nth(Fine(records), n) /\ Nth(Fine(records), n) \in Fine(records)
    BY <1>2, PlacesThemselves
  <1>4. \A i \in Fine(records) : i \in DOMAIN records /\ records[i].fate = "fine"
    BY DEF Fine
  <1> HIDE DEF built
  <1>5. QED BY <1>1, <1>3, <1>4

(* A fact is found again by its document: it is the one of its record.     *)
LEMMA FactHasRecord ==
    ASSUME NlpFactsOfRecords, OneVersion, NEW n \in DOMAIN facts.nlp
    PROVE  LET i == Nth(Fine(facts.analysed), n)
               fact == facts.nlp[n]
           IN  /\ i \in DOMAIN facts.analysed
               /\ RecordOf(fact) = facts.analysed[i]
               /\ RecordOf(fact) \in Records
               /\ fact.sentiment = SentimentOf(facts.analysed, run.failing, i)
               /\ fact.insight = InsightOf(RecordOf(fact), fact.sentiment)
  <1> DEFINE records == facts.analysed
             i == Nth(Fine(records), n)
             r == records[i]
             s == SentimentOf(records, run.failing, i)
  <1>1. records \in Seq(Range(run.records)) /\ facts.nlp = EnrichBatch(records, run.failing)
    BY DEF NlpFactsOfRecords
  <1>2. /\ n \in 1 .. Cardinality(Fine(records)) /\ i \in DOMAIN records
        /\ facts.nlp[n] = FactOf(r, s)
    <2> HIDE DEF records
    <2>1. /\ DOMAIN EnrichBatch(records, run.failing) = 1 .. Cardinality(Fine(records))
          /\ \A k \in 1 .. Cardinality(Fine(records)) :
                LET j == Nth(Fine(records), k)
                IN  /\ j \in DOMAIN records /\ records[j].fate = "fine"
                    /\ EnrichBatch(records, run.failing)[k]
                           = FactOf(records[j], SentimentOf(records, run.failing, j))
      BY <1>1, FactsOfBatch
    <2>2. n \in 1 .. Cardinality(Fine(records))
      BY <1>1, <2>1
    <2>3. QED BY <1>1, <2>1, <2>2
  <1>3. /\ facts.nlp[n].doc = r.doc /\ facts.nlp[n].sentiment = s
        /\ facts.nlp[n].insight = InsightOf(r, s)
    <2> HIDE DEF r, s
    <2>1. QED BY <1>2 DEF FactOf
  <1>4. \A x \in Range(records) : x \in Range(run.records)
    BY <1>1 DEF Range
  <1>5. r \in Range(records)
    BY <1>2 DEF Range
  <1>6. \A x \in Range(records) : x.doc = facts.nlp[n].doc <=> x = r
    <2> HIDE DEF records, r
    <2>1. \A x \in Range(records) : x.doc = r.doc => x = r
      BY <1>4, <1>5 DEF OneVersion
    <2>2. QED BY <1>3, <2>1
  <1>7. RecordOf(facts.nlp[n]) = r
    <2>1. RecordOf(facts.nlp[n]) = CHOOSE x \in Range(records) : x.doc = facts.nlp[n].doc
      BY DEF RecordOf
    <2> HIDE DEF records, r
    <2>2. QED BY <1>5, <1>6, <2>1
  <1>8. r \in Records
    <2>1. run.records \in Seq(Records)
      BY DEF NlpFactsOfRecords, ScenarioType
    <2>2. \A x \in Range(run.records) : x \in Records
      BY <2>1 DEF Range
    <2> HIDE DEF records, r
    <2>3. QED BY <1>4, <1>5, <2>2
  <1>9. QED BY <1>2, <1>3, <1>7, <1>8

-----------------------------------------------------------------------------
\* A post that names more of the business.

SayingPost(p, also) ==
    [p EXCEPT !.raw = Saying(p.raw, also), !.clean = Saying(p.clean, also)]

LEMMA TextIsText == \A t \in Texts : TextType(t)
  BY DEF Texts, TextType

(* A text that names more is the same text for all rules but those of      *)
(* relevance.                                                              *)
LEMMA SayingText ==
    ASSUME NEW t \in Texts, NEW also \in Wordings
    PROVE  LET u == Saying(t, also)
           IN  /\ t.says \subseteq u.says
               /\ u.traits \cap Intentions = t.traits \cap Intentions
               /\ \A x \in Cries : x \in u.traits <=> x \in t.traits
               /\ u.length = t.length /\ u.words = t.words /\ u.distinct = t.distinct
  <1> DEFINE u == Saying(t, also)
  <1>1. /\ t.says \subseteq u.says
        /\ u.length = t.length /\ u.words = t.words /\ u.distinct = t.distinct
        /\ \A x : x \notin Brought => (x \in u.traits <=> x \in t.traits)
    BY TextIsText, SayingType
  <1>2. \A x \in Intentions \cup Cries : x \notin Brought
    BY DEF Intentions, Cries, Brought
  <1> HIDE DEF u
  <1>3. u.traits \cap Intentions = t.traits \cap Intentions
    BY <1>1, <1>2
  <1>4. QED BY <1>1, <1>2, <1>3 DEF u

(* It is a text, if there is one to say it in.                             *)
LEMMA SayingIsText ==
    ASSUME NEW t \in Texts, NEW also \in Wordings, t.length > 0
    PROVE  Saying(t, also) \in Texts
  <1> DEFINE u == Saying(t, also)
  <1>1. /\ TextType(u)
        /\ u.says = t.says \cup also.says /\ u.traits = t.traits \cup also.traits
        /\ u.length = t.length /\ u.words = t.words /\ u.distinct = t.distinct
    BY TextIsText, SayingType
  <1>2. "cod" \in also.traits => "logistics" \in also.says
    BY DEF Wordings
  <1>3. /\ t.distinct <= t.words /\ t.words <= t.length /\ t.length \in Nat
        /\ "cod" \in t.traits => "logistics" \in t.says
    BY DEF Texts
  <1> HIDE DEF u
  <1>4. u.length # 0
    BY <1>1, <1>3
  <1>5. QED BY <1>1, <1>2, <1>3, <1>4 DEF Texts, TextType, u

\* A post that says more differs in nothing but what it says.
LEMMA SayingPosts ==
    ASSUME NEW p \in Posts, NEW also \in Wordings
    PROVE  LET q == SayingPost(p, also)
           IN  /\ q.raw = Saying(p.raw, also) /\ q.clean = Saying(p.clean, also)
               /\ q.context = p.context /\ q.counts = p.counts /\ q.failing = p.failing
               /\ Full(p) \in Texts /\ Full(q) = Saying(Full(p), also)
               /\ Heard(p) \in Texts /\ Heard(q) = Saying(Heard(p), also)
  <1> DEFINE q == SayingPost(p, also)
  <1>1. /\ p.raw \in Texts /\ p.clean \in Texts
        /\ q.raw = Saying(p.raw, also) /\ q.clean = Saying(p.clean, also)
        /\ q.context = p.context /\ q.counts = p.counts /\ q.failing = p.failing
    BY DEF Posts, SayingPost
  <1> HIDE DEF q
  <1>2. Full(p) \in Texts /\ Full(q) = Saying(Full(p), also)
    BY <1>1 DEF Full
  <1>3. Full(q).length = Full(p).length
    BY <1>2, SayingText
  <1>4. Heard(p) \in Texts /\ Heard(q) = Saying(Heard(p), also)
    BY <1>1, <1>2, <1>3 DEF Heard
  <1>5. QED BY <1>1, <1>2, <1>4 DEF q

\* So the analysis takes the same turns for both.
LEMMA SameTurns ==
    ASSUME NEW p \in Posts, NEW also \in Wordings
    PROVE  LET q == SayingPost(p, also)
           IN  /\ PrimaryIntent(q) = PrimaryIntent(p)
               /\ Skips(q) <=> Skips(p)
               /\ DetectedSpam(q) <=> DetectedSpam(p)
               /\ \A text : KeywordsOf(q, text) = KeywordsOf(p, text)
               /\ \A label : Judged(q, label) = Judged(p, label)
               /\ \A label, intent : Calibrated(label, Full(q), intent)
                                        = Calibrated(label, Full(p), intent)
  <1> DEFINE q == SayingPost(p, also)
  <1>1. /\ Full(p) \in Texts /\ Full(q) = Saying(Full(p), also)
        /\ q.failing = p.failing /\ q.counts = p.counts
        /\ q.clean = Saying(p.clean, also) /\ p.clean \in Texts
    BY SayingPosts DEF Posts
  <1> HIDE DEF q
  <1>2. /\ Full(q).traits \cap Intentions = Full(p).traits \cap Intentions
        /\ Full(q).length = Full(p).length
        /\ \A x \in Cries : /\ x \in Full(q).traits <=> x \in Full(p).traits
                            /\ x \in q.clean.traits <=> x \in p.clean.traits
        /\ q.clean.length = p.clean.length
        /\ q.clean.words = p.clean.words /\ q.clean.distinct = p.clean.distinct
    BY <1>1, SayingText
  <1>a. /\ "alarm" \in Full(q).traits <=> "alarm" \in Full(p).traits
        /\ "upset" \in Full(q).traits <=> "upset" \in Full(p).traits
        /\ "happy" \in Full(q).traits <=> "happy" \in Full(p).traits
        /\ "advertisement" \in q.clean.traits <=> "advertisement" \in p.clean.traits
    BY <1>2 DEF Cries
  <1>3. IntentOf(Full(q)) = IntentOf(Full(p))
    <2> DEFINE Best(matched) == {i \in matched : \A j \in matched : Priority(j) <= Priority(i)}
               Chosen(matched) ==
                   IF matched = {} THEN "DISCUSSION"
                   ELSE IF "SEEDING" \in Best(matched) THEN "SEEDING"
                   ELSE CHOOSE i \in Best(matched) : TRUE
    <2>1. \A t : IntentOf(t) = Chosen(t.traits \cap Intentions)
      BY DEF IntentOf
    <2> HIDE DEF Chosen
    <2>2. QED BY <1>2, <2>1
  <1>4. PrimaryIntent(q) = PrimaryIntent(p)
    BY <1>1, <1>3 DEF PrimaryIntent
  <1>5. Skips(q) <=> Skips(p)
    BY <1>4 DEF Skips
  <1>6. DetectedSpam(q) <=> DetectedSpam(p)
    BY <1>1, <1>2, <1>a DEF DetectedSpam, LooksSpam
  <1>7. \A text : KeywordsOf(q, text) = KeywordsOf(p, text)
    BY <1>1, <1>2, <1>5 DEF KeywordsOf
  <1>8. ASSUME NEW label PROVE Judged(q, label) = Judged(p, label)
    BY <1>1, <1>a, <1>5 DEF Judged
  <1>9. \A label, intent :
            Calibrated(label, Full(q), intent) = Calibrated(label, Full(p), intent)
    BY <1>a DEF Calibrated
  <1>10. QED BY <1>4, <1>5, <1>6, <1>7, <1>8, <1>9 DEF q

(* A post that names more is judged the same, and is as relevant at least. *)
LEMMA SameJudgement ==
    ASSUME NEW p \in Posts, NEW also \in Wordings, NEW type, NEW label,
           NEW keywords, NEW aspects \in BOOLEAN, SameMatter(Heard(p), also)
    PROVE  LET q == SayingPost(p, also)
               v == Verdict(p, type, label, keywords, aspects)
               w == Verdict(q, type, label, keywords, aspects)
           IN  /\ w.intent = v.intent /\ w.risk = v.risk /\ w.impact = v.impact
               /\ w.keywords = v.keywords /\ (w.aspects <=> v.aspects)
               /\ v.relevance <= w.relevance
  <1> DEFINE q == SayingPost(p, also)
             v == Verdict(p, type, label, keywords, aspects)
             w == Verdict(q, type, label, keywords, aspects)
             scored == [intent |-> PrimaryIntent(p), label |-> label,
                        risk |-> Judged(p, label).risk, aspects |-> aspects]
             bare == Heard(p).length = 0 /\ p.context = {}
             around == ContextSays(p.context)
  <1>1. /\ PrimaryIntent(q) = PrimaryIntent(p) /\ Judged(q, label) = Judged(p, label)
    BY SameTurns
  <1>2. /\ q.context = p.context
        /\ Heard(p) \in Texts /\ Heard(q) = Saying(Heard(p), also)
        /\ Heard(q).length = Heard(p).length
    <2>1. /\ q.context = p.context
          /\ Heard(p) \in Texts /\ Heard(q) = Saying(Heard(p), also)
      BY SayingPosts
    <2> HIDE DEF q
    <2>2. QED BY <2>1, SayingText
  <1>3. /\ w.intent = v.intent /\ w.risk = v.risk /\ w.impact = v.impact
        /\ w.keywords = v.keywords /\ (w.aspects <=> v.aspects)
    <2> HIDE DEF q
    <2>1. QED BY <1>1 DEF Verdict
  <1>4. /\ v.relevance = RelevanceOf(p, type, scored)
        /\ w.relevance = RelevanceOf(q, type, scored)
    <2> HIDE DEF q
    <2>1. QED BY <1>1 DEF Verdict
  <1>5. around \in SUBSET TermKinds
    BY DEF Posts, ContextSays
  <1>6. TextType(Heard(p)) /\ VerdictType(scored) /\ EmptyIsBare(Heard(p), bare)
    <2>1. TextType(Heard(p))
      BY <1>2, TextIsText
    <2>2. Heard(p).length = 0 => Heard(p).traits = {}
      BY <1>2 DEF Texts
    <2>3. QED BY <2>1, <2>2 DEF VerdictType, EmptyIsBare
  <1>7. /\ RelevanceOf(p, type, scored) = BusinessRelevance(Heard(p), type, around, bare, scored)
        /\ RelevanceOf(q, type, scored)
              = BusinessRelevance(Saying(Heard(p), also), type, around, bare, scored)
    <2>1. RelevanceOf(p, type, scored) = BusinessRelevance(Heard(p), type, around, bare, scored)
      BY DEF RelevanceOf
    <2>2. (Heard(q).length = 0 /\ q.context = {}) <=> bare
      BY <1>2
    <2> HIDE DEF q, scored
    <2>3. QED BY <1>2, <2>1 DEF RelevanceOf
  <1>8. BusinessRelevance(Heard(p), type, around, bare, scored)
            <= BusinessRelevance(Saying(Heard(p), also), type, around, bare, scored)
    <2> HIDE DEF scored, around, bare
    <2>1. bare \in BOOLEAN
      BY DEF bare
    <2>2. QED BY <1>5, <1>6, <2>1, MoreSaidCountsMore
  <1> HIDE DEF scored, around, bare, q
  <1>9. v.relevance <= w.relevance
    BY <1>4, <1>7, <1>8
  <1>10. QED BY <1>3, <1>9 DEF q

(* A record is changed by it in its post alone.                            *)
LEMMA MoreOfRecord ==
    ASSUME NEW r \in Records, NEW also \in Wordings
    PROVE  /\ SayingMore(r, also).post = SayingPost(r.post, also)
           /\ SayingMore(r, also).type = r.type
           /\ SayingMore(r, also).text = r.text
  <1>1. r.post \in Posts /\ DOMAIN r = {"doc", "type", "parent", "author", "text", "supported",
                                        "posted", "fate", "post"}
    BY DEF Records
  <1>2. DOMAIN r.post = {"raw", "clean", "context", "counts", "failing"}
    BY <1>1 DEF Posts
  <1>3. SayingMore(r, also).post
            = [r.post EXCEPT !.raw = Saying(r.post.raw, also),
                             !.clean = Saying(r.post.clean, also)]
    BY <1>1, <1>2 DEF SayingMore
  <1>4. QED BY <1>1, <1>3 DEF SayingMore, SayingPost

(* What the gate of the index lets through it lets through with more said. *)
(* [builder:_build_rag]                                                    *)
LEMMA GateOpensWider ==
    ASSUME NEW p \in Posts, NEW also \in Wordings, NEW v, NEW w,
           w.intent = v.intent, w.risk = v.risk, w.impact = v.impact,
           w.keywords = v.keywords, w.aspects <=> v.aspects,
           NEW m \in Int, NEW n \in Int, m <= n, v.relevance = m, w.relevance = n
    PROVE  ShouldIndex(p, v) => ShouldIndex(SayingPost(p, also), w)
  <1> DEFINE q == SayingPost(p, also)
             named == {"brand", "logistics", "competitor"}
  <1>1. /\ p.raw \in Texts /\ q.raw = Saying(p.raw, also)
    BY SayingPosts DEF Posts
  <1>2. /\ q.raw.length = p.raw.length /\ ("trade" \in q.raw.traits <=> "trade" \in p.raw.traits)
        /\ p.raw.says \subseteq q.raw.says
    <2> HIDE DEF q
    <2>1. "trade" \in Cries
      BY DEF Cries
    <2>2. QED BY <1>1, <2>1, SayingText
  <1>3. p.raw.says \cap named # {} => q.raw.says \cap named # {}
    <2> HIDE DEF q, named
    <2>1. QED BY <1>2
  <1>4. AnalysisSignal(p, v) => AnalysisSignal(q, w)
    <2> HIDE DEF q
    <2>1. QED BY <1>2, <1>3 DEF AnalysisSignal
  <1>5. v.relevance >= MinRelevance => w.relevance >= MinRelevance
    BY DEF MinRelevance
  <1> HIDE DEF q
  <1>6. QED BY <1>2, <1>4, <1>5 DEF ShouldIndex, q

(* The relevance of a text is a number, whatever is said and found.        *)
LEMMA RelevanceIsNumber ==
    ASSUME NEW t, TextType(t), NEW around \in SUBSET TermKinds, NEW v, VerdictType(v),
           NEW type, NEW bare \in BOOLEAN
    PROVE  BusinessRelevance(t, type, around, bare, v) \in Int
  <1> DEFINE n == Gathered(t, around, v)
             c == CappedPoints(t, type, around, n)
  <1>1. n \in Int /\ 0 <= n
    BY GatheredGrows, NothingMore
  <1>2. c \in Int
    <2> HIDE DEF n
    <2>1. QED BY <1>1, CapsGrow, NothingMore
  <1>3. LET r == BusinessRelevance(t, type, around, bare, v)
        IN  /\ TakenForGame(t) => r = 800
            /\ ~TakenForGame(t) /\ bare => r = 0
            /\ ~TakenForGame(t) /\ ~bare => r = Topped(c)
    BY RelevanceOfText
  <1> HIDE DEF c
  <1>4. Topped(c) \in Int
    BY <1>2 DEF Topped
  <1>5. CASE TakenForGame(t)
    BY <1>3, <1>5
  <1>6. CASE ~TakenForGame(t) /\ bare
    <2>1. BusinessRelevance(t, type, around, bare, v) = 0
      BY ONLY <1>3, <1>6, Zenon
    <2>2. QED BY ONLY <2>1
  <1>7. CASE ~TakenForGame(t) /\ ~bare
    <2>1. BusinessRelevance(t, type, around, bare, v) = Topped(c)
      BY ONLY <1>3, <1>7, Zenon
    <2>2. QED BY ONLY <1>4, <2>1, Zenon
  <1>8. QED BY <1>5, <1>6, <1>7

(* So is that of a post.                                                   *)
LEMMA RelevanceOfVerdict ==
    ASSUME NEW p \in Posts, NEW type, NEW label, NEW keywords, NEW aspects \in BOOLEAN
    PROVE  Verdict(p, type, label, keywords, aspects).relevance \in Int
  <1> DEFINE scored == [intent |-> PrimaryIntent(p), label |-> label,
                        risk |-> Judged(p, label).risk, aspects |-> aspects]
             bare == Heard(p).length = 0 /\ p.context = {}
             around == ContextSays(p.context)
  <1>1. Verdict(p, type, label, keywords, aspects).relevance = RelevanceOf(p, type, scored)
    BY DEF Verdict
  <1>2. RelevanceOf(p, type, scored) = BusinessRelevance(Heard(p), type, around, bare, scored)
    BY DEF RelevanceOf
  <1>3. /\ TextType(Heard(p)) /\ VerdictType(scored)
        /\ around \in SUBSET TermKinds /\ bare \in BOOLEAN
    <2>1. Heard(p) \in Texts
      BY DEF Posts, Heard, Full
    <2>2. TextType(Heard(p))
      BY <2>1, TextIsText
    <2>3. around \in SUBSET TermKinds
      BY DEF Posts, ContextSays
    <2>4. QED BY <2>2, <2>3 DEF VerdictType
  <1> HIDE DEF scored, bare, around
  <1>4. BusinessRelevance(Heard(p), type, around, bare, scored) \in Int
    BY <1>3, RelevanceIsNumber
  <1>5. QED BY <1>1, <1>2, <1>4

(* So does what is built of it, for every answer of the model.             *)
LEMMA MoreSaidInInsight ==
    ASSUME NEW r \in Records, NEW also \in Wordings, NEW s,
           r.post.raw.length > 0, r.post.clean.length > 0, SameMatter(Heard(r.post), also)
    PROVE  AtLeastSo(InsightOf(SayingMore(r, also), s), InsightOf(r, s))
  <1> DEFINE p == r.post
             q == SayingPost(p, also)
             label == LabelOf(r, s.overall)
             keywords == KeywordsOf(p, r.text)
             aspects == s.aspects # <<>>
             v == Verdict(p, r.type, label, keywords, aspects)
             w == Verdict(q, r.type, label, keywords, aspects)
  <1>1. p \in Posts
    BY DEF Records
  <1>2. /\ SayingMore(r, also).post = q /\ SayingMore(r, also).type = r.type
        /\ SayingMore(r, also).text = r.text
    BY MoreOfRecord
  <1>3. LabelOf(SayingMore(r, also), s.overall) = label
    <2>1. PrimaryIntent(q) = PrimaryIntent(p)
      BY <1>1, SameTurns
    <2>2. \A l, intent : Calibrated(l, Full(q), intent) = Calibrated(l, Full(p), intent)
      BY <1>1, SameTurns
    <2> HIDE DEF q
    <2>3. QED BY <1>2, <2>1, <2>2 DEF LabelOf
  <1>4. KeywordsOf(q, r.text) = keywords
    BY <1>1, SameTurns
  <1>5. InsightOf(r, s) = Insight(p, v)
    BY DEF InsightOf
  <1>6. InsightOf(SayingMore(r, also), s) = Insight(q, w)
    <2> HIDE DEF q, label, keywords
    <2>1. QED BY <1>2, <1>3, <1>4 DEF InsightOf
  <1>7. aspects \in BOOLEAN
    OBVIOUS
  <1>8. /\ w.intent = v.intent /\ w.risk = v.risk /\ w.impact = v.impact
        /\ w.keywords = v.keywords /\ (w.aspects <=> v.aspects)
        /\ v.relevance <= w.relevance
    <2>1. SameMatter(Heard(p), also)
      OBVIOUS
    <2> HIDE DEF p, label, keywords, aspects
    <2>2. QED BY <1>1, <1>7, <2>1, SameJudgement
  <1>9. q \in Posts /\ v.relevance \in Int /\ w.relevance \in Int
    <2>1. Saying(p.raw, also) \in Texts /\ Saying(p.clean, also) \in Texts
      BY <1>1, SayingIsText DEF Posts
    <2>2. q \in Posts
      BY <1>1, <2>1 DEF Posts, SayingPost
    <2> HIDE DEF p, q, label, keywords, aspects
    <2>3. QED BY <1>1, <1>7, <2>2, RelevanceOfVerdict
  <1> HIDE DEF v, w
  <1>10. ShouldIndex(p, v) => ShouldIndex(q, w)
    <2> HIDE DEF p
    <2>1. QED BY <1>1, <1>8, <1>9, GateOpensWider
  <1>11. Stored(v) => Stored(w)
    BY <1>8, <1>9 DEF Stored, MinStoredRelevance
  <1> HIDE DEF p, q
  <1>12. /\ Insight(p, v).verdict = v /\ (Insight(p, v).indexed <=> ShouldIndex(p, v))
         /\ Insight(p, v).stored # <<>> => Stored(v)
    BY DEF Insight
  <1>13. /\ Insight(q, w).verdict = w /\ (Insight(q, w).indexed <=> ShouldIndex(q, w))
         /\ Stored(w) => Insight(q, w).stored # <<>>
    BY DEF Insight
  <1>14. QED BY <1>5, <1>6, <1>8, <1>9, <1>10, <1>11, <1>12, <1>13 DEF AtLeastSo

(***************************************************************************)
(* A post that names more of the business is in every run at least as      *)
(* relevant, and not left out of the index or the posts where it was in:   *)
(* from the terms in its text to the insight that is published, unless the *)
(* word cod turns it into a text about a game.                             *)
(***************************************************************************)
THEOREM MoreSaidStaysIn == Spec => []MoreSaidNeverLess
  <1>1. NlpFactsOfRecords => MoreSaidNeverLess
    <2> SUFFICES ASSUME NlpFactsOfRecords, OneVersion,
                        NEW fact \in Range(facts.nlp), NEW also \in Wordings,
                        RecordOf(fact).post.raw.length > 0,
                        RecordOf(fact).post.clean.length > 0,
                        SameMatter(Heard(RecordOf(fact).post), also)
                 PROVE  AtLeastSo(InsightOf(SayingMore(RecordOf(fact), also), fact.sentiment),
                                  fact.insight)
      BY DEF MoreSaidNeverLess
    <2>1. PICK n \in DOMAIN facts.nlp : fact = facts.nlp[n]
      BY DEF Range
    <2>2. RecordOf(fact) \in Records /\ fact.insight = InsightOf(RecordOf(fact), fact.sentiment)
      BY <2>1, FactHasRecord
    <2>3. QED BY <2>2, MoreSaidInInsight
  <1>2. QED BY <1>1, NlpFactsStay, PTL

(* A silent post that is indexed has two kinds of terms around it.         *)
LEMMA LoneContextInInsight ==
    ASSUME NEW r \in Records, NEW s, InsightOf(r, s).indexed,
           Heard(r.post).says = {}
    PROVE  Cardinality(ContextSays(r.post.context)) >= 2
  <1> DEFINE p == r.post
             label == LabelOf(r, s.overall)
             keywords == KeywordsOf(p, r.text)
             aspects == s.aspects # <<>>
             v == Verdict(p, r.type, label, keywords, aspects)
             scored == [intent |-> PrimaryIntent(p), label |-> label,
                        risk |-> Judged(p, label).risk, aspects |-> aspects]
             bare == Heard(p).length = 0 /\ p.context = {}
             around == ContextSays(p.context)
  <1>1. p \in Posts
    BY DEF Records
  <1>2. InsightOf(r, s) = Insight(p, v)
    BY DEF InsightOf
  <1>3. v.relevance >= 4500
    <2> HIDE DEF v, p
    <2>1. QED BY <1>2 DEF Insight, ShouldIndex, MinRelevance
  <1>4. v.relevance = BusinessRelevance(Heard(p), r.type, around, bare, scored)
    <2>1. v.relevance = RelevanceOf(p, r.type, scored)
      <3> HIDE DEF p, label, keywords, aspects
      <3>1. QED BY DEF Verdict
    <2>2. RelevanceOf(p, r.type, scored)
             = BusinessRelevance(Heard(p), r.type, around, bare, scored)
      <3> HIDE DEF p, scored
      <3>1. QED BY DEF RelevanceOf
    <2>3. QED BY <2>1, <2>2
  <1>5. /\ TextType(Heard(p)) /\ VerdictType(scored) /\ around \in SUBSET TermKinds
        /\ bare \in BOOLEAN
    <2>1. Heard(p) \in Texts
      BY <1>1 DEF Posts, Heard, Full
    <2>2. TextType(Heard(p))
      <3> HIDE DEF p
      <3>1. QED BY <2>1, TextIsText
    <2>3. around \in SUBSET TermKinds
      BY <1>1 DEF Posts, ContextSays
    <2>4. QED BY <2>2, <2>3 DEF VerdictType
  <1>6. ASSUME NEW k \in TermKinds, around \subseteq {k} PROVE FALSE
    <2>1. around \in SUBSET {k}
      BY <1>6
    <2>2. Heard(p).says = {}
      OBVIOUS
    <2> HIDE DEF scored, bare, around, p, v
    <2>3. BusinessRelevance(Heard(p), r.type, around, bare, scored) < 4500
      BY <1>5, <2>1, <2>2, LoneContextBelowGate
    <2>4. BusinessRelevance(Heard(p), r.type, around, bare, scored) \in Int
      BY <1>5, RelevanceIsNumber
    <2>5. QED BY <1>3, <1>4, <2>3, <2>4
  <1> HIDE DEF around, p
  <1>7. IsFiniteSet(around) /\ Cardinality(around) \in Nat
    <2>1. IsFiniteSet(TermKinds)
      <3>1. TermKinds = ({"brand"} \cup {"logistics"}) \cup ({"competitor"} \cup {"domain"})
        BY DEF TermKinds
      <3>2. QED BY <3>1, FS_Singleton, FS_Union
    <2>2. QED BY <1>5, <2>1, FS_Subset, FS_CardinalityType
  <1>8. Cardinality(around) # 0
    <2>1. "brand" \in TermKinds
      BY DEF TermKinds
    <2>2. around # {}
      BY <1>6, <2>1
    <2>3. QED BY <1>7, <2>2, FS_EmptySet
  <1>9. Cardinality(around) # 1
    <2> SUFFICES ASSUME Cardinality(around) = 1 PROVE FALSE
      OBVIOUS
    <2>1. PICK k : around = {k}
      BY <1>7, FS_Singleton
    <2>2. k \in TermKinds
      BY <1>5, <2>1
    <2>3. QED BY <1>6, <2>1, <2>2
  <1>10. QED BY <1>7, <1>8, <1>9 DEF around, p

(***************************************************************************)
(* In no run does a post that names nothing of the business itself get     *)
(* into the index for one kind of term on its parent's page.               *)
(***************************************************************************)
THEOREM LoneContextStaysOut == Spec => []LoneContextNeverIndexed
  <1>1. NlpFactsOfRecords => LoneContextNeverIndexed
    <2> SUFFICES ASSUME NlpFactsOfRecords, OneVersion,
                        NEW fact \in Range(facts.nlp), fact.insight.indexed,
                        Heard(RecordOf(fact).post).says = {}
                 PROVE  Cardinality(ContextSays(RecordOf(fact).post.context)) >= 2
      BY DEF LoneContextNeverIndexed
    <2>1. PICK n \in DOMAIN facts.nlp : fact = facts.nlp[n]
      BY DEF Range
    <2>2. RecordOf(fact) \in Records /\ fact.insight = InsightOf(RecordOf(fact), fact.sentiment)
      BY <2>1, FactHasRecord
    <2>3. QED BY <2>2, LoneContextInInsight
  <1>2. QED BY <1>1, NlpFactsStay, PTL

-----------------------------------------------------------------------------
\* What the model answers.

(* A set of numbers has a least one.  (Induction over the numbers as a     *)
(* fact without an operator: finite sets are well-founded.)                *)
LEMMA LeastNat ==
    ASSUME NEW A, A \subseteq Nat, A # {}
    PROVE  \E m \in A : \A n \in A : m <= n
  <1> DEFINE T == {1 .. n : n \in A}
             R == StrictSubsetOrdering(Nat)
  <1>1. IsWellFoundedOn(R, FiniteSubsetsOf(Nat))
    BY FS_StrictSubsetOrderingWellFounded
  <1>2. T \subseteq FiniteSubsetsOf(Nat) /\ T # {}
    <2>1. ASSUME NEW n \in A PROVE 1 .. n \in FiniteSubsetsOf(Nat)
      <3>1. n \in Int /\ 1 \in Int /\ 1 .. n \subseteq Nat
        OBVIOUS
      <3>2. IsFiniteSet(1 .. n)
        BY <3>1, FS_Interval
      <3>3. QED BY <3>1, <3>2 DEF FiniteSubsetsOf
    <2>2. T # {}
      OBVIOUS
    <2>3. QED BY <2>1, <2>2
  <1>3. \E x \in T : \A y \in T : ~ (<<y, x>> \in R)
    <2> HIDE DEF T, R
    <2>1. QED BY <1>1, <1>2, WFMin
  <1>4. PICK m \in A : \A y \in T : <<y, 1 .. m>> \notin R
    BY <1>3
  <1>5. ASSUME NEW n \in A, ~(m <= n) PROVE FALSE
    <2>1. <<1 .. n, 1 .. m>> \notin R
      BY <1>4
    <2>2. 1 .. n \subseteq 1 .. m /\ m \in 1 .. m /\ m \notin 1 .. n
      BY <1>5
    <2>3. QED BY <2>1, <2>2 DEF StrictSubsetOrdering
  <1>6. QED BY <1>5

(* Every text gets its own answer, wherever it stands in the batch and     *)
(* however often.  [phobert_onnx.py:predict_batch]                         *)
LEMMA OwnAnswer ==
    ASSUME NEW R, NEW texts \in Seq(R), NEW k \in DOMAIN texts
    PROVE  PredictBatch(texts)[k] = IF texts[k] = <<Blank>> THEN Neutral ELSE texts[k]
  <1> DEFINE S == {i \in DOMAIN texts : /\ texts[i] # <<Blank>>
                                        /\ \A j \in 1 .. i - 1 : texts[j] # texts[i]}
             firsts == Uniques(texts)
             answers == [n \in DOMAIN firsts |-> texts[firsts[n]]]
             place(text) == CHOOSE n \in DOMAIN firsts : texts[firsts[n]] = text
  <1>1. PredictBatch(texts)
            = [i \in DOMAIN texts |->
                  IF texts[i] = <<Blank>> THEN Neutral ELSE answers[place(texts[i])]]
    BY DEF PredictBatch
  <1>2. CASE texts[k] = <<Blank>>
    BY <1>1, <1>2
  <1>3. CASE texts[k] # <<Blank>>
    <2> DEFINE A == {j \in DOMAIN texts : texts[j] = texts[k]}
    <2>1. PICK m \in A : \A j \in A : m <= j
      <3>1. A \subseteq Nat /\ A # {}
        OBVIOUS
      <3> HIDE DEF A
      <3>2. QED BY <3>1, LeastNat
    <2>2. m \in S
      <3>1. DOMAIN texts = 1 .. Len(texts) /\ Len(texts) \in Nat /\ m \in 1 .. Len(texts)
        OBVIOUS
      <3>2. ASSUME NEW j \in 1 .. m - 1 PROVE texts[j] # texts[m]
        <4>1. j \in DOMAIN texts /\ ~(m <= j)
          BY <3>1
        <4>2. QED BY <2>1, <4>1
      <3>3. QED BY <1>3, <3>1, <3>2
    <2>3. firsts = At([i \in DOMAIN texts |-> i], S)
      BY DEF Uniques
    <2>4. /\ DOMAIN firsts = 1 .. Cardinality(S)
          /\ \A n \in 1 .. Cardinality(S) : firsts[n] = Nth(S, n)
          /\ \E n \in 1 .. Cardinality(S) : Nth(S, n) = m
      <3>1. S \in SUBSET (DOMAIN texts)
        OBVIOUS
      <3> HIDE DEF S, firsts
      <3>2. QED BY <2>2, <2>3, <3>1, PlacesThemselves
    <2>5. \E n \in DOMAIN firsts : texts[firsts[n]] = texts[k]
      <3> HIDE DEF S, firsts
      <3>1. QED BY <2>1, <2>4
    <2>6. place(texts[k]) \in DOMAIN firsts /\ texts[firsts[place(texts[k])]] = texts[k]
      <3> HIDE DEF firsts
      <3>1. QED BY <2>5
    <2>7. answers[place(texts[k])] = texts[k]
      <3> HIDE DEF firsts, place
      <3>1. QED BY <2>6
    <2> HIDE DEF answers, place
    <2>8. QED BY <1>1, <1>3, <2>7
  <1>4. QED BY <1>2, <1>3

(* Each record of a batch gets the model's answer to its own text.         *)
(* [process.py:analyze_overall_batch]                                      *)
LEMMA OneOverall ==
    ASSUME NEW n \in Nat, NEW inputs, DOMAIN inputs = 1 .. n, NEW failing, NEW k \in 1 .. n
    PROVE  LET fails == "overall" \in failing \/ inputs[k].text = Blank
           IN  /\ fails => Overalls(inputs, failing)[k] = Neutral
               /\ ~fails => Overalls(inputs, failing)[k] = <<inputs[k].text>>
  <1> DEFINE texts == [i \in DOMAIN inputs |-> <<inputs[i].text>>]
  <1>1. CASE "overall" \in failing
    BY <1>1 DEF Overalls
  <1>2. CASE "overall" \notin failing
    <2>1. Overalls(inputs, failing) = PredictBatch(texts)
      BY <1>2 DEF Overalls
    <2>2. texts \in Seq({texts[i] : i \in 1 .. n}) /\ k \in DOMAIN texts
      OBVIOUS
    <2>3. texts[k] = <<inputs[k].text>>
      OBVIOUS
    <2>4. PredictBatch(texts)[k] = IF texts[k] = <<Blank>> THEN Neutral ELSE texts[k]
      <3> HIDE DEF texts
      <3>1. QED BY <2>2, OwnAnswer
    <2>5. texts[k] = <<Blank>> <=> inputs[k].text = Blank
      BY <2>3
    <2> HIDE DEF texts
    <2>6. QED BY <1>2, <2>1, <2>3, <2>4, <2>5
  <1>3. QED BY <1>1, <1>2

(* The windows of an input are a sequence, each of its own text.           *)
LEMMA OwnWindows ==
    ASSUME NEW input, DOMAIN input.keywords \in SUBSET Nat, IsFiniteSet(DOMAIN input.keywords)
    PROVE  \E m \in Nat :
              /\ DOMAIN WindowsOf(input) = 1 .. m
              /\ \A k \in 1 .. m : \E word : WindowsOf(input)[k].window = <<input.text, word>>
  <1>1. CASE input.text = Blank
    <2>1. WindowsOf(input) = <<>>
      BY <1>1 DEF WindowsOf
    <2>2. DOMAIN WindowsOf(input) = 1 .. 0
      BY <2>1
    <2>3. QED BY <2>2
  <1>2. CASE input.text # Blank
    <2> DEFINE kws == Selected(input.keywords)
               earlier(i) == {input.keywords[j] : j \in {j \in DOMAIN input.keywords :
                                  j < i /\ input.keywords[j].aspect = input.keywords[i].aspect}}
               chosen == {i \in DOMAIN input.keywords :
                             /\ input.keywords[i] \notin earlier(i)
                             /\ Cardinality(earlier(i)) < MaxKeywordsPerAspect}
               entry == [k \in DOMAIN kws |-> [aspect |-> kws[k].aspect,
                                               window |-> <<input.text, kws[k].word>>]]
               S == {k \in DOMAIN kws : <<input.text, kws[k].word>> \notin Lost}
    <2>1. DOMAIN kws = 1 .. Cardinality(chosen) /\ Cardinality(chosen) \in Nat
      <3>1. kws = At(input.keywords, chosen)
        BY DEF Selected
      <3>2. chosen \in SUBSET (DOMAIN input.keywords)
        OBVIOUS
      <3> HIDE DEF chosen, kws
      <3>3. chosen \in SUBSET Nat /\ IsFiniteSet(chosen)
        BY <3>2, FS_Subset
      <3>4. Cardinality(chosen) \in Nat
        BY <3>3, FS_CardinalityType
      <3>5. QED BY <3>1, <3>4 DEF At
    <2>2. S \in SUBSET Nat /\ IsFiniteSet(S)
      <3>1. S \in SUBSET (1 .. Cardinality(chosen))
        <4> HIDE DEF chosen, kws
        <4>1. QED BY <2>1
      <3> HIDE DEF S, chosen
      <3>2. IsFiniteSet(1 .. Cardinality(chosen))
        BY <2>1, FS_Interval
      <3>3. IsFiniteSet(S)
        BY <3>1, <3>2, FS_Subset
      <3>4. S \in SUBSET Nat
        BY <2>1, <3>1
      <3>5. QED BY <3>3, <3>4
    <2>3. WindowsOf(input) = At(entry, S)
      BY <1>2 DEF WindowsOf
    <2>4. \A k \in S : entry[k].window = <<input.text, kws[k].word>>
      OBVIOUS
    <2> HIDE DEF S, entry
    <2>5. /\ Cardinality(S) \in Nat
          /\ \A n \in 1 .. Cardinality(S) : Nth(S, n) \in S
      BY <2>2, PlacesInOrder
    <2>6. At(entry, S) = [n \in 1 .. Cardinality(S) |-> entry[Nth(S, n)]]
      BY DEF At
    <2> HIDE DEF kws
    <2>7. \A n \in 1 .. Cardinality(S) :
              WindowsOf(input)[n].window = <<input.text, kws[Nth(S, n)].word>>
      BY <2>3, <2>4, <2>5, <2>6
    <2>8. \A n \in 1 .. Cardinality(S) : \E word : WindowsOf(input)[n].window = <<input.text, word>>
      BY <2>7
    <2>9. DOMAIN WindowsOf(input) = 1 .. Cardinality(S)
      BY <2>3, <2>6
    <2>10. QED BY <2>5, <2>8, <2>9
  <1>3. QED BY <1>1, <1>2

\* Inputs with sequences of windows.
HaveWindows(inputs) ==
    \A i \in DOMAIN inputs : \E m \in Nat : DOMAIN WindowsOf(inputs[i]) = 1 .. m
Slots(inputs, i) == UNION {{j} \X DOMAIN WindowsOf(inputs[j]) : j \in 1 .. i - 1}
LenOf(input) == Cardinality(DOMAIN WindowsOf(input))

(* A record's windows are numbered from one to their number.               *)
LEMMA LenOfWindows ==
    ASSUME NEW inputs, HaveWindows(inputs), NEW i \in DOMAIN inputs
    PROVE  /\ LenOf(inputs[i]) \in Nat
           /\ DOMAIN WindowsOf(inputs[i]) = 1 .. LenOf(inputs[i])
           /\ IsFiniteSet(DOMAIN WindowsOf(inputs[i]))
  <1>1. PICK m \in Nat : DOMAIN WindowsOf(inputs[i]) = 1 .. m
    BY DEF HaveWindows
  <1>2. IsFiniteSet(1 .. m) /\ Cardinality(1 .. m) = m
    BY FS_Interval
  <1>3. QED BY <1>1, <1>2 DEF LenOf

(* The windows of the records before one are finitely many.                *)
LEMMA SlotsFinite ==
    ASSUME NEW N \in Nat, NEW inputs, DOMAIN inputs = 1 .. N, HaveWindows(inputs),
           NEW i \in 1 .. N + 1
    PROVE  IsFiniteSet(Slots(inputs, i))
  <1> DEFINE of(j) == {j} \X DOMAIN WindowsOf(inputs[j])
             all == {of(j) : j \in 1 .. i - 1}
             f == [j \in 1 .. i - 1 |-> of(j)]
  <1>1. IsFiniteSet(all)
    <2>1. f \in Surjection(1 .. i - 1, all)
      <3>1. f \in [1 .. i - 1 -> all] /\ \A x \in all : \E j \in 1 .. i - 1 : f[j] = x
        BY Zenon
      <3> HIDE DEF f, all
      <3>2. QED BY <3>1 DEF Surjection
    <2>2. IsFiniteSet(1 .. i - 1)
      BY FS_Interval
    <2> HIDE DEF f, all
    <2>3. QED BY <2>1, <2>2, FS_Surjection
  <1>2. ASSUME NEW T \in all PROVE IsFiniteSet(T)
    <2>1. PICK j \in 1 .. i - 1 : T = {j} \X DOMAIN WindowsOf(inputs[j])
      OBVIOUS
    <2>2. j \in DOMAIN inputs
      OBVIOUS
    <2>3. IsFiniteSet({j}) /\ IsFiniteSet(DOMAIN WindowsOf(inputs[j]))
      BY <2>2, FS_Singleton, LenOfWindows
    <2>4. QED BY <2>1, <2>3, FS_Product
  <1>3. Slots(inputs, i) = UNION all
    BY DEF Slots
  <1> HIDE DEF all
  <1>4. QED BY <1>1, <1>2, <1>3, FS_UNION

(* Each input adds its windows to those before.                            *)
LEMMA BeforeAdds ==
    ASSUME NEW N \in Nat, NEW inputs, DOMAIN inputs = 1 .. N, HaveWindows(inputs)
    PROVE  /\ Before(inputs, 1) = 0
           /\ \A i \in 1 .. N + 1 : Before(inputs, i) \in Nat
           /\ \A i \in 1 .. N :
                 Before(inputs, i + 1) = Before(inputs, i) + LenOf(inputs[i])
           /\ \A i, k \in 1 .. N + 1 : i <= k => Before(inputs, i) <= Before(inputs, k)
  <1>1. \A i : Before(inputs, i) = Cardinality(Slots(inputs, i))
    BY DEF Before, Slots
  <1>2. Before(inputs, 1) = 0
    <2>1. Slots(inputs, 1) = {}
      BY DEF Slots
    <2>2. QED BY <1>1, <2>1, FS_EmptySet
  <1>3. ASSUME NEW i \in 1 .. N + 1
        PROVE  IsFiniteSet(Slots(inputs, i)) /\ Before(inputs, i) \in Nat
    <2>1. IsFiniteSet(Slots(inputs, i))
      BY SlotsFinite
    <2>2. QED BY <1>1, <2>1, FS_CardinalityType
  <1>4. ASSUME NEW i \in 1 .. N
        PROVE  Before(inputs, i + 1) = Before(inputs, i) + LenOf(inputs[i])
    <2> DEFINE new == {i} \X DOMAIN WindowsOf(inputs[i])
               A == Slots(inputs, i)
    <2>1. Slots(inputs, i + 1) = A \cup new
      <3>1. 1 .. (i + 1) - 1 = (1 .. i - 1) \cup {i}
        OBVIOUS
      <3>2. QED BY <3>1, Zenon DEF Slots
    <2>2. A \cap new = {}
      <3>1. \A x \in A : x[1] \in 1 .. i - 1
        BY DEF Slots
      <3>2. \A x \in new : x[1] = i
        OBVIOUS
      <3>3. i \notin 1 .. i - 1
        OBVIOUS
      <3> HIDE DEF A, new
      <3>4. QED BY <3>1, <3>2, <3>3
    <2>3. IsFiniteSet(new) /\ Cardinality(new) = LenOf(inputs[i])
      <3>1. /\ LenOf(inputs[i]) \in Nat /\ IsFiniteSet(DOMAIN WindowsOf(inputs[i]))
            /\ LenOf(inputs[i]) = Cardinality(DOMAIN WindowsOf(inputs[i]))
        BY LenOfWindows DEF LenOf
      <3>2. IsFiniteSet({i}) /\ Cardinality({i}) = 1
        BY FS_Singleton
      <3>3. IsFiniteSet(new) /\ Cardinality(new) = Cardinality({i}) * Cardinality(DOMAIN WindowsOf(inputs[i]))
        BY <3>1, <3>2, FS_Product
      <3> HIDE DEF new
      <3>4. QED BY <3>1, <3>2, <3>3
    <2>4. IsFiniteSet(A) /\ Cardinality(A) = Before(inputs, i) /\ Before(inputs, i) \in Nat
      BY <1>1, <1>3
    <2> HIDE DEF A, new
    <2>5. Cardinality(A \cup new) = Cardinality(A) + Cardinality(new) - Cardinality(A \cap new)
      BY <2>3, <2>4, FS_Union
    <2>6. Cardinality(A \cap new) = 0
      BY <2>2, FS_EmptySet
    <2>7. LenOf(inputs[i]) \in Nat
      BY LenOfWindows
    <2>8. Before(inputs, i + 1) = Cardinality(A \cup new)
      BY <1>1, <2>1
    <2>9. QED BY <2>3, <2>4, <2>5, <2>6, <2>7, <2>8
  <1>5. ASSUME NEW i \in 1 .. N + 1, NEW k \in 1 .. N + 1, i <= k
        PROVE  Before(inputs, i) <= Before(inputs, k)
    <2>1. Slots(inputs, i) \in SUBSET Slots(inputs, k)
      <3>1. 1 .. i - 1 \subseteq 1 .. k - 1
        BY <1>5
      <3>2. QED BY <3>1, Zenon DEF Slots
    <2>2. QED BY <1>1, <1>3, <2>1, FS_Subset
  <1>6. QED BY <1>2, <1>3, <1>4, <1>5

(* The windows of all inputs are numbered input by input.                  *)
LEMMA WindowsInPlace ==
    ASSUME NEW R, NEW inputs \in Seq(R), HaveWindows(inputs)
    PROVE  LET T == Before(inputs, Len(inputs) + 1)
               at(i, k) == Before(inputs, i) + k
               entry(i, k) == [input |-> i, of |-> WindowsOf(inputs[i])[k]]
           IN  /\ T \in Nat /\ DOMAIN Windows(inputs) = 1 .. T
               /\ \A i \in DOMAIN inputs : \A k \in 1 .. LenOf(inputs[i]) :
                     at(i, k) \in 1 .. T /\ Windows(inputs)[at(i, k)] = entry(i, k)
               /\ \A n \in 1 .. T : \E i \in DOMAIN inputs : \E k \in 1 .. LenOf(inputs[i]) :
                     n = at(i, k)
  <1> DEFINE N == Len(inputs)
             b(i) == Before(inputs, i)
             m(i) == LenOf(inputs[i])
             of(n) == CHOOSE i \in DOMAIN inputs : b(i) < n /\ n <= b(i + 1)
             entry(i, n) == [input |-> i, of |-> WindowsOf(inputs[i])[n - b(i)]]
  <1>1. N \in Nat /\ DOMAIN inputs = 1 .. N
    OBVIOUS
  <1>2. /\ b(1) = 0
        /\ \A i \in 1 .. N + 1 : b(i) \in Nat
        /\ \A i \in 1 .. N : b(i + 1) = b(i) + m(i)
        /\ \A i, k \in 1 .. N + 1 : i <= k => b(i) <= b(k)
    <2> HIDE DEF N
    <2>1. QED BY ONLY <1>1, HaveWindows(inputs), BeforeAdds, Zenon
  <1>3. \A i \in 1 .. N : m(i) \in Nat
    <2> HIDE DEF N
    <2>1. QED BY <1>1, LenOfWindows
  <1>4. Windows(inputs) = [n \in 1 .. b(N + 1) |-> entry(of(n), n)]
    BY DEF Windows
  <1> HIDE DEF N, b, m
  <1>5. ASSUME NEW i \in 1 .. N, NEW k \in 1 .. m(i)
        PROVE  b(i) + k \in 1 .. b(N + 1) /\ Windows(inputs)[b(i) + k] = entry(i, b(i) + k)
    <2>1. /\ b(i) \in Nat /\ b(i + 1) = b(i) + m(i) /\ b(i + 1) <= b(N + 1)
          /\ m(i) \in Nat /\ k \in Nat /\ b(N + 1) \in Nat
      BY <1>1, <1>2, <1>3
    <2>2. b(i) + k \in 1 .. b(N + 1) /\ b(i) < b(i) + k /\ b(i) + k <= b(i + 1)
      BY <2>1
    <2>3. ASSUME NEW j \in 1 .. N, b(j) < b(i) + k, b(i) + k <= b(j + 1)
          PROVE  j = i
      <3>1. b(j) \in Nat /\ b(j + 1) \in Nat
        BY <1>1, <1>2
      <3>2. CASE j < i
        <4>1. b(j + 1) <= b(i)
          BY <1>1, <1>2, <3>2
        <4>2. QED BY <2>1, <2>2, <2>3, <3>1, <4>1
      <3>3. CASE i < j
        <4>1. b(i + 1) <= b(j)
          BY <1>1, <1>2, <3>3
        <4>2. QED BY <2>1, <2>2, <2>3, <3>1, <4>1
      <3>4. QED BY <1>1, <3>2, <3>3
    <2>4. of(b(i) + k) = i
      BY <1>1, <2>2, <2>3
    <2> HIDE DEF of, entry
    <2>5. QED BY <1>4, <2>2, <2>4
  <1>6. ASSUME NEW n \in 1 .. b(N + 1)
        PROVE  \E i \in 1 .. N : \E k \in 1 .. m(i) : n = b(i) + k
    <2> DEFINE A == {i \in 1 .. N : n <= b(i + 1)}
    <2>1. N \in A
      <3>1. b(N + 1) \in Nat /\ n \in Nat /\ n >= 1 /\ n <= b(N + 1)
        BY <1>1, <1>2
      <3>2. N # 0
        BY <1>2, <3>1
      <3>3. QED BY <1>1, <3>1, <3>2
    <2>2. PICK i \in A : \A j \in A : i <= j
      <3>1. A \subseteq Nat /\ A # {}
        BY <2>1
      <3> HIDE DEF A
      <3>2. QED BY <3>1, LeastNat
    <2>3. i \in 1 .. N /\ n <= b(i + 1) /\ b(i) \in Nat /\ b(i + 1) = b(i) + m(i) /\ m(i) \in Nat
      BY <1>1, <1>2, <1>3
    <2>4. b(i) < n
      <3>1. CASE i = 1
        BY <1>2, <3>1
      <3>2. CASE i # 1
        <4>1. i - 1 \in 1 .. N /\ ~(i <= i - 1) /\ (i - 1) + 1 = i
          BY <1>1, <2>3, <3>2
        <4>2. i - 1 \notin A
          BY <2>2, <4>1
        <4>3. ~(n <= b((i - 1) + 1))
          BY <4>1, <4>2
        <4>4. QED BY <2>3, <4>1, <4>3
      <3>3. QED BY <3>1, <3>2
    <2>5. n - b(i) \in 1 .. m(i) /\ n = b(i) + (n - b(i))
      BY <2>3, <2>4
    <2>6. QED BY <2>3, <2>5
  <1>7. \A i \in 1 .. N : \A k \in 1 .. m(i) : (b(i) + k) - b(i) = k
    BY <1>1, <1>2, <1>3
  <1>8. b(N + 1) \in Nat /\ DOMAIN Windows(inputs) = 1 .. b(N + 1)
    <2>1. b(N + 1) \in Nat
      BY <1>1, <1>2
    <2> HIDE DEF entry, of
    <2>2. QED BY <1>4, <2>1
  <1>9. \A i \in 1 .. N : \A k \in 1 .. m(i) :
            /\ b(i) + k \in 1 .. b(N + 1)
            /\ Windows(inputs)[b(i) + k] = [input |-> i, of |-> WindowsOf(inputs[i])[k]]
    BY <1>5, <1>7
  <1>10. QED BY <1>1, <1>6, <1>8, <1>9 DEF N, b, m

\* The windows of an input for one of its aspects, in their order.
WindowsFor(input, a) ==
    LET ws == WindowsOf(input)
    IN  At([k \in DOMAIN ws |-> ws[k].window], {k \in DOMAIN ws : ws[k].aspect = a})

TextWindows(inputs) ==
    \A i \in DOMAIN inputs : \A k \in DOMAIN WindowsOf(inputs[i]) :
        \E word : WindowsOf(inputs[i])[k].window = <<inputs[i].text, word>>

(* The model's answers for an aspect of an input are those to its own      *)
(* windows, wherever they stand among those of the batch.                  *)
(* [process.py:process_batch]                                              *)
LEMMA OwnScores ==
    ASSUME NEW R, NEW inputs \in Seq(R), HaveWindows(inputs), TextWindows(inputs),
           NEW i \in DOMAIN inputs, NEW a
    PROVE  LET meta == Windows(inputs)
               answers == PredictBatch([n \in DOMAIN meta |-> meta[n].of.window])
           IN  At(answers, {n \in DOMAIN answers : meta[n].input = i /\ meta[n].of.aspect = a})
                  = WindowsFor(inputs[i], a)
  <1> DEFINE meta == Windows(inputs)
             T == Before(inputs, Len(inputs) + 1)
             texts == [n \in DOMAIN meta |-> meta[n].of.window]
             answers == PredictBatch(texts)
             H == {n \in DOMAIN answers : meta[n].input = i /\ meta[n].of.aspect = a}
             ws == WindowsOf(inputs[i])
             K == {k \in DOMAIN ws : ws[k].aspect = a}
             d == Before(inputs, i)
             M == LenOf(inputs[i])
  <1>1. /\ T \in Nat /\ DOMAIN meta = 1 .. T
        /\ \A j \in DOMAIN inputs : \A k \in 1 .. LenOf(inputs[j]) :
              /\ Before(inputs, j) + k \in 1 .. T
              /\ meta[Before(inputs, j) + k] = [input |-> j, of |-> WindowsOf(inputs[j])[k]]
        /\ \A n \in 1 .. T : \E j \in DOMAIN inputs : \E k \in 1 .. LenOf(inputs[j]) :
              n = Before(inputs, j) + k
    BY WindowsInPlace
  <1>2. d \in Nat /\ M \in Nat /\ DOMAIN ws = 1 .. M
    <2>1. Len(inputs) \in Nat /\ DOMAIN inputs = 1 .. Len(inputs)
      OBVIOUS
    <2>2. \A j \in 1 .. Len(inputs) + 1 : Before(inputs, j) \in Nat
      BY <2>1, BeforeAdds
    <2>3. QED BY <2>1, <2>2, LenOfWindows
  <1> HIDE DEF T, meta
  <1>3. \A n \in DOMAIN meta : meta[n].of.window # <<Blank>>
    <2> SUFFICES ASSUME NEW n \in DOMAIN meta PROVE meta[n].of.window # <<Blank>>
      OBVIOUS
    <2>1. PICK j \in DOMAIN inputs : \E k \in 1 .. LenOf(inputs[j]) : n = Before(inputs, j) + k
      BY <1>1
    <2>2. PICK k \in 1 .. LenOf(inputs[j]) : n = Before(inputs, j) + k
      BY <2>1
    <2>3. meta[n].of = WindowsOf(inputs[j])[k]
      <3>1. meta[n] = [input |-> j, of |-> WindowsOf(inputs[j])[k]]
        BY <1>1, <2>2
      <3>2. QED BY <3>1
    <2>4. k \in DOMAIN WindowsOf(inputs[j])
      BY LenOfWindows
    <2>5. PICK word : WindowsOf(inputs[j])[k].window = <<inputs[j].text, word>>
      BY <2>4 DEF TextWindows
    <2>6. Len(<<inputs[j].text, word>>) = 2 /\ Len(<<Blank>>) = 1
      OBVIOUS
    <2>7. QED BY <2>3, <2>5, <2>6
  <1>4. DOMAIN answers = 1 .. T /\ \A n \in 1 .. T : answers[n] = meta[n].of.window
    <2>1. DOMAIN answers = DOMAIN texts /\ DOMAIN texts = 1 .. T
      BY <1>1 DEF PredictBatch
    <2>2. texts \in Seq({texts[n] : n \in 1 .. T})
      BY <1>1
    <2>3. \A n \in 1 .. T : texts[n] = meta[n].of.window /\ texts[n] # <<Blank>>
      BY <1>1, <1>3
    <2>4. \A n \in 1 .. T : PredictBatch(texts)[n] = texts[n]
      <3> HIDE DEF texts
      <3>1. QED BY <2>1, <2>2, <2>3, OwnAnswer
    <2> HIDE DEF texts
    <2>5. QED BY <2>1, <2>3, <2>4
  <1> HIDE DEF answers
  <1>5. H = {d + k : k \in K}
    <2>1. ASSUME NEW n \in H PROVE n \in {d + k : k \in K}
      <3>1. n \in 1 .. T /\ meta[n].input = i /\ meta[n].of.aspect = a
        BY <1>4
      <3>2. PICK j \in DOMAIN inputs : \E k \in 1 .. LenOf(inputs[j]) : n = Before(inputs, j) + k
        BY <1>1, <3>1
      <3>3. PICK k \in 1 .. LenOf(inputs[j]) : n = Before(inputs, j) + k
        BY <3>2
      <3>4. meta[n] = [input |-> j, of |-> WindowsOf(inputs[j])[k]]
        BY <1>1, <3>3
      <3>5. j = i /\ WindowsOf(inputs[j])[k].aspect = a
        BY <3>1, <3>4
      <3>6. k \in K /\ n = d + k
        BY <1>2, <3>3, <3>5
      <3>7. QED BY <3>6
    <2>2. ASSUME NEW k \in K PROVE d + k \in H
      <3>1. k \in 1 .. M /\ ws[k].aspect = a
        BY <1>2
      <3>2. d + k \in 1 .. T /\ meta[d + k] = [input |-> i, of |-> ws[k]]
        BY <1>1, <3>1
      <3>3. meta[d + k].input = i /\ meta[d + k].of.aspect = a
        BY <3>1, <3>2
      <3>4. QED BY <1>4, <3>2, <3>3
    <2> HIDE DEF H, K
    <2>3. QED BY <2>1, <2>2
  <1>6. K \in SUBSET Nat /\ IsFiniteSet(K)
    <2>1. K \in SUBSET (1 .. M)
      BY <1>2
    <2>2. IsFiniteSet(1 .. M)
      BY <1>2, FS_Interval
    <2> HIDE DEF K, M
    <2>3. IsFiniteSet(K)
      BY <2>1, <2>2, FS_Subset
    <2>4. K \in SUBSET Nat
      BY <1>2, <2>1
    <2>5. QED BY <2>3, <2>4
  <1>7. \A k \in K : k \in 1 .. M /\ k \in DOMAIN ws
    BY <1>2
  <1>8. \A k \in 1 .. M : answers[d + k] = ws[k].window
    <2> SUFFICES ASSUME NEW k \in 1 .. M PROVE answers[d + k] = ws[k].window
      OBVIOUS
    <2>1. d + k \in 1 .. T /\ meta[d + k] = [input |-> i, of |-> ws[k]]
      BY <1>1
    <2>2. QED BY <1>4, <2>1
  <1>9. WindowsFor(inputs[i], a) = At([k \in DOMAIN ws |-> ws[k].window], K)
    BY DEF WindowsFor
  <1>10. /\ Cardinality(K) \in Nat /\ \A n \in 1 .. Cardinality(K) : Nth(K, n) \in K
    <2> HIDE DEF K
    <2>1. QED BY <1>6, PlacesInOrder
  <1>11. /\ Cardinality(H) = Cardinality(K)
         /\ \A n \in 1 .. Cardinality(K) : Nth(H, n) = d + Nth(K, n)
    <2>1. d \in Nat
      BY <1>2
    <2> HIDE DEF K, H, d
    <2>2. QED BY ONLY <1>5, <1>6, <2>1, ShiftedPlaces, Zenon
  <1>12. At(answers, H) = [n \in 1 .. Cardinality(K) |-> answers[d + Nth(K, n)]]
    <2> HIDE DEF K, H, d
    <2>1. At(answers, H) = [n \in 1 .. Cardinality(H) |-> answers[Nth(H, n)]]
      BY DEF At
    <2>2. QED BY <1>11, <2>1
  <1>13. At([k \in DOMAIN ws |-> ws[k].window], K)
             = [n \in 1 .. Cardinality(K) |-> ws[Nth(K, n)].window]
    <2>1. \A n \in 1 .. Cardinality(K) : Nth(K, n) \in DOMAIN ws
      BY <1>7, <1>10
    <2> HIDE DEF K, ws
    <2>2. At([k \in DOMAIN ws |-> ws[k].window], K)
              = [n \in 1 .. Cardinality(K) |-> [k \in DOMAIN ws |-> ws[k].window][Nth(K, n)]]
      BY DEF At
    <2>3. QED BY <2>1, <2>2
  <1>14. \A n \in 1 .. Cardinality(K) : answers[d + Nth(K, n)] = ws[Nth(K, n)].window
    BY <1>7, <1>8, <1>10
  <1>15. At(answers, H) = WindowsFor(inputs[i], a)
    <2> HIDE DEF K, H, d, ws
    <2>1. QED BY <1>9, <1>12, <1>13, <1>14
  <1>16. QED BY <1>15 DEF answers, meta

\* What a record is asked about, and what it is asked for.
Keywords(r) == IF r.text = Blank THEN <<>> ELSE KeywordsOf(r.post, r.text)
Answered(records, failing, i) == i \in Asked(records) /\ "batch" \notin failing

\* The sentiment a record gets by itself.
SentimentAlone(r, failing) ==
    IF r.fate = "raises" \/ Skips(r.post) \/ "batch" \in failing
    THEN [overall |-> Unset, aspects |-> <<>>]
    ELSE [overall |-> IF "overall" \in failing \/ r.text = Blank THEN Neutral ELSE <<r.text>>,
          aspects |-> [a \in AspectsOf(Keywords(r)) |->
                          IF "windows" \in failing THEN At(<<>>, {})
                          ELSE WindowsFor(SentimentInput(r), a)]]

(* Keywords are finitely many, whatever was extracted.                     *)
LEMMA FiniteKeywords ==
    ASSUME NEW p, NEW text
    PROVE  /\ DOMAIN KeywordsOf(p, text) \in SUBSET Nat
           /\ IsFiniteSet(DOMAIN KeywordsOf(p, text))
  <1>1. CASE KeywordsOf(p, text) = <<>>
    BY <1>1, FS_EmptySet
  <1>2. CASE KeywordsOf(p, text) = Extracted(text)
    <2>1. \A kws : DOMAIN FirstOf(kws, MaxKeywords) \in SUBSET (1 .. MaxKeywords)
      BY DEF FirstOf
    <2>2. DOMAIN Extracted(text) \in SUBSET (1 .. MaxKeywords)
      BY <2>1 DEF Extracted
    <2>3. MaxKeywords \in Nat
      BY KeywordAssumption
    <2>4. IsFiniteSet(1 .. MaxKeywords)
      BY <2>3, FS_Interval
    <2>5. IsFiniteSet(DOMAIN Extracted(text))
      BY <2>2, <2>4, FS_Subset
    <2>6. DOMAIN Extracted(text) \in SUBSET Nat
      BY <2>2, <2>3
    <2>7. QED BY <1>2, <2>5, <2>6
  <1>3. QED BY <1>1, <1>2 DEF KeywordsOf

(* A record's sentiment is the one it gets by itself, whatever else is in  *)
(* the batch.  [batch_enricher.py:enrich_batch, process.py:process_batch]  *)
LEMMA SentimentIsOwn ==
    ASSUME NEW R, NEW records \in Seq(R), NEW failing, NEW i \in DOMAIN records
    PROVE  SentimentOf(records, failing, i) = SentimentAlone(records[i], failing)
  <1> DEFINE places == SentimentPlaces(records)
             inputs == [k \in DOMAIN places |-> SentimentInput(records[places[k]])]
             outputs == ProcessBatch(inputs, failing)
             N == Cardinality(Asked(records))
             r == records[i]
  <1>1. Asked(records) \in SUBSET (DOMAIN records)
    BY DEF Asked
  <1>2. places = At([j \in DOMAIN records |-> j], Asked(records))
    BY DEF SentimentPlaces, Asked
  <1>3. /\ DOMAIN places = 1 .. N /\ N \in Nat
        /\ \A k \in 1 .. N : /\ places[k] = Nth(Asked(records), k)
                              /\ Nth(Asked(records), k) \in Asked(records)
        /\ \A j \in Asked(records) : \E k \in 1 .. N : Nth(Asked(records), k) = j
    <2> HIDE DEF places
    <2>1. QED BY <1>1, <1>2, PlacesThemselves
  <1>4. i \in Range(places) <=> i \in Asked(records)
    <2> HIDE DEF places, N
    <2>1. QED BY <1>3 DEF Range
  <1>5. SentimentOf(records, failing, i)
           = IF i \in Range(places) /\ "batch" \notin failing
             THEN outputs[CHOOSE k \in DOMAIN places : places[k] = i]
             ELSE [overall |-> Unset, aspects |-> <<>>]
    BY DEF SentimentOf
  <1>6. i \in Asked(records) <=> ~(r.fate = "raises" \/ Skips(r.post))
    BY DEF Asked
  <1>7. CASE ~Answered(records, failing, i)
    <2> HIDE DEF places, outputs, r
    <2>1. SentimentOf(records, failing, i) = [overall |-> Unset, aspects |-> <<>>]
      BY <1>4, <1>5, <1>7 DEF Answered
    <2>2. r.fate = "raises" \/ Skips(r.post) \/ "batch" \in failing
      BY <1>6, <1>7 DEF Answered
    <2>3. SentimentAlone(r, failing) = [overall |-> Unset, aspects |-> <<>>]
      BY <2>2 DEF SentimentAlone
    <2>4. QED BY <2>1, <2>3 DEF r
  <1>8. CASE Answered(records, failing, i)
    <2> DEFINE k == CHOOSE m \in DOMAIN places : places[m] = i
               meta == Windows(inputs)
               answers == IF "windows" \in failing THEN <<>>
                          ELSE PredictBatch([n \in DOMAIN meta |-> meta[n].of.window])
    <2>1. k \in 1 .. N /\ places[k] = i
      <3> HIDE DEF places, N
      <3>1. QED BY <1>3, <1>8 DEF Answered
    <2>2. inputs[k] = SentimentInput(r) /\ DOMAIN inputs = 1 .. N
      <3> HIDE DEF places, N, k
      <3>1. QED BY <1>3, <2>1
    <2>3. inputs[k].text = r.text /\ inputs[k].keywords = KeywordsOf(r.post, r.text)
      <3> HIDE DEF inputs, k, r
      <3>1. QED BY <2>2 DEF SentimentInput
    <2>4. SentimentOf(records, failing, i) = outputs[k]
      <3> HIDE DEF places, outputs
      <3>1. QED BY <1>4, <1>5, <1>8 DEF Answered
    <2>5. outputs[k] = [overall |-> Overalls(inputs, failing)[k],
                        aspects |-> Aspects(inputs, meta, answers, k)]
      <3> HIDE DEF inputs, k, N
      <3>1. QED BY <2>1, <2>2 DEF ProcessBatch
    <2>6. Overalls(inputs, failing)[k]
              = IF "overall" \in failing \/ r.text = Blank THEN Neutral ELSE <<r.text>>
      <3>1. N \in Nat /\ DOMAIN inputs = 1 .. N /\ k \in 1 .. N
        <4> HIDE DEF inputs, k, N, r
        <4>1. QED BY <1>3, <2>1, <2>2
      <3> HIDE DEF inputs, k, N, r
      <3>2. LET fails == "overall" \in failing \/ inputs[k].text = Blank
            IN  /\ fails => Overalls(inputs, failing)[k] = Neutral
                /\ ~fails => Overalls(inputs, failing)[k] = <<inputs[k].text>>
        BY ONLY <3>1, OneOverall, Zenon
      <3>3. QED BY <2>3, <3>2
    <2>7. AspectsOf(IF inputs[k].text = Blank THEN <<>> ELSE inputs[k].keywords)
              = AspectsOf(Keywords(r))
      <3> HIDE DEF inputs, k, r
      <3>1. QED BY <2>3 DEF Keywords
    <2>8. \A a : At(answers, {n \in DOMAIN answers : meta[n].input = k /\ meta[n].of.aspect = a})
                    = IF "windows" \in failing THEN At(<<>>, {})
                      ELSE WindowsFor(SentimentInput(r), a)
      <3>1. CASE "windows" \in failing
        <4>1. answers = <<>>
          BY <3>1
        <4>2. \A a : {n \in DOMAIN answers : meta[n].input = k /\ meta[n].of.aspect = a} = {}
          <5> HIDE DEF meta, k, answers
          <5>1. QED BY <4>1
        <4> HIDE DEF meta, k, answers
        <4>3. QED BY <3>1, <4>1, <4>2
      <3>2. CASE "windows" \notin failing
        <4>1. ASSUME NEW j \in DOMAIN inputs
              PROVE  \E m \in Nat :
                        /\ DOMAIN WindowsOf(inputs[j]) = 1 .. m
                        /\ \A l \in 1 .. m : \E word :
                              WindowsOf(inputs[j])[l].window = <<inputs[j].text, word>>
          <5>1. \E x : inputs[j] = SentimentInput(x)
            BY <4>1
          <5>2. PICK x : inputs[j] = SentimentInput(x)
            BY <5>1
          <5>3. inputs[j].keywords = KeywordsOf(x.post, x.text)
            <6> HIDE DEF inputs
            <6>1. QED BY <5>2 DEF SentimentInput
          <5> HIDE DEF inputs
          <5>4. /\ DOMAIN inputs[j].keywords \in SUBSET Nat
                /\ IsFiniteSet(DOMAIN inputs[j].keywords)
            BY <5>3, FiniteKeywords
          <5>5. QED BY <5>4, OwnWindows
        <4>2. inputs \in Seq({inputs[j] : j \in 1 .. N}) /\ k \in DOMAIN inputs
          <5>1. DOMAIN inputs = 1 .. N /\ N \in Nat /\ inputs = [j \in 1 .. N |-> inputs[j]]
            BY <1>3
          <5> HIDE DEF inputs, N, k
          <5>2. QED BY <2>1, <5>1
        <4> HIDE DEF inputs, N, k
        <4>3. HaveWindows(inputs) /\ TextWindows(inputs)
          <5>1. HaveWindows(inputs)
            BY <4>1 DEF HaveWindows
          <5>2. TextWindows(inputs)
            BY <4>1 DEF TextWindows
          <5>3. QED BY <5>1, <5>2
        <4>4. answers = PredictBatch([n \in DOMAIN meta |-> meta[n].of.window])
          BY <3>2
        <4>5. \A a : LET mt == Windows(inputs)
                         an == PredictBatch([n \in DOMAIN mt |-> mt[n].of.window])
                     IN  At(an, {n \in DOMAIN an : mt[n].input = k /\ mt[n].of.aspect = a})
                            = WindowsFor(inputs[k], a)
          BY ONLY <4>2, <4>3, OwnScores, Zenon
        <4>6. \A a : At(answers, {n \in DOMAIN answers :
                                     meta[n].input = k /\ meta[n].of.aspect = a})
                        = WindowsFor(inputs[k], a)
          BY <4>4, <4>5
        <4> HIDE DEF answers, meta
        <4>7. QED BY <2>2, <3>2, <4>6
      <3>3. QED BY <3>1, <3>2
    <2>9. Aspects(inputs, meta, answers, k)
              = [a \in AspectsOf(Keywords(r)) |->
                    IF "windows" \in failing THEN At(<<>>, {})
                    ELSE WindowsFor(SentimentInput(r), a)]
      <3> HIDE DEF inputs, meta, answers, k, r
      <3>1. Aspects(inputs, meta, answers, k)
               = [a \in AspectsOf(IF inputs[k].text = Blank THEN <<>> ELSE inputs[k].keywords) |->
                     At(answers, {n \in DOMAIN answers :
                                     meta[n].input = k /\ meta[n].of.aspect = a})]
        BY DEF Aspects
      <3>2. QED BY <2>7, <2>8, <3>1
    <2>10. ~(r.fate = "raises" \/ Skips(r.post) \/ "batch" \in failing)
      BY <1>6, <1>8 DEF Answered
    <2> HIDE DEF inputs, k, r, outputs, meta, answers
    <2>11. SentimentAlone(r, failing)
               = [overall |-> IF "overall" \in failing \/ r.text = Blank THEN Neutral
                              ELSE <<r.text>>,
                  aspects |-> [a \in AspectsOf(Keywords(r)) |->
                                  IF "windows" \in failing THEN At(<<>>, {})
                                  ELSE WindowsFor(SentimentInput(r), a)]]
      BY <2>10 DEF SentimentAlone
    <2>12. QED BY <2>4, <2>5, <2>6, <2>9, <2>11 DEF r
  <1>9. QED BY <1>7, <1>8

(* A record that is asked about gets an answer to its own text and a score *)
(* for each of its own aspects.                                            *)
LEMMA OwnSentiment ==
    ASSUME NEW R, NEW records \in Seq(R), NEW failing, NEW i \in DOMAIN records
    PROVE  LET s == SentimentOf(records, failing, i)
               r == records[i]
           IN  /\ ~Answered(records, failing, i) => s.overall = Unset /\ s.aspects = <<>>
               /\ Answered(records, failing, i) =>
                     /\ s.overall = IF "overall" \in failing \/ r.text = Blank THEN Neutral
                                    ELSE <<r.text>>
                     /\ \E g : s.aspects = [a \in AspectsOf(Keywords(r)) |-> g[a]]
  <1> DEFINE r == records[i]
             s == SentimentOf(records, failing, i)
  <1>1. s = SentimentAlone(r, failing)
    BY SentimentIsOwn
  <1>2. Answered(records, failing, i)
            <=> ~(r.fate = "raises" \/ Skips(r.post) \/ "batch" \in failing)
    BY DEF Answered, Asked
  <1> HIDE DEF r, s
  <1>3. ~Answered(records, failing, i) => s = [overall |-> Unset, aspects |-> <<>>]
    BY <1>1, <1>2 DEF SentimentAlone
  <1>4. Answered(records, failing, i) =>
            s.overall = IF "overall" \in failing \/ r.text = Blank THEN Neutral ELSE <<r.text>>
    BY <1>1, <1>2 DEF SentimentAlone
  <1>5. ASSUME Answered(records, failing, i)
        PROVE  \E g : s.aspects = [a \in AspectsOf(Keywords(r)) |-> g[a]]
    <2>1. s.aspects = [a \in AspectsOf(Keywords(r)) |->
                          IF "windows" \in failing THEN At(<<>>, {})
                          ELSE WindowsFor(SentimentInput(r), a)]
      BY <1>1, <1>2, <1>5 DEF SentimentAlone
    <2>2. s.aspects = [a \in AspectsOf(Keywords(r)) |-> s.aspects[a]]
      BY <2>1
    <2>3. QED BY <2>2
  <1>6. QED BY <1>3, <1>4, <1>5 DEF r, s

(* What a record comes to alone.                                           *)
LEMMA FactsAlone ==
    ASSUME NEW r, NEW failing
    PROVE  /\ r.fate # "fine" => Len(EnrichBatch(<<r>>, failing)) = 0
                                 /\ EnrichBatch(<<r>>, failing) = <<>>
           /\ r.fate = "fine" => /\ Len(EnrichBatch(<<r>>, failing)) = 1
                                 /\ EnrichBatch(<<r>>, failing) # <<>>
                                 /\ EnrichBatch(<<r>>, failing)[1]
                                       = FactOf(r, SentimentAlone(r, failing))
  <1> DEFINE one == <<r>>
             F == Fine(one)
             alone == EnrichBatch(one, failing)
  <1>1. one \in Seq({r}) /\ DOMAIN one = {1} /\ one[1] = r
    OBVIOUS
  <1>2. /\ DOMAIN alone = 1 .. Cardinality(F)
        /\ \A n \in 1 .. Cardinality(F) :
              LET i == Nth(F, n)
              IN  /\ i \in DOMAIN one /\ one[i].fate = "fine"
                  /\ alone[n] = FactOf(one[i], SentimentOf(one, failing, i))
    <2> HIDE DEF one
    <2>1. QED BY <1>1, FactsOfBatch
  <1>3. \E g : alone = [n \in DOMAIN alone |-> g[n]]
    <2>1. alone = [n \in DOMAIN alone |-> alone[n]]
      BY DEF EnrichBatch
    <2> HIDE DEF alone
    <2>2. QED BY <2>1
  <1>4. SentimentOf(one, failing, 1) = SentimentAlone(r, failing)
    <2> HIDE DEF one
    <2>1. QED BY <1>1, SentimentIsOwn
  <1>5. CASE r.fate # "fine"
    <2>1. F = {}
      <3> HIDE DEF one
      <3>1. QED BY <1>1, <1>5 DEF Fine
    <2>2. Cardinality(F) = 0
      BY <2>1, FS_EmptySet
    <2> HIDE DEF F, alone, one
    <2>3. DOMAIN alone = {}
      BY <1>2, <2>2
    <2>4. alone = <<>>
      BY <1>3, <2>3
    <2>5. QED BY <1>5, <2>4 DEF alone, one
  <1>6. CASE r.fate = "fine"
    <2>1. F = {1}
      <3> HIDE DEF one
      <3>1. QED BY <1>1, <1>6 DEF Fine
    <2>2. Cardinality(F) = 1
      BY <2>1, FS_Singleton
    <2>3. Nth(F, 1) = 1
      <3> HIDE DEF F
      <3>1. IsFiniteSet(F)
        BY <2>1, FS_Singleton
      <3>2. F \in SUBSET Nat
        BY <2>1
      <3>3. Nth(F, 1) \in F
        BY <2>2, <3>1, <3>2, PlacesInOrder
      <3>4. QED BY <2>1, <3>3
    <2> HIDE DEF F, alone, one
    <2>4. DOMAIN alone = 1 .. 1
      BY <1>2, <2>2
    <2>5. alone[1] = FactOf(r, SentimentAlone(r, failing))
      BY <1>1, <1>2, <1>4, <2>2, <2>3
    <2>6. Len(alone) = 1 /\ alone # <<>>
      BY <1>3, <2>4
    <2>7. QED BY <1>6, <2>5, <2>6 DEF alone, one
  <1>7. QED BY <1>5, <1>6

(* In every run batching is invisible: each record gets the fact it would  *)
(* get alone, in the order of records, for any number of records, texts    *)
(* and keywords, and whatever fails.                                       *)
THEOREM BatchingIsInvisible == Spec => []NlpFactsAligned
  <1>1. NlpFactsOfRecords => NlpFactsAligned
    <2> SUFFICES ASSUME NlpFactsOfRecords PROVE NlpFactsAligned
      OBVIOUS
    <2> DEFINE records == facts.analysed
               failing == run.failing
               alone(i) == EnrichBatch(<<records[i]>>, failing)
               S == {i \in DOMAIN records : alone(i) # <<>>}
               kept == At([i \in DOMAIN records |-> i], S)
               F == Fine(records)
    <2>1. records \in Seq(Range(run.records)) /\ facts.nlp = EnrichBatch(records, failing)
      BY DEF NlpFactsOfRecords
    <2>2. \A i \in DOMAIN records :
              /\ records[i].fate # "fine" => Len(alone(i)) = 0 /\ alone(i) = <<>>
              /\ records[i].fate = "fine" =>
                    /\ Len(alone(i)) = 1 /\ alone(i) # <<>>
                    /\ alone(i)[1] = FactOf(records[i], SentimentAlone(records[i], failing))
      <3> HIDE DEF records, failing
      <3>1. QED BY FactsAlone
    <2>3. \A i \in DOMAIN records :
              SentimentOf(records, failing, i) = SentimentAlone(records[i], failing)
      <3> HIDE DEF records, failing
      <3>1. QED BY <2>1, SentimentIsOwn
    <2>4. S = F
      <3> HIDE DEF records, failing, alone
      <3>1. QED BY <2>2 DEF Fine
    <2>5. /\ DOMAIN kept = 1 .. Cardinality(F)
          /\ \A n \in 1 .. Cardinality(F) : kept[n] = Nth(F, n) /\ Nth(F, n) \in F
      <3>1. F \in SUBSET (DOMAIN records)
        BY DEF Fine
      <3>2. records \in Seq(Range(run.records))
        BY <2>1
      <3> HIDE DEF records, S, F
      <3>3. QED BY ONLY <2>4, <3>1, <3>2, PlacesThemselves
    <2>6. /\ DOMAIN EnrichBatch(records, failing) = 1 .. Cardinality(F)
          /\ \A n \in 1 .. Cardinality(F) :
                LET i == Nth(F, n)
                IN  /\ i \in DOMAIN records /\ records[i].fate = "fine"
                    /\ EnrichBatch(records, failing)[n]
                          = FactOf(records[i], SentimentOf(records, failing, i))
      <3> HIDE DEF records, failing
      <3>1. QED BY <2>1, FactsOfBatch
    <2>7. facts.nlp = [n \in DOMAIN kept |-> facts.nlp[n]]
      <3>1. EnrichBatch(records, failing)
               = [n \in DOMAIN EnrichBatch(records, failing) |-> EnrichBatch(records, failing)[n]]
        <4> HIDE DEF records, failing
        <4>1. QED BY DEF EnrichBatch
      <3> HIDE DEF records, failing, kept, F
      <3>2. QED BY <2>1, <2>5, <2>6, <3>1
    <2> HIDE DEF alone, kept, F, S
    <2>8. \A n \in DOMAIN kept : facts.nlp[n] = alone(kept[n])[1]
      <3> HIDE DEF records, failing
      <3>1. QED BY <2>1, <2>2, <2>3, <2>5, <2>6
    <2>9. \A i \in DOMAIN records : Len(alone(i)) <= 1
      <3> SUFFICES ASSUME NEW i \in DOMAIN records PROVE Len(alone(i)) <= 1
        OBVIOUS
      <3> HIDE DEF records, failing
      <3>1. Len(alone(i)) = 0 \/ Len(alone(i)) = 1
        BY <2>2
      <3>2. \A x : x = 0 \/ x = 1 => x <= 1
        OBVIOUS
      <3>3. QED BY <3>1, <3>2, Zenon
    <2>10. facts.nlp = [n \in DOMAIN kept |-> alone(kept[n])[1]]
      <3> HIDE DEF records, failing
      <3>1. QED BY <2>7, <2>8
    <2>11. QED BY <2>9, <2>10 DEF NlpFactsAligned, alone, kept, S
  <1>2. QED BY <1>1, NlpFactsStay, PTL

-----------------------------------------------------------------------------
\* Failures of later stages.

\* A label that makes nothing worse than another: the same, or the neutral one.
NoWorse(hl, sl) == hl = sl \/ hl = "NEUTRAL"

(* The factors of an impact are not negative.                              *)
LEMMA EngagementNotNegative ==
    ASSUME NEW c \in Counts
    PROVE  Engagement(c) \in Nat
  <1> DEFINE weighted == c.likes + 2 * c.comments + 3 * c.shares
             score == IF c.views >= 100 THEN (10000 * weighted) \div c.views ELSE 100 * weighted
  <1>1. weighted \in Nat /\ c.views \in Nat
    BY DEF Counts
  <1>2. score \in Nat
    <2> HIDE DEF weighted
    <2>1. CASE c.views >= 100
      <3>1. (10000 * weighted) \in Nat /\ c.views \in Nat \ {0}
        BY <1>1, <2>1
      <3>2. \A x \in Nat, y \in Nat \ {0} : x \div y \in Nat
        OBVIOUS
      <3>3. QED BY <2>1, <3>1, <3>2
    <2>2. CASE ~(c.views >= 100)
      BY <1>1, <2>2
    <2>3. QED BY <2>1, <2>2
  <1>3. Engagement(c) = Min({10000, score})
    BY DEF Engagement
  <1> HIDE DEF score
  <1>4. Min({10000, score}) \in {10000, score}
    <2>1. \E x \in {10000, score} : \A y \in {10000, score} : x <= y
      BY <1>2
    <2>2. QED BY <2>1 DEF Min
  <1>5. QED BY <1>2, <1>3, <1>4

(* The same for the reach.                                                 *)
LEMMA ReachNotNegative ==
    ASSUME NEW c \in Counts
    PROVE  Reach(c) \in Nat
  <1> DEFINE n == c.followers + 1
             S == {k \in 1 .. 9 : 10 ^ k <= n}
  <1>1. Cardinality(S) \in Nat
    <2>1. S \subseteq 1 .. 9
      OBVIOUS
    <2>2. IsFiniteSet(1 .. 9)
      BY FS_Interval, 1 \in Int, 9 \in Int
    <2> HIDE DEF S
    <2>3. IsFiniteSet(S)
      BY <2>1, <2>2, FS_Subset
    <2>4. QED BY <2>3, FS_CardinalityType
  <1>2. Decades(n) = Cardinality(S)
    BY DEF Decades
  <1> HIDE DEF n, S
  <1>3. Decades(n) \in Nat
    BY <1>1, <1>2
  <1>4. Reach(c) = Decades(n) * (IF c.verified THEN 12 ELSE 10)
    BY DEF Reach, n
  <1>5. (IF c.verified THEN 12 ELSE 10) \in Nat
    OBVIOUS
  <1>6. \A x, y \in Nat : x * y \in Nat
    OBVIOUS
  <1>7. QED BY <1>3, <1>4, <1>5, <1>6

(* Neutral is the weakest amplifier.  [impact_calculation/helpers.py]      *)
LEMMA ImpactGrows ==
    ASSUME NEW c \in Counts, NEW hl \in Labels, NEW sl \in Labels, NoWorse(hl, sl)
    PROVE  /\ 0 <= RawImpact(c, hl) /\ RawImpact(c, hl) \in Int
           /\ RawImpact(c, hl) <= RawImpact(c, sl) /\ RawImpact(c, sl) \in Int
  <1> DEFINE base == Engagement(c) * Reach(c) * PlatformMultiplier(c.platform)
  <1>1. base \in Nat
    <2>1. Engagement(c) \in Nat /\ Reach(c) \in Nat
      BY EngagementNotNegative, ReachNotNegative
    <2>2. PlatformMultiplier(c.platform) \in {10, 11, 12, 15}
      BY DEF PlatformMultiplier
    <2>3. PlatformMultiplier(c.platform) \in Nat
      BY <2>2
    <2>4. \A x, y \in Nat : x * y \in Nat
      OBVIOUS
    <2>5. Engagement(c) * Reach(c) \in Nat
      BY <2>1, <2>4
    <2>6. QED BY <2>3, <2>4, <2>5
  <1>2. SentimentAmplifier(hl) \in {10, 11, 15} /\ SentimentAmplifier(sl) \in {10, 11, 15}
        /\ SentimentAmplifier(hl) <= SentimentAmplifier(sl)
    BY DEF SentimentAmplifier, NoWorse, Labels
  <1>3. RawImpact(c, hl) = base * SentimentAmplifier(hl)
        /\ RawImpact(c, sl) = base * SentimentAmplifier(sl)
    BY DEF RawImpact
  <1> HIDE DEF base
  <1>4. QED BY <1>1, <1>2, <1>3

(* Neutral is the lowest risk, at every count of shares.  [calculate_risk] *)
LEMMA RiskGrows ==
    ASSUME NEW c, CountsType(c), NEW hl \in Labels, NEW sl \in Labels, NoWorse(hl, sl),
           NEW alarm \in BOOLEAN
    PROVE  /\ RiskRank(RiskLevel(c, hl, alarm)) <= RiskRank(RiskLevel(c, sl, alarm))
           /\ RiskRank(RiskLevel(c, hl, alarm)) \in 1 .. 4
           /\ RiskRank(RiskLevel(c, sl, alarm)) \in 1 .. 4
           /\ RiskLevel(c, hl, alarm) \in Risky => RiskLevel(c, sl, alarm) \in Risky
  <1> DEFINE a == RiskBase(hl, alarm)
             b == RiskBase(sl, alarm)
  <1>1. a \in {0, 30, 40, 70} /\ b \in {0, 30, 40, 70}
    BY BaseValues
  <1>2. a <= b
    BY DEF RiskBase, ScoreOf, NoWorse, Labels
  <1> HIDE DEF a, b
  <1>3. /\ Others(c) \in Nat /\ Boost(c, a) \in Nat /\ Boost(c, b) \in Nat
        /\ a <= b => Boost(c, a) <= Boost(c, b)
    BY <1>1 DEF CountsType, Others, Boost
  <1>4. /\ Reaches(c, a, 80) => Reaches(c, b, 80)
        /\ Reaches(c, a, 60) => Reaches(c, b, 60)
        /\ Reaches(c, a, 30) => Reaches(c, b, 30)
    BY <1>1, <1>2, <1>3 DEF Reaches
  <1>5. ASSUME NEW x \in {0, 30, 40, 70}
        PROVE  \/ /\ Reaches(c, x, 80) /\ LevelOf(c, x) = "CRITICAL"
               \/ /\ ~Reaches(c, x, 80) /\ Reaches(c, x, 60) /\ LevelOf(c, x) = "HIGH"
               \/ /\ ~Reaches(c, x, 80) /\ ~Reaches(c, x, 60) /\ Reaches(c, x, 30)
                  /\ LevelOf(c, x) = "MEDIUM"
               \/ /\ ~Reaches(c, x, 80) /\ ~Reaches(c, x, 60) /\ ~Reaches(c, x, 30)
                  /\ LevelOf(c, x) = "LOW"
    BY LevelReached
  <1>6. /\ RiskLevel(c, hl, alarm) = LevelOf(c, a)
        /\ RiskLevel(c, sl, alarm) = LevelOf(c, b)
    BY Zenon DEF RiskLevel, a, b
  <1>7. \/ LevelOf(c, a) = "LOW"
        \/ LevelOf(c, a) = LevelOf(c, b)
        \/ LevelOf(c, a) = "MEDIUM" /\ LevelOf(c, b) \in {"HIGH", "CRITICAL"}
        \/ LevelOf(c, a) = "HIGH" /\ LevelOf(c, b) = "CRITICAL"
    BY <1>1, <1>4, <1>5
  <1>8. LevelOf(c, a) \in {"LOW", "MEDIUM", "HIGH", "CRITICAL"}
        /\ LevelOf(c, b) \in {"LOW", "MEDIUM", "HIGH", "CRITICAL"}
    BY <1>1, <1>5
  <1>9. QED BY <1>6, <1>7, <1>8, RiskRanks DEF Risky

\* The post with the failures of its later stages undone.
EarlyPost(p) == [p EXCEPT !.failing = @ \cap {"preprocessing", "intent"}]
Early(r) == [r EXCEPT !.post.failing = @ \cap {"preprocessing", "intent"}]

(* Undoing later failures leaves the post what it is.                      *)
LEMMA EarlyPosts ==
    ASSUME NEW p \in Posts
    PROVE  LET q == EarlyPost(p)
           IN  /\ q \in Posts
               /\ q.raw = p.raw /\ q.clean = p.clean /\ q.context = p.context
               /\ q.counts = p.counts /\ "keywords" \notin q.failing /\ "impact" \notin q.failing
               /\ "preprocessing" \in q.failing <=> "preprocessing" \in p.failing
               /\ "intent" \in q.failing <=> "intent" \in p.failing
  BY DEF Posts, EarlyPost

(* It turns the same way before the later stages, and a failed keyword     *)
(* stage leaves no keywords.  [batch_enricher.py:_run_stages_1_to_3]       *)
LEMMA EarlyTurns ==
    ASSUME NEW p \in Posts
    PROVE  LET q == EarlyPost(p)
           IN  /\ Full(q) = Full(p) /\ Heard(q) = Heard(p)
               /\ PrimaryIntent(q) = PrimaryIntent(p)
               /\ Skips(q) <=> Skips(p)
               /\ \A text : KeywordsOf(p, text) \in {<<>>, KeywordsOf(q, text)}
  <1> DEFINE q == EarlyPost(p)
  <1>1. /\ q.raw = p.raw /\ q.clean = p.clean
        /\ "keywords" \notin q.failing
        /\ "preprocessing" \in q.failing <=> "preprocessing" \in p.failing
        /\ "intent" \in q.failing <=> "intent" \in p.failing
    BY EarlyPosts
  <1> HIDE DEF q
  <1>2. Full(q) = Full(p)
    BY <1>1 DEF Full
  <1>3. Heard(q) = Heard(p)
    BY <1>1, <1>2 DEF Heard
  <1>4. PrimaryIntent(q) = PrimaryIntent(p)
    BY <1>1, <1>2 DEF PrimaryIntent
  <1>5. Skips(q) <=> Skips(p)
    BY <1>4 DEF Skips
  <1>6. ASSUME NEW text PROVE KeywordsOf(p, text) \in {<<>>, KeywordsOf(q, text)}
    BY <1>1, <1>2, <1>5 DEF KeywordsOf
  <1>7. QED BY <1>2, <1>3, <1>4, <1>5, <1>6 DEF q

(* The same of its record.                                                 *)
LEMMA EarlyRecords ==
    ASSUME NEW r \in Records
    PROVE  /\ Early(r) \in Records
           /\ Early(r).post = EarlyPost(r.post) /\ Early(r).type = r.type
           /\ Early(r).text = r.text /\ Early(r).fate = r.fate
  <1>1. r.post \in Posts /\ EarlyPost(r.post) \in Posts
    BY EarlyPosts DEF Records
  <1>2. Early(r) = [r EXCEPT !.post = EarlyPost(r.post)]
    BY DEF Early, EarlyPost
  <1> HIDE DEF EarlyPost
  <1>3. QED BY <1>1, <1>2 DEF Records

\* Calibration makes no answer at all no worse than any answer.
LEMMA CalibratedNoWorse ==
    ASSUME NEW t, NEW intent, intent \notin Unwanted, NEW l \in Labels,
           "upset" \in t.traits => intent \notin {"SUPPORT", "LEAD"}
    PROVE  /\ Calibrated(l, t, intent) \in Labels
           /\ NoWorse(Calibrated("NEUTRAL", t, intent), Calibrated(l, t, intent))
  BY DEF Calibrated, NoWorse, Labels, Unwanted

\* One verdict claims no more than another of the same intent.
ClaimsLess(v, w) == /\ v.intent = w.intent
                    /\ v.risk \in Risky => w.risk \in Risky
                    /\ v.label = "NEGATIVE" => w.label = "NEGATIVE"
                    /\ v.aspects => w.aspects

(* What the analysis found adds points, and never takes any.               *)
(* [relevance.py:264-293]                                                  *)
LEMMA ClaimsAddPoints ==
    ASSUME NEW says \in SUBSET TermKinds, NEW around \in SUBSET TermKinds,
           NEW v, VerdictType(v), NEW w, VerdictType(w), ClaimsLess(v, w)
    PROVE  VerdictPoints(says, around, v) <= VerdictPoints(says, around, w)
  <1> DEFINE own == "brand" \in says \/ "logistics" \in says
             Risk(x) == Points(x.risk \in Risky /\ own, 800)
             Complaint(x) == Points(x.label = "NEGATIVE" /\ (own \/ "competitor" \in says), 500)
             Aspect(x) == IF x.aspects /\ (own \/ "brand" \in around) THEN 800
                          ELSE Points(x.aspects /\ "domain" \in (says \cup around), 600)
             Acts(x) == Points(x.intent \in ActionIntents, 1000)
  <1>1. Acts(v) = Acts(w) /\ Acts(w) \in Int
    BY DEF Points, ClaimsLess
  <1>2. Risk(v) <= Risk(w) /\ Risk(v) \in Int /\ Risk(w) \in Int
    BY DEF Points, ClaimsLess
  <1>3. Complaint(v) <= Complaint(w) /\ Complaint(v) \in Int /\ Complaint(w) \in Int
    BY DEF Points, ClaimsLess
  <1>4. Aspect(v) <= Aspect(w) /\ Aspect(v) \in Int /\ Aspect(w) \in Int
    BY DEF Points, ClaimsLess
  <1>5. \A x : VerdictPoints(says, around, x) = Acts(x) + Risk(x) + Complaint(x) + Aspect(x)
    BY DEF VerdictPoints
  <1> HIDE DEF Acts, Risk, Complaint, Aspect
  <1>6. QED BY <1>1, <1>2, <1>3, <1>4, <1>5

(* So it does next to everything else.                                     *)
LEMMA ClaimsGather ==
    ASSUME NEW t, TextType(t), NEW around \in SUBSET TermKinds,
           NEW v, VerdictType(v), NEW w, VerdictType(w), ClaimsLess(v, w)
    PROVE  /\ Gathered(t, around, v) <= Gathered(t, around, w)
           /\ 0 <= Gathered(t, around, v) /\ Gathered(t, around, v) \in Int
           /\ Gathered(t, around, w) \in Int
  <1> DEFINE rest == BrandPoints(t.says, around) + LogisticsPoints(t.says, around)
                       + CompetitorPoints(t.says, around) + DomainPoints(t.says, around)
             long == Points(t.length >= 80
                              /\ t.says \cap {"brand", "logistics", "domain"} # {}, 600)
  <1>1. t.says \in SUBSET TermKinds
    BY DEF TextType
  <1>2. rest \in Int
    <2> HIDE DEF Points
    <2>1. /\ BrandPoints(t.says, around) \in Int /\ LogisticsPoints(t.says, around) \in Int
          /\ CompetitorPoints(t.says, around) \in Int /\ DomainPoints(t.says, around) \in Int
      BY <1>1, SignalsGrow
    <2>2. QED BY <2>1
  <1>3. long \in Int
    BY DEF Points
  <1>4. VerdictPoints(t.says, around, v) <= VerdictPoints(t.says, around, w)
    BY <1>1, ClaimsAddPoints
  <1>5. VerdictPoints(t.says, around, v) \in Int /\ VerdictPoints(t.says, around, w) \in Int
    BY <1>1, VerdictGrows
  <1>6. \A x : Gathered(t, around, x) = rest + VerdictPoints(t.says, around, x) + long
    BY DEF Gathered
  <1> HIDE DEF rest, long
  <1>7. Gathered(t, around, v) <= Gathered(t, around, w)
    BY <1>2, <1>3, <1>4, <1>5, <1>6
  <1>8. /\ 0 <= Gathered(t, around, v) /\ Gathered(t, around, v) \in Int
        /\ Gathered(t, around, w) \in Int
    BY GatheredGrows, NothingMore
  <1>9. QED BY <1>7, <1>8

(* A verdict that claims less is of no more relevance.                     *)
LEMMA ClaimsCount ==
    ASSUME NEW t, TextType(t), NEW around \in SUBSET TermKinds,
           NEW v, VerdictType(v), NEW w, VerdictType(w), ClaimsLess(v, w),
           NEW type, NEW bare \in BOOLEAN
    PROVE  BusinessRelevance(t, type, around, bare, v)
               <= BusinessRelevance(t, type, around, bare, w)
  <1> DEFINE n == Gathered(t, around, v)
             m == Gathered(t, around, w)
             a == CappedPoints(t, type, around, n)
             b == CappedPoints(t, type, around, m)
  <1>1. n \in Int /\ m \in Int /\ 0 <= n /\ n <= m
    BY ClaimsGather
  <1>2. Nothing \in Wordings /\ Saying(t, Nothing) = t
    BY NothingMore
  <1>3. a \in Int /\ b \in Int /\ a <= b
    <2> HIDE DEF n, m
    <2>2. /\ CappedPoints(t, type, around, n) \in Int
          /\ CappedPoints(Saying(t, Nothing), type, around, m) \in Int
          /\ CappedPoints(t, type, around, n)
                <= CappedPoints(Saying(t, Nothing), type, around, m)
      BY <1>1, <1>2, CapsGrow
    <2>3. QED BY <1>2, <2>2
  <1>4. LET r == BusinessRelevance(t, type, around, bare, v)
        IN  /\ TakenForGame(t) => r = 800
            /\ ~TakenForGame(t) /\ bare => r = 0
            /\ ~TakenForGame(t) /\ ~bare => r = Topped(a)
    BY RelevanceOfText
  <1>5. LET r == BusinessRelevance(t, type, around, bare, w)
        IN  /\ TakenForGame(t) => r = 800
            /\ ~TakenForGame(t) /\ bare => r = 0
            /\ ~TakenForGame(t) /\ ~bare => r = Topped(b)
    BY RelevanceOfText
  <1> HIDE DEF a, b
  <1>6. Topped(a) <= Topped(b)
    BY <1>3 DEF Topped
  <1>7. CASE TakenForGame(t)
    BY <1>4, <1>5, <1>7
  <1>8. CASE ~TakenForGame(t) /\ bare
    <2>1. /\ BusinessRelevance(t, type, around, bare, v) = 0
          /\ BusinessRelevance(t, type, around, bare, w) = 0
      BY ONLY <1>4, <1>5, <1>8, Zenon
    <2>2. QED BY ONLY <2>1
  <1>9. CASE ~TakenForGame(t) /\ ~bare
    <2>1. /\ BusinessRelevance(t, type, around, bare, v) = Topped(a)
          /\ BusinessRelevance(t, type, around, bare, w) = Topped(b)
      BY ONLY <1>4, <1>5, <1>9, Zenon
    <2>2. QED BY ONLY <1>6, <2>1
  <1>10. QED BY <1>7, <1>8, <1>9

(* A failed impact stage leaves the lowest risk and no impact.             *)
LEMMA EarlyJudged ==
    ASSUME NEW p \in Posts, NEW hl \in Labels, NEW sl \in Labels, NoWorse(hl, sl)
    PROVE  LET h == Judged(p, hl)
               s == Judged(EarlyPost(p), sl)
           IN  /\ RiskRank(h.risk) <= RiskRank(s.risk)
               /\ h.risk \in Risky => s.risk \in Risky
               /\ h.impact <= s.impact /\ h.impact \in Int /\ s.impact \in Int
  <1> DEFINE q == EarlyPost(p)
             h == Judged(p, hl)
             s == Judged(q, sl)
             alarm == "alarm" \in Full(p).traits
             c == p.counts
  <1>1. /\ Full(q) = Full(p) /\ (Skips(q) <=> Skips(p)) /\ q.counts = c
        /\ "impact" \notin q.failing
    BY EarlyPosts, EarlyTurns
  <1>2. c \in Counts /\ CountsType(c) /\ alarm \in BOOLEAN
    BY DEF Posts, Counts, CountsType
  <1>3. ASSUME NEW l \in Labels
        PROVE  RiskRank(RiskLevel(c, l, alarm)) \in 1 .. 4
               /\ 0 <= RawImpact(c, l) /\ RawImpact(c, l) \in Int
    <2>1. NoWorse(l, l)
      BY DEF NoWorse
    <2> HIDE DEF c, alarm
    <2>2. QED BY <1>2, <2>1, RiskGrows, ImpactGrows
  <1>4. CASE Skips(p)
    <2>1. h.risk = "LOW" /\ h.impact = 0
      BY <1>4 DEF Judged
    <2>2. s.risk = "LOW" /\ s.impact = 0
      <3> HIDE DEF q
      <3>1. QED BY <1>1, <1>4 DEF Judged
    <2> HIDE DEF h, s
    <2>3. RiskRank(h.risk) = 1 /\ RiskRank(s.risk) = 1 /\ h.risk \notin Risky
      BY <2>1, <2>2, RiskRanks DEF Risky
    <2>4. QED BY <2>1, <2>2, <2>3 DEF h, s, q
  <1>5. CASE ~Skips(p)
    <2>1. s.risk = RiskLevel(c, sl, alarm) /\ s.impact = RawImpact(c, sl)
      <3> HIDE DEF q, c
      <3>1. QED BY <1>1, <1>5 DEF Judged
    <2>2. CASE "impact" \in p.failing
      <3>1. h.risk = "LOW" /\ h.impact = 0
        BY <2>2 DEF Judged
      <3> HIDE DEF h, s, c, alarm
      <3>2. RiskRank(h.risk) = 1 /\ h.risk \notin Risky
        BY <3>1, RiskRanks DEF Risky
      <3>3. RiskRank(s.risk) \in 1 .. 4 /\ 0 <= s.impact /\ s.impact \in Int
        BY <1>3, <2>1
      <3>4. QED BY <3>1, <3>2, <3>3 DEF h, s, q
    <2>3. CASE "impact" \notin p.failing
      <3>1. h.risk = RiskLevel(c, hl, alarm) /\ h.impact = RawImpact(c, hl)
        BY <1>5, <2>3 DEF Judged
      <3> HIDE DEF h, s, c, alarm
      <3>2. /\ RiskRank(RiskLevel(c, hl, alarm)) <= RiskRank(RiskLevel(c, sl, alarm))
            /\ RiskLevel(c, hl, alarm) \in Risky => RiskLevel(c, sl, alarm) \in Risky
        BY <1>2, RiskGrows
      <3>3. /\ RawImpact(c, hl) <= RawImpact(c, sl)
            /\ RawImpact(c, hl) \in Int /\ RawImpact(c, sl) \in Int
        BY <1>2, ImpactGrows
      <3>4. QED BY <2>1, <3>1, <3>2, <3>3 DEF h, s, q
    <2>4. QED BY <2>2, <2>3
  <1>6. QED BY <1>4, <1>5

(* A post hurt by later failures gets no stronger verdict.                 *)
LEMMA EarlyVerdict ==
    ASSUME NEW p \in Posts, NEW type, NEW hl \in Labels, NEW sl \in Labels, NoWorse(hl, sl),
           NEW hk, NEW sk, NEW ha \in BOOLEAN, NEW sa \in BOOLEAN, ha => sa
    PROVE  LET v == Verdict(p, type, hl, hk, ha)
               w == Verdict(EarlyPost(p), type, sl, sk, sa)
           IN  /\ v.intent = w.intent /\ v.keywords = hk /\ w.keywords = sk
               /\ v.aspects <=> ha
               /\ w.aspects <=> sa
               /\ RiskRank(v.risk) <= RiskRank(w.risk)
               /\ v.risk \in Risky => w.risk \in Risky
               /\ v.impact <= w.impact /\ v.impact \in Int /\ w.impact \in Int
               /\ v.relevance <= w.relevance /\ v.relevance \in Int /\ w.relevance \in Int
  <1> DEFINE q == EarlyPost(p)
             v == Verdict(p, type, hl, hk, ha)
             w == Verdict(q, type, sl, sk, sa)
             hs == [intent |-> PrimaryIntent(p), label |-> hl, risk |-> Judged(p, hl).risk,
                    aspects |-> ha]
             ss == [intent |-> PrimaryIntent(q), label |-> sl, risk |-> Judged(q, sl).risk,
                    aspects |-> sa]
             around == ContextSays(p.context)
             bare == Heard(p).length = 0 /\ p.context = {}
  <1>1. /\ q \in Posts /\ q.context = p.context /\ Heard(q) = Heard(p)
        /\ PrimaryIntent(q) = PrimaryIntent(p)
    BY EarlyPosts, EarlyTurns
  <1>2. LET h == Judged(p, hl)
            s == Judged(q, sl)
        IN  /\ RiskRank(h.risk) <= RiskRank(s.risk)
            /\ h.risk \in Risky => s.risk \in Risky
            /\ h.impact <= s.impact /\ h.impact \in Int /\ s.impact \in Int
    BY EarlyJudged
  <1> HIDE DEF q
  <1>3. /\ v.intent = PrimaryIntent(p) /\ v.keywords = hk /\ v.risk = Judged(p, hl).risk
        /\ v.impact = Judged(p, hl).impact /\ v.relevance = RelevanceOf(p, type, hs)
    BY DEF Verdict
  <1>4. /\ w.intent = PrimaryIntent(q) /\ w.keywords = sk /\ w.risk = Judged(q, sl).risk
        /\ w.impact = Judged(q, sl).impact /\ w.relevance = RelevanceOf(q, type, ss)
    BY DEF Verdict
  <1>5. (v.aspects <=> ha) /\ (w.aspects <=> sa)
    BY DEF Verdict
  <1>6. VerdictType(hs) /\ VerdictType(ss)
    BY DEF VerdictType
  <1>7. ClaimsLess(hs, ss)
    <2>1. hl = "NEGATIVE" => sl = "NEGATIVE"
      BY DEF NoWorse
    <2>2. QED BY <1>1, <1>2, <2>1 DEF ClaimsLess
  <1>8. /\ TextType(Heard(p)) /\ around \in SUBSET TermKinds /\ bare \in BOOLEAN
    <2>1. Heard(p) \in Texts
      BY DEF Posts, Heard, Full
    <2>2. TextType(Heard(p))
      BY <2>1, TextIsText
    <2>3. around \in SUBSET TermKinds
      BY DEF Posts, ContextSays
    <2>4. QED BY <2>2, <2>3
  <1> HIDE DEF hs, ss, v, w
  <1>9. RelevanceOf(p, type, hs) = BusinessRelevance(Heard(p), type, around, bare, hs)
    BY DEF RelevanceOf
  <1>10. RelevanceOf(q, type, ss) = BusinessRelevance(Heard(p), type, around, bare, ss)
    BY <1>1 DEF RelevanceOf
  <1> HIDE DEF around, bare
  <1>11. /\ BusinessRelevance(Heard(p), type, around, bare, hs)
               <= BusinessRelevance(Heard(p), type, around, bare, ss)
         /\ BusinessRelevance(Heard(p), type, around, bare, hs) \in Int
         /\ BusinessRelevance(Heard(p), type, around, bare, ss) \in Int
    BY <1>6, <1>7, <1>8, ClaimsCount, RelevanceIsNumber
  <1>12. v.intent = w.intent /\ v.keywords = hk /\ w.keywords = sk
    BY <1>1, <1>3, <1>4
  <1>13. /\ RiskRank(v.risk) <= RiskRank(w.risk)
         /\ v.risk \in Risky => w.risk \in Risky
         /\ v.impact <= w.impact /\ v.impact \in Int /\ w.impact \in Int
    BY <1>2, <1>3, <1>4
  <1>14. v.relevance <= w.relevance /\ v.relevance \in Int /\ w.relevance \in Int
    BY <1>3, <1>4, <1>9, <1>10, <1>11
  <1>15. QED BY <1>5, <1>12, <1>13, <1>14 DEF v, w, q

(* Hiding never opens the gate.  [builder:_build_rag]                      *)
LEMMA GateStaysShut ==
    ASSUME NEW p \in Posts, NEW v, NEW w, v.intent = w.intent,
           v.risk \in Risky => w.risk \in Risky,
           v.aspects => w.aspects,
           NEW hk, NEW sk, v.keywords = hk, w.keywords = sk, hk = <<>> \/ hk = sk,
           NEW i \in Int, NEW j \in Int, v.impact = i, w.impact = j, i <= j,
           NEW m \in Int, NEW n \in Int, v.relevance = m, w.relevance = n, m <= n
    PROVE  ShouldIndex(p, v) => ShouldIndex(EarlyPost(p), w)
  <1>1. EarlyPost(p).raw = p.raw
    BY EarlyPosts
  <1>2. Len(v.keywords) >= 2 => Len(w.keywords) >= 2
    <2>1. Len(<<>>) = 0
      OBVIOUS
    <2>2. QED BY <2>1
  <1>3. v.impact >= MinImpact => w.impact >= MinImpact
    BY DEF MinImpact
  <1>4. AnalysisSignal(p, v) => AnalysisSignal(EarlyPost(p), w)
    BY <1>1, <1>2, <1>3 DEF AnalysisSignal
  <1>5. v.relevance >= MinRelevance => w.relevance >= MinRelevance
    BY DEF MinRelevance
  <1>6. QED BY <1>1, <1>4, <1>5 DEF ShouldIndex

\* The records with the failures of later stages undone.
EarlyAll(records) == [i \in DOMAIN records |-> Early(records[i])]

(* The same records are asked about and built with and without failures.   *)
LEMMA EarlyPlaces ==
    ASSUME NEW records \in Seq(Records)
    PROVE  /\ EarlyAll(records) \in Seq(Records)
           /\ DOMAIN EarlyAll(records) = DOMAIN records
           /\ Fine(EarlyAll(records)) = Fine(records)
           /\ Asked(EarlyAll(records)) = Asked(records)
  <1> DEFINE es == EarlyAll(records)
  <1>1. \A i \in DOMAIN records : records[i] \in Records
    OBVIOUS
  <1>2. es \in Seq(Records) /\ DOMAIN es = DOMAIN records
    <2>1. \A i \in DOMAIN records : Early(records[i]) \in Records
      BY <1>1, EarlyRecords
    <2>2. QED BY <2>1 DEF EarlyAll
  <1>3. ASSUME NEW i \in DOMAIN records
        PROVE  /\ es[i].fate = records[i].fate
               /\ Skips(es[i].post) <=> Skips(records[i].post)
    <2>1. records[i] \in Records /\ records[i].post \in Posts
      BY <1>1 DEF Records
    <2>2. es[i] = Early(records[i])
      BY DEF EarlyAll
    <2>3. Early(records[i]).fate = records[i].fate
          /\ Early(records[i]).post = EarlyPost(records[i].post)
      BY <2>1, EarlyRecords
    <2>4. Skips(EarlyPost(records[i].post)) <=> Skips(records[i].post)
      BY <2>1, EarlyTurns
    <2> HIDE DEF es
    <2>5. QED BY <2>2, <2>3, <2>4
  <1> HIDE DEF es
  <1>4. Fine(es) = Fine(records)
    BY <1>2, <1>3 DEF Fine
  <1>5. Asked(es) = Asked(records)
    BY <1>2, <1>3 DEF Asked
  <1>6. QED BY <1>2, <1>4, <1>5 DEF es

(* What the model says of a text, and what is made of it without.          *)
LEMMA LabelNoWorse ==
    ASSUME NEW r \in Records, ~UpsetRequest(r.post), NEW ho, NEW so,
           \/ ho = Unset /\ so = Unset
           \/ /\ ~Skips(r.post)
              /\ so = Neutral \/ so = <<r.text>>
              /\ ho = Unset \/ ho = Neutral \/ ho = so
    PROVE  /\ LabelOf(r, ho) \in Labels /\ LabelOf(Early(r), so) \in Labels
           /\ NoWorse(LabelOf(r, ho), LabelOf(Early(r), so))
  <1> DEFINE p == r.post
             t == Full(p)
             intent == PrimaryIntent(p)
             l == IF so = Neutral THEN "NEUTRAL" ELSE Opinions[so[1]]
  <1>1. /\ Full(Early(r).post) = t /\ PrimaryIntent(Early(r).post) = intent
    <2>1. p \in Posts /\ Early(r).post = EarlyPost(p)
      BY EarlyRecords DEF Records
    <2>2. Full(EarlyPost(p)) = Full(p) /\ PrimaryIntent(EarlyPost(p)) = PrimaryIntent(p)
      BY <2>1, EarlyTurns
    <2>3. QED BY <2>1, <2>2
  <1>2. Neutral # Unset /\ <<r.text>> # Unset /\ <<r.text>> # Neutral
    BY DEF Neutral, Unset
  <1>3. "NEUTRAL" \in Labels
    BY DEF Labels
  <1>4. CASE ho = Unset /\ so = Unset
    BY <1>3, <1>4 DEF LabelOf, NoWorse
  <1>5. CASE /\ ~Skips(p)
             /\ so = Neutral \/ so = <<r.text>>
             /\ ho = Unset \/ ho = Neutral \/ ho = so
    <2>1. l \in Labels
      <3>1. r.text \in DOMAIN Opinions
        BY DEF Records
      <3>2. Opinions[r.text] \in Labels
        BY <3>1, NlpAssumption DEF Range
      <3>3. <<r.text>>[1] = r.text
        OBVIOUS
      <3>4. QED BY <1>2, <1>3, <1>5, <3>2, <3>3
    <2>2. intent \notin Unwanted
      BY <1>5 DEF Skips
    <2>3. "upset" \in t.traits => intent \notin {"SUPPORT", "LEAD"}
      BY DEF UpsetRequest
    <2> HIDE DEF t, intent, l
    <2>4. /\ Calibrated(l, t, intent) \in Labels
          /\ NoWorse(Calibrated("NEUTRAL", t, intent), Calibrated(l, t, intent))
      BY <2>1, <2>2, <2>3, CalibratedNoWorse
    <2>5. Calibrated("NEUTRAL", t, intent) \in Labels
      BY <1>3, <2>4 DEF NoWorse
    <2>6. LabelOf(Early(r), so) = Calibrated(l, t, intent)
      BY <1>1, <1>2, <1>5 DEF LabelOf, l
    <2>7. CASE ho = Unset
      <3>1. LabelOf(r, ho) = "NEUTRAL"
        BY <2>7 DEF LabelOf
      <3>2. QED BY <1>3, <2>4, <2>6, <3>1 DEF NoWorse
    <2>8. CASE ho = Neutral
      <3>1. LabelOf(r, ho) = Calibrated("NEUTRAL", t, intent)
        BY <1>2, <2>8 DEF LabelOf, t, intent
      <3>2. QED BY <2>4, <2>5, <2>6, <3>1
    <2>9. CASE ho = so
      <3>1. LabelOf(r, ho) = Calibrated(l, t, intent)
        BY <1>2, <1>5, <2>9 DEF LabelOf, t, intent, l
      <3>2. QED BY <2>4, <2>6, <3>1 DEF NoWorse
    <2>10. QED BY <1>5, <2>7, <2>8, <2>9
  <1>6. QED BY <1>4, <1>5

(* A failure takes the model's answer away, and never changes it to        *)
(* another.  [process.py:process_batch, enrich_batch]                      *)
LEMMA EarlySentiment ==
    ASSUME NEW records \in Seq(Records), NEW failing, NEW i \in DOMAIN records,
           records[i].fate = "fine"
    PROVE  LET r == records[i]
               h == SentimentOf(records, failing, i)
               s == SentimentOf(EarlyAll(records), {}, i)
           IN  /\ \/ h.overall = Unset /\ s.overall = Unset
                  \/ /\ ~Skips(r.post)
                     /\ s.overall = Neutral \/ s.overall = <<r.text>>
                     /\ h.overall = Unset \/ h.overall = Neutral \/ h.overall = s.overall
               /\ h.aspects # <<>> => s.aspects # <<>>
  <1> DEFINE es == EarlyAll(records)
             r == records[i]
             e == es[i]
             h == SentimentOf(records, failing, i)
             s == SentimentOf(es, {}, i)
  <1>1. /\ es \in Seq(Records) /\ DOMAIN es = DOMAIN records /\ Asked(es) = Asked(records)
    BY EarlyPlaces
  <1>2. e = Early(r)
    BY DEF EarlyAll
  <1>3. r \in Records /\ r.post \in Posts /\ e.post = EarlyPost(r.post) /\ e.text = r.text
    <2>1. r \in Records
      OBVIOUS
    <2> HIDE DEF r, e
    <2>2. r.post \in Posts
      BY <2>1 DEF Records
    <2>3. QED BY <1>2, <2>1, <2>2, EarlyRecords
  <1>4. i \in Asked(records) <=> ~Skips(r.post)
    BY DEF Asked
  <1>5. /\ ~Answered(records, failing, i) => h.overall = Unset /\ h.aspects = <<>>
        /\ Answered(records, failing, i) =>
              /\ h.overall = IF "overall" \in failing \/ r.text = Blank THEN Neutral
                             ELSE <<r.text>>
              /\ \E g : h.aspects = [a \in AspectsOf(Keywords(r)) |-> g[a]]
    BY OwnSentiment
  <1> HIDE DEF es
  <1>6. /\ ~Answered(es, {}, i) => s.overall = Unset /\ s.aspects = <<>>
        /\ Answered(es, {}, i) =>
              /\ s.overall = IF "overall" \in {} \/ e.text = Blank THEN Neutral
                             ELSE <<e.text>>
              /\ \E g : s.aspects = [a \in AspectsOf(Keywords(e)) |-> g[a]]
    BY <1>1, OwnSentiment
  <1>7. Answered(es, {}, i) <=> ~Skips(r.post)
    BY <1>1, <1>4 DEF Answered
  <1>8. Answered(records, failing, i) => ~Skips(r.post)
    BY <1>4 DEF Answered
  <1> HIDE DEF r, e, h, s
  <1>9. CASE Skips(r.post)
    BY <1>5, <1>6, <1>7, <1>8, <1>9 DEF r, h, s, es
  <1>10. CASE ~Skips(r.post)
    <2>1. s.overall = IF r.text = Blank THEN Neutral ELSE <<r.text>>
      BY <1>3, <1>6, <1>7, <1>10
    <2>2. s.overall = Neutral \/ s.overall = <<r.text>>
      BY <2>1
    <2>3. h.overall = Unset \/ h.overall = Neutral \/ h.overall = s.overall
      BY <1>5, <2>1
    <2>4. ASSUME h.aspects # <<>> PROVE s.aspects # <<>>
      <3>1. PICK g : h.aspects = [a \in AspectsOf(Keywords(r)) |-> g[a]]
        BY <1>5, <2>4
      <3>2. AspectsOf(Keywords(r)) # {}
        BY <2>4, <3>1
      <3>3. Keywords(r) # <<>>
        <4>1. AspectsOf(<<>>) = {}
          BY DEF AspectsOf, Range
        <4>2. QED BY <3>2, <4>1
      <3>4. Keywords(e) = Keywords(r)
        <4>1. KeywordsOf(r.post, r.text) \in {<<>>, KeywordsOf(EarlyPost(r.post), r.text)}
          BY <1>3, EarlyTurns
        <4>2. QED BY <1>3, <3>3, <4>1 DEF Keywords
      <3>5. PICK f : s.aspects = [a \in AspectsOf(Keywords(e)) |-> f[a]]
        BY <1>6, <1>7, <1>10
      <3>6. DOMAIN s.aspects # {}
        BY <3>2, <3>4, <3>5
      <3>7. DOMAIN <<>> = {}
        OBVIOUS
      <3>8. QED BY <3>6, <3>7
    <2>5. QED BY <1>10, <2>2, <2>3, <2>4 DEF r, h, s, es
  <1>11. QED BY <1>9, <1>10

(* So the insight that is published of it is no stronger.                  *)
LEMMA EarlyInsight ==
    ASSUME NEW r \in Records, ~UpsetRequest(r.post), NEW h, NEW s,
           \/ h.overall = Unset /\ s.overall = Unset
           \/ /\ ~Skips(r.post)
              /\ s.overall = Neutral \/ s.overall = <<r.text>>
              /\ h.overall = Unset \/ h.overall = Neutral \/ h.overall = s.overall,
           h.aspects # <<>> => s.aspects # <<>>
    PROVE  NoStronger(InsightOf(r, h), InsightOf(Early(r), s))
  <1> DEFINE p == r.post
             q == EarlyPost(p)
             hl == LabelOf(r, h.overall)
             sl == LabelOf(Early(r), s.overall)
             hk == KeywordsOf(p, r.text)
             sk == KeywordsOf(q, r.text)
             ha == h.aspects # <<>>
             sa == s.aspects # <<>>
             v == Verdict(p, r.type, hl, hk, ha)
             w == Verdict(q, r.type, sl, sk, sa)
  <1>1. p \in Posts
    BY DEF Records
  <1>2. /\ Early(r).post = q /\ Early(r).type = r.type /\ Early(r).text = r.text
    BY EarlyRecords
  <1>3. hl \in Labels /\ sl \in Labels /\ NoWorse(hl, sl)
    BY LabelNoWorse
  <1>4. hk = <<>> \/ hk = sk
    BY <1>1, EarlyTurns
  <1>5. ha \in BOOLEAN /\ sa \in BOOLEAN /\ (ha => sa)
    OBVIOUS
  <1>6. InsightOf(r, h) = Insight(p, v)
    BY DEF InsightOf
  <1>7. InsightOf(Early(r), s) = Insight(q, w)
    <2>1. InsightOf(Early(r), s)
             = Insight(Early(r).post, Verdict(Early(r).post, Early(r).type, sl,
                                              KeywordsOf(Early(r).post, Early(r).text), sa))
      BY DEF InsightOf
    <2> HIDE DEF q, sl, sa
    <2>2. QED BY <1>2, <2>1
  <1>8. /\ v.intent = w.intent /\ v.keywords = hk /\ w.keywords = sk
        /\ v.aspects <=> ha
        /\ w.aspects <=> sa
        /\ RiskRank(v.risk) <= RiskRank(w.risk)
        /\ v.risk \in Risky => w.risk \in Risky
        /\ v.impact <= w.impact /\ v.impact \in Int /\ w.impact \in Int
        /\ v.relevance <= w.relevance /\ v.relevance \in Int /\ w.relevance \in Int
    <2> HIDE DEF p, hl, sl, hk, sk, ha, sa
    <2>1. QED BY <1>1, <1>3, <1>5, EarlyVerdict
  <1> HIDE DEF p, q, v, w, ha, sa, hk, sk
  <1>9. ShouldIndex(p, v) => ShouldIndex(q, w)
    <2>1. v.aspects => w.aspects
      BY <1>5, <1>8
    <2>2. QED BY <1>1, <1>4, <1>8, <2>1, GateStaysShut DEF q
  <1>10. Insight(p, v).verdict = v /\ (Insight(p, v).indexed <=> ShouldIndex(p, v))
    BY DEF Insight
  <1>11. Insight(q, w).verdict = w /\ (Insight(q, w).indexed <=> ShouldIndex(q, w))
    BY DEF Insight
  <1>12. QED BY <1>6, <1>7, <1>8, <1>9, <1>10, <1>11 DEF NoStronger

(***************************************************************************)
(* In every run, whatever fails after the intent was found hides a post    *)
(* and never raises it: in any of its stages or in the calls of the model, *)
(* it gets no higher risk, impact or relevance than in the run where none  *)
(* of it fails, and it is not indexed where it would not be.               *)
(***************************************************************************)
THEOREM FailuresHide == Spec => []FailuresOnlyHide
  <1>1. NlpFactsOfRecords => FailuresOnlyHide
    <2> SUFFICES ASSUME NlpFactsOfRecords PROVE FailuresOnlyHide
      OBVIOUS
    <2> DEFINE rs == facts.analysed
               es == EarlyAll(rs)
               whole == EnrichBatch(es, {})
    <2>1. rs \in Seq(Records)
      <3>1. Range(run.records) \subseteq Records
        BY DEF NlpFactsOfRecords, ScenarioType, Range
      <3>2. rs \in Seq(Range(run.records))
        BY DEF NlpFactsOfRecords
      <3> HIDE DEF rs
      <3>3. QED BY <3>1, <3>2
    <2>2. facts.nlp = EnrichBatch(rs, run.failing)
      BY DEF NlpFactsOfRecords
    <2>3. es \in Seq(Records) /\ DOMAIN es = DOMAIN rs /\ Fine(es) = Fine(rs)
      BY <2>1, EarlyPlaces
    <2>4. ASSUME NEW n \in DOMAIN facts.nlp, OneVersion,
                 ~UpsetRequest(RecordOf(facts.nlp[n]).post)
          PROVE  NoStronger(facts.nlp[n].insight, whole[n].insight)
      <3> DEFINE i == Nth(Fine(rs), n)
                 r == rs[i]
                 h == SentimentOf(rs, run.failing, i)
                 s == SentimentOf(es, {}, i)
      <3>1. n \in 1 .. Cardinality(Fine(rs))
        <4> HIDE DEF rs
        <4>1. QED BY <2>1, <2>2, <2>4, FactsOfBatch
      <3>2. i \in DOMAIN rs /\ r.fate = "fine" /\ facts.nlp[n] = FactOf(r, h)
        <4> HIDE DEF rs
        <4>1. QED BY <2>1, <2>2, <3>1, FactsOfBatch
      <3>3. whole[n] = FactOf(es[i], s)
        <4> HIDE DEF rs, es
        <4>1. QED BY <2>3, <3>1, FactsOfBatch
      <3>4. es[i] = Early(r) /\ r \in Records
        BY <2>1, <3>2 DEF EarlyAll
      <3>5. RecordOf(facts.nlp[n]) = r
        <4>1. RecordOf(facts.nlp[n]) = rs[i]
          BY <2>4, FactHasRecord
        <4>2. QED BY <4>1
      <3>6. /\ \/ h.overall = Unset /\ s.overall = Unset
               \/ /\ ~Skips(r.post)
                  /\ s.overall = Neutral \/ s.overall = <<r.text>>
                  /\ h.overall = Unset \/ h.overall = Neutral \/ h.overall = s.overall
            /\ h.aspects # <<>> => s.aspects # <<>>
        <4> HIDE DEF rs, i
        <4>1. QED BY <2>1, <3>2, EarlySentiment
      <3> HIDE DEF r, h, s, i, es, whole
      <3>7. NoStronger(InsightOf(r, h), InsightOf(Early(r), s))
        BY <2>4, <3>4, <3>5, <3>6, EarlyInsight
      <3>8. facts.nlp[n].insight = InsightOf(r, h)
        BY <3>2 DEF FactOf
      <3>9. whole[n].insight = InsightOf(Early(r), s)
        BY <3>3, <3>4 DEF FactOf
      <3>10. QED BY <3>7, <3>8, <3>9
    <2>5. whole = EnrichBatch([i \in DOMAIN facts.analysed |->
                                 [facts.analysed[i] EXCEPT
                                    !.post.failing = @ \cap {"preprocessing", "intent"}]], {})
      BY DEF EarlyAll, Early
    <2> HIDE DEF rs, es, whole
    <2>6. QED BY <2>4, <2>5 DEF FailuresOnlyHide
  <1>2. QED BY <1>1, NlpFactsStay, PTL

-----------------------------------------------------------------------------
\* Mentions and threads.

MentionFields == {"id", "origin", "root", "parent", "depth", "author", "text", "posted",
                  "copies"}

\* A mention says what its record says, but for the copies.
Stems(m, r) == /\ DOMAIN m = MentionFields
               /\ m.id = MentionId(r.doc) /\ m.origin = r.doc /\ m.root = RootId(r)
               /\ m.parent = r.parent /\ m.depth = DOC_TYPE_DEPTH[r.type] /\ m.text = r.text
               /\ m.posted = r.posted

\* Mentions are those of records of the run, whatever has been annotated, and
\* threads and profiles are those of the mentions.
MentionsOfRecords ==
    /\ ScenarioType(run)
    /\ DOMAIN facts = FactsKinds
    /\ stage \in 1 .. 10
    /\ facts.mentions \in Seq(Range(facts.mentions))
    /\ \A i \in DOMAIN facts.mentions :
          \E r \in Range(run.records) : Stems(facts.mentions[i], r)
    /\ \/ facts.threads = <<>>
       \/ stage > 4 /\ facts.threads = Threads(facts.mentions)
    /\ \/ facts.profiles = <<>>
       \/ stage > 3 /\ facts.profiles = Profiles(facts.mentions)

(* Stages are passed over, never gone back to.  [run_pipeline.py]          *)
LEMMA StagesAdvance ==
    ASSUME NEW enabled, NEW n \in 1 .. 10
    PROVE  NextStage(enabled, n) \in n .. 10
  <1> DEFINE S == {k \in n .. Len(Order) : Order[k] \in enabled} \cup {Len(Order) + 1}
  <1>1. Len(Order) = 9
    BY DEF Order
  <1>2. S \subseteq n .. 10 /\ S # {} /\ S \subseteq Nat
    BY <1>1
  <1>3. NextStage(enabled, n) = Min(S)
    BY DEF NextStage
  <1> HIDE DEF S
  <1>4. \E m \in S : \A k \in S : m <= k
    BY <1>2, LeastNat
  <1>5. Min(S) \in S
    BY <1>4 DEF Min
  <1>6. QED BY <1>2, <1>3, <1>5

(* Every mention stems from a record.  [normalize_records]                 *)
LEMMA MentionsStem ==
    ASSUME NEW records \in Seq(Records), NEW i \in DOMAIN Normalize(records)
    PROVE  \E r \in Range(records) : Stems(Normalize(records)[i], r)
  <1> DEFINE S == {k \in DOMAIN records : records[k].supported}
             kept == At(records, S)
  <1>1. Normalize(records) = [k \in DOMAIN kept |-> MentionOf(kept[k])]
    BY DEF Normalize
  <1>2. S \in SUBSET (DOMAIN records)
    OBVIOUS
  <1> HIDE DEF S
  <1>3. /\ DOMAIN kept = 1 .. Cardinality(S)
        /\ \A n \in DOMAIN kept : Nth(S, n) \in S /\ kept[n] = records[Nth(S, n)]
    BY <1>2, AtPlaces
  <1> HIDE DEF kept
  <1>4. i \in DOMAIN kept /\ Normalize(records)[i] = MentionOf(kept[i])
    BY <1>1
  <1>5. kept[i] \in Range(records)
    BY <1>2, <1>3, <1>4 DEF Range
  <1>6. Stems(MentionOf(kept[i]), kept[i])
    BY DEF Stems, MentionOf, MentionFields
  <1>7. QED BY <1>4, <1>5, <1>6

(* Mentions come in a sequence.                                            *)
LEMMA NormalizedIsSequence ==
    ASSUME NEW records \in Seq(Records)
    PROVE  Normalize(records) \in Seq(Range(Normalize(records)))
  <1> DEFINE S == {k \in DOMAIN records : records[k].supported}
             kept == At(records, S)
  <1>1. S \in SUBSET (DOMAIN records)
    OBVIOUS
  <1> HIDE DEF S
  <1>2. kept \in Seq(Records)
    BY <1>1, AtPlaces
  <1>3. Normalize(records) = [k \in DOMAIN kept |-> MentionOf(kept[k])]
    BY DEF Normalize, S
  <1> HIDE DEF kept
  <1>4. QED BY <1>2, <1>3 DEF Range

(* Dedup annotates mentions, and leaves them what they are otherwise.      *)
LEMMA AnnotatedStem ==
    ASSUME NEW mentions, mentions \in Seq(Range(mentions)), NEW clusters
    PROVE  /\ Annotate(mentions, clusters) \in Seq(Range(Annotate(mentions, clusters)))
           /\ DOMAIN Annotate(mentions, clusters) = DOMAIN mentions
           /\ \A i \in DOMAIN mentions : \A r :
                 Stems(mentions[i], r) => Stems(Annotate(mentions, clusters)[i], r)
  <1> DEFINE size(i) == ClusterSize(clusters, mentions[i].id)
  <1>1. Annotate(mentions, clusters)
           = [i \in DOMAIN mentions |-> [mentions[i] EXCEPT !.copies = size(i)]]
    BY DEF Annotate
  <1> HIDE DEF size
  <1>2. QED BY <1>1 DEF Stems, MentionFields, Range

(* In every run mentions stem from records, and threads are of mentions.   *)
LEMMA MentionsStay == Spec => []MentionsOfRecords
  <1>1. Init => MentionsOfRecords
    <2> SUFFICES ASSUME Init PROVE MentionsOfRecords
      OBVIOUS
    <2>1. ScenarioType(run)
      BY PipelineAssumption DEF Init
    <2>2. stage \in 1 .. 10
      BY StagesAdvance DEF Init
    <2>3. /\ facts.mentions = <<>> /\ facts.threads = <<>> /\ facts.profiles = <<>>
          /\ DOMAIN facts = FactsKinds
      BY DEF Init, NoFacts, FactsKinds
    <2>4. <<>> \in Seq(Range(<<>>)) /\ DOMAIN <<>> = {}
      OBVIOUS
    <2>5. /\ facts.mentions \in Seq(Range(facts.mentions))
          /\ \A i \in DOMAIN facts.mentions :
                \E r \in Range(run.records) : Stems(facts.mentions[i], r)
      BY <2>3, <2>4
    <2>6. QED BY <2>1, <2>2, <2>3, <2>5 DEF MentionsOfRecords
  <1>2. MentionsOfRecords /\ [Next]_vars => MentionsOfRecords'
    <2> SUFFICES ASSUME MentionsOfRecords, [Next]_vars PROVE MentionsOfRecords'
      OBVIOUS
    <2> USE DEF FactsKinds
    <2>1. ASSUME NEW name, Runs(name)
          PROVE  /\ stage \in 1 .. 9 /\ stage + 1 \in 1 .. 10
                 /\ Order[stage] = name
                 /\ NextStage(run.enabled, stage + 1) \in stage + 1 .. 10
      <3>1. Len(Order) = 9
        BY DEF Order
      <3>2. stage \in 1 .. 9 /\ stage + 1 \in 1 .. 10 /\ Order[stage] = name
        BY <2>1, <3>1 DEF Runs, Running, MentionsOfRecords
      <3>3. QED BY <3>2, StagesAdvance
    <2>2. /\ \A n \in 1 .. 9 : Order[n] = "normalization" => n = 1
          /\ \A n \in 1 .. 9 : Order[n] = "dedup" => n = 2
          /\ \A n \in 1 .. 9 : Order[n] = "spam" => n = 3
          /\ \A n \in 1 .. 9 : Order[n] = "threads" => n = 4
      BY DEF Order
    <2>3. ASSUME \E name : Runs(name), NEW new, Finish(new), DOMAIN new = FactsKinds,
                 new.mentions = facts.mentions, new.threads = facts.threads,
                 new.profiles = facts.profiles
          PROVE  MentionsOfRecords'
      <3>1. stage' \in 1 .. 10 /\ stage' > stage
        BY <2>1, <2>3 DEF Finish
      <3>2. run' = run /\ facts' = new
        BY <2>3 DEF Finish
      <3>3. (stage > 4 => stage' > 4) /\ (stage > 3 => stage' > 3)
        BY <3>1 DEF MentionsOfRecords
      <3>4. QED BY <2>3, <3>1, <3>2, <3>3 DEF MentionsOfRecords
    <2>4. CASE NormalizationStage
      <3>1. stage = 1 /\ stage' \in 2 .. 10
        BY <2>1, <2>2, <2>4 DEF NormalizationStage, Finish
      <3>2. facts' = [facts EXCEPT !.mentions = Normalize(run.records)] /\ run' = run
        BY <2>4 DEF NormalizationStage, Finish
      <3>3. run.records \in Seq(Records)
        BY DEF MentionsOfRecords, ScenarioType
      <3>4. /\ Normalize(run.records) \in Seq(Range(Normalize(run.records)))
            /\ \A i \in DOMAIN Normalize(run.records) :
                  \E r \in Range(run.records) : Stems(Normalize(run.records)[i], r)
        BY <3>3, NormalizedIsSequence, MentionsStem
      <3>5. facts.threads = <<>> /\ facts.profiles = <<>>
        BY <3>1 DEF MentionsOfRecords
      <3>6. /\ facts'.mentions = Normalize(run.records) /\ facts'.threads = <<>>
            /\ facts'.profiles = <<>> /\ DOMAIN facts' = FactsKinds
        BY <3>2, <3>5 DEF MentionsOfRecords
      <3>7. /\ facts'.mentions \in Seq(Range(facts'.mentions))
            /\ \A i \in DOMAIN facts'.mentions :
                  \E r \in Range(run'.records) : Stems(facts'.mentions[i], r)
        BY <3>2, <3>4, <3>6
      <3>8. ScenarioType(run') /\ stage' \in 1 .. 10
        BY <3>1, <3>2 DEF MentionsOfRecords
      <3>9. QED BY ONLY <3>6, <3>7, <3>8, Zenon DEF MentionsOfRecords
    <2>5. CASE DedupStage
      <3> DEFINE clusters == Clusters(facts.mentions, run.alike, run.bucket)
                 marked == Annotate(facts.mentions, clusters)
      <3>1. stage = 2 /\ stage' \in 2 .. 10
        BY <2>1, <2>2, <2>5 DEF DedupStage, Finish
      <3>2. facts' = [facts EXCEPT !.clusters = clusters, !.mentions = marked] /\ run' = run
        BY <2>5 DEF DedupStage, Finish
      <3>3. facts.mentions \in Seq(Range(facts.mentions))
        BY DEF MentionsOfRecords
      <3> HIDE DEF clusters
      <3>4. /\ marked \in Seq(Range(marked)) /\ DOMAIN marked = DOMAIN facts.mentions
            /\ \A i \in DOMAIN facts.mentions : \A r :
                  Stems(facts.mentions[i], r) => Stems(marked[i], r)
        BY <3>3, AnnotatedStem
      <3> HIDE DEF marked
      <3>5. facts.threads = <<>> /\ facts.profiles = <<>>
        BY <3>1 DEF MentionsOfRecords
      <3>6. /\ facts'.mentions = marked /\ facts'.threads = <<>>
            /\ facts'.profiles = <<>> /\ DOMAIN facts' = FactsKinds
        BY <3>2, <3>5 DEF MentionsOfRecords
      <3>7. \A i \in DOMAIN marked : \E r \in Range(run.records) : Stems(marked[i], r)
        BY <3>4 DEF MentionsOfRecords
      <3>8. /\ facts'.mentions \in Seq(Range(facts'.mentions))
            /\ \A i \in DOMAIN facts'.mentions :
                  \E r \in Range(run'.records) : Stems(facts'.mentions[i], r)
        BY <3>2, <3>4, <3>6, <3>7
      <3>9. ScenarioType(run') /\ stage' \in 1 .. 10
        BY <3>1, <3>2 DEF MentionsOfRecords
      <3>10. QED BY ONLY <3>6, <3>8, <3>9, Zenon DEF MentionsOfRecords
    <2>6. CASE ThreadsStage
      <3>1. stage = 4 /\ stage' \in 5 .. 10
        BY <2>1, <2>2, <2>6 DEF ThreadsStage, Finish
      <3>2. facts' = [facts EXCEPT !.threads = Threads(facts.mentions)] /\ run' = run
        BY <2>6 DEF ThreadsStage, Finish
      <3>3. /\ facts'.mentions = facts.mentions /\ facts'.threads = Threads(facts'.mentions)
            /\ facts'.profiles = facts.profiles /\ DOMAIN facts' = FactsKinds
        BY <3>2 DEF MentionsOfRecords
      <3>4. QED BY <3>1, <3>2, <3>3 DEF MentionsOfRecords
    <2>7. CASE WithoutMentions
      BY <2>3, <2>7 DEF WithoutMentions, MentionsOfRecords
    <2>8. CASE SpamStage
      <3>1. CASE Raises(facts.mentions)
        BY <2>8, <3>1 DEF SpamStage, Raise, MentionsOfRecords
      <3>2. CASE ~Raises(facts.mentions)
        <4>1. stage = 3 /\ stage' \in 4 .. 10
          BY <2>1, <2>2, <2>8, <3>2 DEF SpamStage, Finish
        <4>2. facts' = [facts EXCEPT !.profiles = Profiles(facts.mentions)] /\ run' = run
          BY <2>8, <3>2 DEF SpamStage, Finish
        <4>3. /\ facts'.mentions = facts.mentions /\ facts'.threads = facts.threads
              /\ facts'.profiles = Profiles(facts'.mentions) /\ DOMAIN facts' = FactsKinds
          BY <4>2 DEF MentionsOfRecords
        <4>4. facts.threads = <<>>
          BY <4>1 DEF MentionsOfRecords
        <4>5. QED BY <4>1, <4>2, <4>3, <4>4 DEF MentionsOfRecords
      <3>3. QED BY <3>1, <3>2
    <2>9. CASE NlpStage
      <3> DEFINE new == [facts EXCEPT !.analysed = NlpInput,
                                      !.nlp = EnrichBatch(NlpInput, run.failing)]
      <3>1. Finish(new) /\ \E name : Runs(name)
        BY <2>9 DEF NlpStage
      <3>2. DOMAIN new = FactsKinds /\ new.mentions = facts.mentions
            /\ new.threads = facts.threads
            /\ new.profiles = facts.profiles
        BY DEF MentionsOfRecords
      <3> HIDE DEF new
      <3>3. QED BY <2>3, <3>1, <3>2
    <2>10. CASE EnrichmentStage
      <3> DEFINE new == [facts EXCEPT !.enrichment =
                                          <<EnrichMentions(facts.mentions, run.ontology)>>]
      <3>1. Finish(new) /\ \E name : Runs(name)
        BY <2>10 DEF EnrichmentStage
      <3>2. DOMAIN new = FactsKinds /\ new.mentions = facts.mentions
            /\ new.threads = facts.threads
            /\ new.profiles = facts.profiles
        BY DEF MentionsOfRecords
      <3> HIDE DEF new
      <3>3. QED BY <2>3, <3>1, <3>2
    <2>11. CASE ReviewStage
      BY <2>3, <2>11 DEF ReviewStage, MentionsOfRecords
    <2>12. CASE ReportingStage
      <3>1. PICK new :
               /\ Finish(new) /\ \E name : Runs(name)
               /\ DOMAIN new = FactsKinds /\ new.mentions = facts.mentions
               /\ new.threads = facts.threads /\ new.profiles = facts.profiles
        BY <2>12 DEF ReportingStage, MentionsOfRecords
      <3>2. QED BY <2>3, <3>1
    <2>13. CASE CrisisStage
      <3>1. PICK new :
               /\ Finish(new) /\ \E name : Runs(name)
               /\ DOMAIN new = FactsKinds /\ new.mentions = facts.mentions
               /\ new.threads = facts.threads /\ new.profiles = facts.profiles
        BY <2>13 DEF CrisisStage, MentionsOfRecords
      <3>2. QED BY <2>3, <3>1
    <2>14. CASE UNCHANGED vars
      BY <2>14 DEF vars, MentionsOfRecords
    <2>15. QED BY <2>4, <2>5, <2>6, <2>7, <2>8, <2>9, <2>10, <2>11, <2>12, <2>13, <2>14
               DEF Next
  <1>3. QED BY <1>1, <1>2, PTL DEF Spec

(* Of the mentions of a thread one comes first: min() finds it.            *)
LEMMA ThreadHasFirst ==
    ASSUME NEW R, NEW thread \in Seq(R), thread # <<>>, NEW ids,
           \A i \in DOMAIN thread : thread[i].depth \in Nat /\ thread[i].id[2] \in Nat
    PROVE  \E i \in DOMAIN thread : \A j \in DOMAIN thread :
              /\ ~Precedes(thread[j], thread[i], ids)
              /\ j < i => Precedes(thread[i], thread[j], ids)
  <1> DEFINE inner(i) == IF thread[i].parent \in ids THEN 1 ELSE 0
             depth(i) == thread[i].depth
             number(i) == thread[i].id[2]
  <1>1. DOMAIN thread \subseteq Nat /\ DOMAIN thread # {}
    OBVIOUS
  <1>2. \A i \in DOMAIN thread : depth(i) \in Nat /\ inner(i) \in Nat /\ number(i) \in Nat
    OBVIOUS
  <1>3. \A i, j : Precedes(thread[i], thread[j], ids) <=>
            \/ depth(i) < depth(j)
            \/ depth(i) = depth(j) /\ inner(i) < inner(j)
            \/ depth(i) = depth(j) /\ inner(i) = inner(j) /\ number(i) < number(j)
    BY DEF Precedes
  <1> HIDE DEF inner, depth, number
  <1> DEFINE A == {depth(i) : i \in DOMAIN thread}
  <1>4. PICK a \in A : \A n \in A : a <= n
    <2>1. A \subseteq Nat /\ A # {}
      BY <1>1, <1>2
    <2> HIDE DEF A
    <2>2. QED BY <2>1, LeastNat
  <1> DEFINE B == {inner(i) : i \in {k \in DOMAIN thread : depth(k) = a}}
  <1>5. PICK b \in B : \A n \in B : b <= n
    <2>1. B \subseteq Nat /\ B # {}
      BY <1>2, <1>4
    <2> HIDE DEF B
    <2>2. QED BY <2>1, LeastNat
  <1> DEFINE C == {number(i) : i \in {k \in DOMAIN thread : depth(k) = a /\ inner(k) = b}}
  <1>6. PICK c \in C : \A n \in C : c <= n
    <2>1. C \subseteq Nat /\ C # {}
      BY <1>2, <1>5
    <2> HIDE DEF C
    <2>2. QED BY <2>1, LeastNat
  <1> DEFINE D == {k \in DOMAIN thread : depth(k) = a /\ inner(k) = b /\ number(k) = c}
  <1>7. PICK i \in D : \A n \in D : i <= n
    <2>1. D \subseteq Nat /\ D # {}
      BY <1>1, <1>6
    <2> HIDE DEF D
    <2>2. QED BY <2>1, LeastNat
  <1>8. i \in DOMAIN thread /\ depth(i) = a /\ inner(i) = b /\ number(i) = c
    BY <1>7
  <1>9. ASSUME NEW j \in DOMAIN thread
        PROVE  ~Precedes(thread[j], thread[i], ids)
               /\ (j < i => Precedes(thread[i], thread[j], ids))
    <2>1. a <= depth(j)
      BY <1>4
    <2>2. depth(j) = a => b <= inner(j)
      BY <1>5
    <2>3. depth(j) = a /\ inner(j) = b => c <= number(j)
      BY <1>6
    <2>4. depth(j) = a /\ inner(j) = b /\ number(j) = c => i <= j
      BY <1>7
    <2>5. /\ depth(j) \in Nat /\ inner(j) \in Nat /\ number(j) \in Nat
          /\ a \in Nat /\ b \in Nat /\ c \in Nat /\ i \in Nat /\ j \in Nat
      BY <1>1, <1>2, <1>8
    <2>6. ~Precedes(thread[j], thread[i], ids)
      BY <1>3, <1>8, <2>1, <2>2, <2>3, <2>5
    <2>7. j < i => Precedes(thread[i], thread[j], ids)
      BY <1>3, <1>8, <2>1, <2>2, <2>3, <2>4, <2>5
    <2>8. QED BY <2>6, <2>7
  <1>10. QED BY <1>8, <1>9

\* What a record of the group says of the mention it makes.
LEMMA RecordTypes ==
    ASSUME NEW r \in Records, NEW m, Stems(m, r)
    PROVE  /\ m.depth \in {0, 1, 2} /\ (m.depth = 0 <=> r.type = "post")
           /\ m.id[2] \in Nat /\ m.id[1] = "mention"
           /\ r.doc \in {"doc"} \X Nat /\ r.doc # NoId
           /\ m.depth = 0 => m.root = m.origin
  <1>1. r.doc \in {"doc"} \X Nat /\ r.type \in {"post", "comment", "reply"}
    BY DEF Records, DocumentIds, DocTypes
  <1>2. m.depth \in {0, 1, 2} /\ (m.depth = 0 <=> r.type = "post")
    BY <1>1 DEF Stems, DOC_TYPE_DEPTH
  <1>3. m.id[2] \in Nat /\ m.id[1] = "mention"
    BY <1>1 DEF Stems, MentionId
  <1>4. r.doc # NoId
    BY <1>1 DEF NoId
  <1>5. m.depth = 0 => m.root = m.origin
    BY DEF Stems, RootId
  <1>6. QED BY <1>1, <1>2, <1>3, <1>4, <1>5

(***************************************************************************)
(* In every run a comment is read in the context of its post and no other, *)
(* though threads look parents up by mention ids and so never find it: the *)
(* post is what comes first of the thread, and there is one text of it.    *)
(***************************************************************************)
THEOREM CommentsSeePosts == Spec => []CommentSeesPost
  <1>1. MentionsOfRecords => CommentSeesPost
    <2> DEFINE ms == facts.mentions
    <2> SUFFICES ASSUME MentionsOfRecords, facts.threads # <<>>, OneVersion,
                        NEW c \in Range(ms), NEW p \in Range(ms),
                        c.depth = 1, p.depth = 0, c.parent = p.origin,
                        NEW x \in ContextsOf(c)
                 PROVE  x.rootText = p.text
      BY DEF CommentSeesPost
    <2>1. facts.threads = Threads(ms) /\ ms \in Seq(Range(ms))
      BY DEF MentionsOfRecords
    <2>2. \A m \in Range(ms) : \E r \in Range(run.records) : Stems(m, r)
      BY DEF MentionsOfRecords, Range
    <2>3. \A r \in Range(run.records) : r \in Records
      BY DEF MentionsOfRecords, ScenarioType, Range
    <2> HIDE DEF ms
    <2>4. PICK rc \in Range(run.records) : Stems(c, rc)
      BY <2>2
    <2>5. PICK rp \in Range(run.records) : Stems(p, rp)
      BY <2>2
    <2>6. p.origin = rp.doc /\ p.text = rp.text /\ p.root = rp.doc /\ rp.doc # NoId
      BY <2>3, <2>5, RecordTypes DEF Stems
    <2>7. c.root = rp.doc
      <3>1. c.root = RootId(rc) /\ DOC_TYPE_DEPTH[rc.type] = 1 /\ rc.parent = rp.doc
        BY <2>4, <2>6 DEF Stems
      <3>2. ~(DOC_TYPE_DEPTH[rc.type] = 0) /\ rc.parent # NoId
        BY <2>6, <3>1
      <3>3. RootId(rc) = rc.parent
        BY <3>2 DEF RootId
      <3>4. QED BY <3>1, <3>3
    <2> DEFINE root == rp.doc
               S == {i \in DOMAIN ms : ms[i].root = root}
               thread == ThreadOf(root, ms)
               top == RootMention(root, thread, ms)
    <2>8. S \in SUBSET (DOMAIN ms) /\ thread = At(ms, S)
      BY DEF ThreadOf
    <2>9. /\ thread \in Seq(Range(ms))
          /\ \A n \in DOMAIN thread : thread[n] \in Range(ms) /\ thread[n].root = root
          /\ \A i \in S : \E n \in DOMAIN thread : thread[n] = ms[i]
      <3>1. S \in SUBSET (DOMAIN ms)
        BY <2>8
      <3>2. \A i \in S : ms[i].root = root
        OBVIOUS
      <3> HIDE DEF S, thread
      <3>3. /\ At(ms, S) \in Seq(Range(ms))
            /\ \A n \in DOMAIN At(ms, S) : Nth(S, n) \in S /\ At(ms, S)[n] = ms[Nth(S, n)]
            /\ \A i \in S : \E n \in DOMAIN At(ms, S) : Nth(S, n) = i
        BY <2>1, <3>1, AtPlaces
      <3>4. thread \in Seq(Range(ms))
        BY <2>8, <3>3
      <3>5. \A n \in DOMAIN thread : thread[n] \in Range(ms) /\ thread[n].root = root
        BY <2>8, <3>1, <3>2, <3>3 DEF Range
      <3>6. \A i \in S : \E n \in DOMAIN thread : thread[n] = ms[i]
        BY <2>8, <3>3
      <3>7. QED BY <3>4, <3>5, <3>6
    <2>10. PICK k \in DOMAIN thread : thread[k] = p
      <3>1. PICK i \in DOMAIN ms : ms[i] = p
        BY DEF Range
      <3>2. i \in S
        BY <2>6, <3>1
      <3> HIDE DEF S, thread
      <3>3. QED BY <2>9, <3>1, <3>2
    <2>11. \A n \in DOMAIN thread : thread[n].depth \in Nat /\ thread[n].id[2] \in Nat
      <3> TAKE n \in DOMAIN thread
      <3>1. thread[n] \in Range(ms)
        <4> HIDE DEF thread
        <4>1. QED BY <2>9
      <3> HIDE DEF thread
      <3>2. PICK r \in Range(run.records) : Stems(thread[n], r)
        BY <2>2, <3>1
      <3>3. thread[n].depth \in {0, 1, 2} /\ thread[n].id[2] \in Nat
        BY <2>3, <3>2, RecordTypes
      <3>4. QED BY <3>3
    <2>12. root \notin Ids(ms)
      <3> SUFFICES ASSUME NEW m \in Range(ms), m.id = root PROVE FALSE
        BY DEF Ids
      <3>1. PICK r \in Range(run.records) : Stems(m, r)
        BY <2>2
      <3>2. m.id[1] = "mention" /\ root \in {"doc"} \X Nat
        BY <2>3, <3>1, RecordTypes, <2>5
      <3>3. QED BY <3>2
    <2> DEFINE first(i) == \A j \in DOMAIN thread :
                   /\ ~Precedes(thread[j], thread[i], Ids(ms))
                   /\ j < i => Precedes(thread[i], thread[j], Ids(ms))
    <2>13. top = thread[CHOOSE i \in DOMAIN thread : first(i)]
      <3> HIDE DEF thread, root
      <3>1. QED BY <2>12 DEF RootMention
    <2>14. PICK n \in DOMAIN thread : top = thread[n] /\ first(n)
      <3>1. \E i \in DOMAIN thread : first(i)
        <4>1. thread # <<>>
          <5> HIDE DEF thread
          <5>1. QED BY <2>10
        <4> HIDE DEF thread
        <4>2. QED BY <2>9, <2>11, <4>1, ThreadHasFirst
      <3> HIDE DEF thread, first, top
      <3>2. QED BY <2>13, <3>1
    <2>15. ~Precedes(p, top, Ids(ms))
      <3> HIDE DEF thread, top
      <3>1. QED BY <2>10, <2>14
    <2>16. top \in Range(ms) /\ top.root = root /\ top.depth \in Nat
      <3> HIDE DEF thread, top
      <3>1. QED BY <2>9, <2>11, <2>14
    <2> HIDE DEF top
    <2>17. top.depth = 0
      BY <2>15, <2>16 DEF Precedes
    <2>18. top.text = p.text
      <3>1. PICK r \in Range(run.records) : Stems(top, r)
        BY <2>2, <2>16
      <3>2. top.origin = top.root
        BY <2>3, <2>17, <3>1, RecordTypes
      <3>3. r.doc = rp.doc
        BY <2>16, <3>1, <3>2 DEF Stems
      <3>4. r = rp
        BY <3>1, <3>3, <2>5 DEF OneVersion
      <3>5. QED BY <2>6, <3>1, <3>4 DEF Stems
    <2>19. x \in Threads(ms)[root].contexts
      BY <2>1, <2>7 DEF ContextsOf
    <2>20. root \in {m.root : m \in Range(ms)}
      BY <2>6
    <2>21. Threads(ms)[root].contexts = {Context(m, top, ms) : m \in Range(thread)}
      <3> HIDE DEF root
      <3>1. QED BY <2>20 DEF Threads, top, thread
    <2> HIDE DEF thread, root
    <2>22. PICK m : x = Context(m, top, ms)
      BY <2>19, <2>21
    <2>23. x.rootText = top.text
      BY <2>22 DEF Context
    <2>24. QED BY <2>18, <2>23
  <1>2. QED BY <1>1, MentionsStay, PTL

-----------------------------------------------------------------------------
\* Bursts.

(* A set of numbers up to L has a smallest and a largest one.              *)
LEMMA Extremes ==
    ASSUME NEW L \in Nat, NEW B \in SUBSET (0 .. L), B # {}
    PROVE  /\ \E m \in B : \A x \in B : m <= x
           /\ \E m \in B : \A x \in B : x <= m
  <1>1. \E m \in B : \A x \in B : m <= x
    <2>1. B \subseteq Nat
      OBVIOUS
    <2>2. QED BY <2>1, LeastNat
  <1>2. \E m \in B : \A x \in B : x <= m
    <2> DEFINE rest == {L - x : x \in B}
    <2>1. rest \subseteq Nat /\ rest # {}
      <3>1. \A x \in B : L - x \in Nat
        <4>1. \A x \in B : x \in Nat /\ x <= L
          OBVIOUS
        <4>2. QED BY <4>1
      <3>2. QED BY <3>1
    <2>2. \E k \in rest : \A n \in rest : k <= n
      <3> HIDE DEF rest
      <3>1. QED BY <2>1, LeastNat
    <2>3. PICK m \in B : \A x \in B : L - m <= L - x
      BY <2>2
    <2>4. ASSUME NEW x \in B PROVE x <= m
      <3>1. L - m <= L - x /\ x \in Nat /\ m \in Nat
        BY <2>3
      <3>2. QED BY <3>1
    <2>5. QED BY <2>4
  <1>3. QED BY <1>1, <1>2

(* Two sets of numbers that bound each other have the same maximum.        *)
LEMMA SameMax ==
    ASSUME NEW L \in Nat, NEW V \in SUBSET (0 .. L), V # {}, NEW W \in SUBSET Int,
           \A v \in V : \E w \in W : v <= w, \A w \in W : \E v \in V : w <= v
    PROVE  Max(V) = Max(W)
  <1>1. PICK m \in V : \A x \in V : x <= m
    BY Extremes
  <1>2. PICK k \in W : m <= k
    BY <1>1
  <1>3. \A w \in W : w <= m
    <2> SUFFICES ASSUME NEW w \in W PROVE w <= m
      OBVIOUS
    <2>1. PICK v \in V : w <= v
      OBVIOUS
    <2>2. v <= m /\ v \in Int /\ m \in Int /\ w \in Int
      BY <1>1
    <2>3. QED BY <2>1, <2>2
  <1>4. k = m
    <2>1. k <= m /\ m <= k /\ k \in Int /\ m \in Int
      BY <1>1, <1>2, <1>3
    <2>2. QED BY <2>1
  <1>5. \A x \in V : (\A y \in V : y <= x) => x = m
    <2> SUFFICES ASSUME NEW x \in V, \A y \in V : y <= x PROVE x = m
      OBVIOUS
    <2>1. m <= x /\ x <= m /\ x \in Int /\ m \in Int
      BY <1>1
    <2>2. QED BY <2>1
  <1>6. \A x \in W : (\A y \in W : y <= x) => x = m
    <2> SUFFICES ASSUME NEW x \in W, \A y \in W : y <= x PROVE x = m
      OBVIOUS
    <2>1. m <= x /\ x <= m /\ x \in Int /\ m \in Int
      BY <1>2, <1>3, <1>4
    <2>2. QED BY <2>1
  <1>7. Max(V) = m
    <2>1. Max(V) = CHOOSE x \in V : \A y \in V : y <= x
      BY DEF Max
    <2>2. QED BY <1>1, <1>5, <2>1
  <1>8. Max(W) = m
    <2>1. Max(W) = CHOOSE x \in W : \A y \in W : y <= x
      BY DEF Max
    <2>2. QED BY <1>2, <1>3, <1>4, <1>6, <2>1
  <1>9. QED BY <1>7, <1>8

\* How many of the numbers of a sequence are up to t.
UpTo(minute, t) == Cardinality({i \in DOMAIN minute : minute[i] <= t})

(* Of the numbers of a sequence, more are up to a later time.              *)
LEMMA UpToGrows ==
    ASSUME NEW L \in Nat, NEW minute \in [1 .. L -> Int]
    PROVE  /\ \A t \in Int : IsFiniteSet({i \in DOMAIN minute : minute[i] <= t})
           /\ \A t \in Int : UpTo(minute, t) \in 0 .. L
           /\ \A t, u \in Int : t <= u => UpTo(minute, t) <= UpTo(minute, u)
  <1> DEFINE S(t) == {i \in DOMAIN minute : minute[i] <= t}
  <1>1. ASSUME NEW t \in Int
        PROVE  IsFiniteSet(S(t)) /\ Cardinality(S(t)) \in 0 .. L
    <2>1. S(t) \in SUBSET (1 .. L)
      OBVIOUS
    <2>2. IsFiniteSet(1 .. L) /\ Cardinality(1 .. L) = L
      BY FS_Interval
    <2> HIDE DEF S
    <2>3. IsFiniteSet(S(t)) /\ Cardinality(S(t)) <= L
      BY <2>1, <2>2, FS_Subset
    <2>4. QED BY <2>3, FS_CardinalityType
  <1>2. ASSUME NEW t \in Int, NEW u \in Int, t <= u
        PROVE  Cardinality(S(t)) <= Cardinality(S(u))
    <2>1. S(t) \in SUBSET S(u)
      BY <1>2
    <2> HIDE DEF S
    <2>2. QED BY <1>1, <2>1, FS_Subset
  <1>3. \A t : UpTo(minute, t) = Cardinality(S(t))
    BY DEF UpTo
  <1> HIDE DEF S
  <1>4. \A t \in Int : UpTo(minute, t) \in 0 .. L
    BY <1>1, <1>3
  <1>5. \A t, u \in Int : t <= u => UpTo(minute, t) <= UpTo(minute, u)
    BY <1>2, <1>3
  <1>6. \A t \in Int : IsFiniteSet(S(t))
    BY <1>1
  <1>7. QED BY <1>4, <1>5, <1>6 DEF S

(* Of some places of a sequence one is earliest and one is latest.         *)
LEMMA EarliestLatest ==
    ASSUME NEW L \in Nat, NEW minute \in [1 .. L -> Int],
           NEW I \in SUBSET (1 .. L), I # {}
    PROVE  /\ \E i \in I : \A j \in I : minute[i] <= minute[j]
           /\ \E i \in I : \A j \in I : minute[j] <= minute[i]
  <1> DEFINE rank(i) == UpTo(minute, minute[i])
             ranks == {rank(i) : i \in I}
             S(t) == {k \in DOMAIN minute : minute[k] <= t}
  <1>1. \A i \in I : minute[i] \in Int /\ rank(i) \in 0 .. L
    BY UpToGrows
  <1>2. ASSUME NEW i \in I, NEW j \in I, rank(i) <= rank(j)
        PROVE  minute[i] <= minute[j]
    <2> SUFFICES ASSUME minute[j] < minute[i] PROVE FALSE
      BY <1>1
    <2>1. S(minute[j]) \in SUBSET S(minute[i])
      <3> SUFFICES ASSUME NEW k \in 1 .. L, minute[k] <= minute[j]
                   PROVE  minute[k] <= minute[i]
        OBVIOUS
      <3>1. minute[k] \in Int /\ minute[i] \in Int /\ minute[j] \in Int
        OBVIOUS
      <3>2. QED BY <3>1
    <2>2. i \in S(minute[i]) /\ i \notin S(minute[j])
      <3>1. minute[i] \in Int /\ minute[j] \in Int /\ i \in DOMAIN minute
        OBVIOUS
      <3>2. QED BY <3>1
    <2>3. /\ rank(i) = Cardinality(S(minute[i])) /\ rank(j) = Cardinality(S(minute[j]))
          /\ IsFiniteSet(S(minute[i]))
      BY UpToGrows DEF UpTo
    <2>4. rank(i) \in Nat /\ rank(j) \in Nat
      BY <1>1
    <2> HIDE DEF S, rank
    <2>5. rank(j) <= rank(i) /\ rank(j) # rank(i)
      BY <2>1, <2>2, <2>3, FS_Subset
    <2>6. QED BY <1>2, <2>4, <2>5
  <1>3. ranks \in SUBSET (0 .. L) /\ ranks # {}
    <2> HIDE DEF rank
    <2>1. QED BY <1>1
  <1> HIDE DEF rank
  <1>4. /\ \E m \in ranks : \A x \in ranks : m <= x
        /\ \E m \in ranks : \A x \in ranks : x <= m
    <2> HIDE DEF ranks
    <2>1. QED BY <1>3, Extremes
  <1>5. \E i \in I : \A j \in I : minute[i] <= minute[j]
    BY <1>2, <1>4
  <1>6. \E i \in I : \A j \in I : minute[j] <= minute[i]
    BY <1>2, <1>4
  <1>7. QED BY <1>5, <1>6

(* The n-th of the sorted minutes is up to t exactly when n minutes are:    *)
(* minutes are sorted by counting.                                         *)
LEMMA SortedByCount ==
    ASSUME NEW L \in Nat, NEW minute \in [1 .. L -> Int], NEW n \in 1 .. L
    PROVE  /\ \E i \in 1 .. L : Sorted(minute)[n] = minute[i]
           /\ \A t \in Int : Sorted(minute)[n] <= t <=> n <= UpTo(minute, t)
  <1> DEFINE Less(t) == {i \in DOMAIN minute : minute[i] < t}
             Most(t) == {i \in DOMAIN minute : minute[i] <= t}
             Fits(t) == Cardinality(Less(t)) < n /\ n <= UpTo(minute, t)
             Values == Range(minute)
             I == {i \in 1 .. L : n <= UpTo(minute, minute[i])}
  <1>1. ASSUME NEW t \in Int
        PROVE  /\ Less(t) \in SUBSET (1 .. L)
               /\ IsFiniteSet(Less(t)) /\ Cardinality(Less(t)) \in 0 .. L
    <2>1. Less(t) \in SUBSET (1 .. L)
      OBVIOUS
    <2>2. IsFiniteSet(1 .. L) /\ Cardinality(1 .. L) = L
      BY FS_Interval
    <2> HIDE DEF Less
    <2>3. IsFiniteSet(Less(t)) /\ Cardinality(Less(t)) <= L
      BY <2>1, <2>2, FS_Subset
    <2>4. Cardinality(Less(t)) \in Nat
      BY <2>3, FS_CardinalityType
    <2>5. QED BY <2>1, <2>3, <2>4
  <1>2. ASSUME NEW t \in Int
        PROVE  /\ UpTo(minute, t) \in 0 .. L
               /\ IsFiniteSet(Most(t)) /\ UpTo(minute, t) = Cardinality(Most(t))
    BY UpToGrows DEF UpTo
  <1>3. ASSUME NEW t \in Int, NEW u \in Int, t < u
        PROVE  UpTo(minute, t) <= Cardinality(Less(u))
    <2>1. Most(t) \in SUBSET Less(u)
      <3> SUFFICES ASSUME NEW i \in DOMAIN minute, minute[i] <= t PROVE minute[i] < u
        OBVIOUS
      <3>1. minute[i] \in Int
        OBVIOUS
      <3>2. QED BY <1>3, <3>1
    <2> HIDE DEF Most, Less
    <2>2. QED BY <1>1, <1>2, <2>1, FS_Subset
  <1>4. I # {}
    <2>1. PICK i \in 1 .. L : \A j \in 1 .. L : minute[j] <= minute[i]
      BY EarliestLatest
    <2>2. Most(minute[i]) = 1 .. L
      BY <2>1
    <2>3. Cardinality(1 .. L) = L
      BY FS_Interval
    <2>4. minute[i] \in Int
      OBVIOUS
    <2> HIDE DEF Most
    <2>5. UpTo(minute, minute[i]) = L
      BY <1>2, <2>2, <2>3, <2>4
    <2>6. QED BY <2>5
  <1>5. PICK i \in I : \A j \in I : minute[i] <= minute[j]
    <2>1. I \in SUBSET (1 .. L)
      OBVIOUS
    <2> HIDE DEF I
    <2>2. QED BY <1>4, <2>1, EarliestLatest
  <1>6. Cardinality(Less(minute[i])) < n
    <2>0. minute[i] \in Int /\ Cardinality(Less(minute[i])) \in 0 .. L
      <3>1. minute[i] \in Int
        OBVIOUS
      <3> HIDE DEF Less
      <3>2. QED BY <1>1, <3>1
    <2> SUFFICES ASSUME n <= Cardinality(Less(minute[i])) PROVE FALSE
      <3> HIDE DEF Less
      <3>1. QED BY <2>0
    <2>1. Less(minute[i]) # {}
      <3> SUFFICES ASSUME Less(minute[i]) = {} PROVE FALSE
        OBVIOUS
      <3>1. Cardinality(Less(minute[i])) = 0
        BY FS_EmptySet
      <3>2. QED BY <3>1
    <2>2. PICK p \in Less(minute[i]) : \A j \in Less(minute[i]) : minute[j] <= minute[p]
      <3>1. Less(minute[i]) \in SUBSET (1 .. L)
        OBVIOUS
      <3> HIDE DEF Less
      <3>2. QED BY <2>1, <3>1, EarliestLatest
    <2>3. p \in 1 .. L /\ minute[p] < minute[i]
      BY <2>2
    <2>4. Less(minute[i]) \in SUBSET Most(minute[p])
      BY <2>2
    <2>5. Cardinality(Less(minute[i])) <= UpTo(minute, minute[p])
      <3>1. minute[p] \in Int
        BY <2>3
      <3> HIDE DEF Less, Most
      <3>2. QED BY <1>2, <2>4, <3>1, FS_Subset
    <2>6. p \in I
      <3>1. minute[p] \in Int /\ minute[i] \in Int
        BY <2>3
      <3>2. Cardinality(Less(minute[i])) \in 0 .. L /\ UpTo(minute, minute[p]) \in 0 .. L
        BY <1>1, <1>2, <3>1
      <3> HIDE DEF Less
      <3>3. n <= UpTo(minute, minute[p])
        BY <2>5, <3>2
      <3>4. QED BY <2>3, <3>3
    <2>7. minute[i] <= minute[p] /\ minute[i] \in Int /\ minute[p] \in Int
      BY <1>5, <2>3, <2>6
    <2>8. QED BY <2>3, <2>7
  <1>7. Fits(minute[i]) /\ minute[i] \in Values
    BY <1>6 DEF Range
  <1>8. Sorted(minute)[n] = CHOOSE t \in Values : Fits(t)
    BY DEF Sorted, UpTo
  <1>9. Sorted(minute)[n] \in Values /\ Fits(Sorted(minute)[n])
    <2> HIDE DEF Values, Fits
    <2>1. QED BY <1>7, <1>8
  <1>10. PICK c \in 1 .. L : Sorted(minute)[n] = minute[c]
    BY <1>9 DEF Range
  <1> DEFINE m == minute[c]
  <1>11. m \in Int /\ Cardinality(Less(m)) < n /\ n <= UpTo(minute, m)
    BY <1>9, <1>10
  <1>12. ASSUME NEW t \in Int PROVE m <= t <=> n <= UpTo(minute, t)
    <2>1. CASE m <= t
      <3>1. UpTo(minute, m) <= UpTo(minute, t)
        BY <1>11, <2>1, UpToGrows
      <3>2. UpTo(minute, m) \in Int /\ UpTo(minute, t) \in Int
        <4>1. UpTo(minute, m) \in 0 .. L /\ UpTo(minute, t) \in 0 .. L
          BY <1>2, <1>11
        <4>2. QED BY <4>1
      <3> HIDE DEF m
      <3>3. QED BY <1>11, <2>1, <3>1, <3>2
    <2>2. CASE t < m
      <3>1. UpTo(minute, t) <= Cardinality(Less(m))
        BY <1>3, <1>11, <2>2
      <3>2. UpTo(minute, t) \in Int /\ Cardinality(Less(m)) \in Int
        <4> HIDE DEF m, Less
        <4>1. UpTo(minute, t) \in 0 .. L /\ Cardinality(Less(m)) \in 0 .. L
          BY <1>1, <1>2, <1>11
        <4>2. QED BY <4>1
      <3> HIDE DEF m, Less
      <3>3. QED BY <1>11, <2>2, <3>1, <3>2
    <2>3. QED BY <1>11, <2>1, <2>2
  <1>13. QED BY <1>10, <1>12

(* Sorted minutes never fall.                                              *)
LEMMA SortedNeverFalls ==
    ASSUME NEW L \in Nat, NEW minute \in [1 .. L -> Int]
    PROVE  /\ Sorted(minute) \in [1 .. L -> Int]
           /\ \A k, n \in 1 .. L : k <= n => Sorted(minute)[k] <= Sorted(minute)[n]
  <1>1. \A n \in 1 .. L : Sorted(minute)[n] \in Int
    <2> SUFFICES ASSUME NEW n \in 1 .. L PROVE Sorted(minute)[n] \in Int
      OBVIOUS
    <2>1. PICK i \in 1 .. L : Sorted(minute)[n] = minute[i]
      BY SortedByCount
    <2>2. QED BY <2>1
  <1>2. Sorted(minute) \in [1 .. L -> Int]
    BY <1>1 DEF Sorted
  <1>3. ASSUME NEW k \in 1 .. L, NEW n \in 1 .. L, k <= n
        PROVE  Sorted(minute)[k] <= Sorted(minute)[n]
    <2> DEFINE u == UpTo(minute, Sorted(minute)[n])
    <2>1. Sorted(minute)[n] <= Sorted(minute)[n]
      BY <1>1
    <2>2. n <= u
      BY <1>1, <2>1, SortedByCount
    <2>3. u \in 0 .. L
      BY <1>1, UpToGrows
    <2>4. k <= u
      <3> HIDE DEF u
      <3>1. QED BY <1>3, <2>2, <2>3
    <2>5. QED BY <1>1, <2>4, SortedByCount
  <1>4. QED BY <1>2, <1>3

(* left of a place is the first place from which the window spans          *)
(* BurstWindow minutes or less: what the two pointers of the code keep.    *)
LEMMA LeftIsFirst ==
    ASSUME NEW L \in Nat, NEW at \in [1 .. L -> Int], Len(at) = L,
           \A k, n \in 1 .. L : k <= n => at[k] <= at[n],
           NEW r \in 1 .. L
    PROVE  /\ Lefts(at)[r] \in 1 .. r
           /\ at[r] - at[Lefts(at)[r]] <= BurstWindow
           /\ \A k \in 1 .. r :
                 at[r] - at[k] <= BurstWindow => Lefts(at)[r] <= k
  <1> DEFINE Step(f, n) ==
                 IF n = 0 THEN 1
                 ELSE CHOOSE l \in f[n - 1] .. n :
                          /\ at[n] - at[l] <= BurstWindow
                          /\ \A k \in f[n - 1] .. l - 1 : at[n] - at[k] > BurstWindow
             Is(f) == f = [n \in 0 .. L |-> Step(f, n)]
             First(n, l) == /\ l \in 1 .. n
                            /\ at[n] - at[l] <= BurstWindow
                            /\ \A k \in 1 .. n : at[n] - at[k] <= BurstWindow => l <= k
             Found(n) == IF n = 0 THEN 1 ELSE CHOOSE l : First(n, l)
             Firsts == [n \in 0 .. L |-> Found(n)]
  <1>1. Lefts(at) = CHOOSE f : Is(f)
    BY DEF Lefts
  <1>2. BurstWindow \in Nat
    BY SpamAssumption
  <1>3. ASSUME NEW n \in 1 .. L PROVE \E l : First(n, l)
    <2> DEFINE B == {l \in 1 .. n : at[n] - at[l] <= BurstWindow}
    <2>1. n \in B
      <3>1. at[n] \in Int
        OBVIOUS
      <3>2. at[n] - at[n] = 0 /\ n \in 1 .. n
        BY <3>1
      <3>3. QED BY <1>2, <3>2
    <2>2. B \subseteq Nat
      OBVIOUS
    <2>3. PICK l \in B : \A k \in B : l <= k
      <3> HIDE DEF B
      <3>1. QED BY <2>1, <2>2, LeastNat
    <2>4. First(n, l)
      BY <2>3
    <2>5. QED BY <2>4
  <1>4. ASSUME NEW n \in 1 .. L, NEW l, NEW m, First(n, l), First(n, m) PROVE l = m
    <2>1. l <= m /\ m <= l /\ l \in Int /\ m \in Int
      BY <1>4
    <2>2. QED BY <2>1
  <1>5. ASSUME NEW f, NEW n \in 1 .. L, n = 1 => f[n - 1] = 1,
               n # 1 => First(n - 1, f[n - 1])
        PROVE  First(n, Step(f, n))
    <2> DEFINE from == f[n - 1]
               Fits(l) == /\ at[n] - at[l] <= BurstWindow
                          /\ \A k \in from .. l - 1 : at[n] - at[k] > BurstWindow
    <2>1. from \in 1 .. n
      <3>1. CASE n = 1
        BY <1>5, <3>1
      <3>2. CASE n # 1
        <4>1. from \in 1 .. n - 1
          BY <1>5, <3>2
        <4> HIDE DEF from
        <4>2. QED BY <4>1
      <3>3. QED BY <3>1, <3>2
    <2>2. \A k \in 1 .. n : at[n] - at[k] <= BurstWindow => from <= k
      <3>1. CASE n = 1
        BY <1>5, <3>1
      <3>2. CASE n # 1
        <4> SUFFICES ASSUME NEW k \in 1 .. n, at[n] - at[k] <= BurstWindow
                     PROVE  from <= k
          OBVIOUS
        <4>1. CASE k = n
          <5> HIDE DEF from
          <5>1. QED BY <2>1, <4>1
        <4>2. CASE k # n
          <5>1. k \in 1 .. n - 1 /\ n - 1 \in 1 .. L /\ k \in 1 .. L
            BY <3>2, <4>2
          <5>2. at[n - 1] <= at[n]
            BY <5>1
          <5>3. at[n - 1] \in Int /\ at[n] \in Int /\ at[k] \in Int
            BY <5>1
          <5>4. at[n - 1] - at[k] <= BurstWindow
            BY <1>2, <5>2, <5>3
          <5>5. QED BY <1>5, <3>2, <5>1, <5>4
        <4>3. QED BY <4>1, <4>2
      <3>3. QED BY <3>1, <3>2
    <2>3. PICK l : First(n, l)
      BY <1>3
    <2>4. l \in from .. n /\ Fits(l)
      <3>1. from <= l /\ l \in 1 .. n /\ at[n] - at[l] <= BurstWindow
        BY <2>2, <2>3
      <3>2. ASSUME NEW k \in from .. l - 1 PROVE at[n] - at[k] > BurstWindow
        <4>1. from \in Int /\ l \in Int /\ l <= n /\ 1 <= from
          BY <2>1, <3>1
        <4> HIDE DEF from
        <4>2. k \in 1 .. n /\ ~(l <= k)
          BY <4>1
        <4>3. at[n] \in Int /\ at[k] \in Int
          BY <4>2
        <4>4. QED BY <1>2, <2>3, <4>2, <4>3
      <3>3. l \in from .. n
        <4> HIDE DEF from
        <4>1. QED BY <2>1, <3>1
      <3>4. QED BY <3>1, <3>2, <3>3
    <2>5. Step(f, n) = CHOOSE m \in from .. n : Fits(m)
      <3>1. n # 0
        OBVIOUS
      <3>2. QED BY <3>1, Zenon
    <2>6. Step(f, n) \in from .. n /\ Fits(Step(f, n))
      <3> HIDE DEF Fits, from, Step
      <3>1. QED BY <2>4, <2>5
    <2>7. ASSUME NEW m \in from .. n, Fits(m) PROVE First(n, m)
      <3>1. from \in Int /\ 1 <= from
        BY <2>1
      <3>2. m \in 1 .. n /\ m \in Int
        <4> HIDE DEF from
        <4>1. QED BY <3>1
      <3>3. ASSUME NEW k \in 1 .. n, at[n] - at[k] <= BurstWindow PROVE m <= k
        <4>1. from <= k
          BY <2>2, <3>3
        <4>2. at[n] \in Int /\ at[k] \in Int
          OBVIOUS
        <4>3. ~(k \in from .. m - 1)
          BY <1>2, <2>7, <3>3, <4>2
        <4> HIDE DEF from
        <4>4. QED BY <3>1, <3>2, <4>1, <4>3
      <3>4. QED BY <2>7, <3>2, <3>3
    <2>8. QED
      <3> HIDE DEF Fits, from, Step, First
      <3>1. QED BY <2>6, <2>7
  <1>6. Is(Firsts)
    <2>1. ASSUME NEW n \in 1 .. L PROVE First(n, Firsts[n])
      <3>1. Firsts[n] = CHOOSE l : First(n, l)
        OBVIOUS
      <3> HIDE DEF Firsts, First
      <3>2. QED BY <1>3, <3>1
    <2>2. Firsts[0] = 1
      OBVIOUS
    <2>3. ASSUME NEW n \in 1 .. L PROVE Firsts[n] = Step(Firsts, n)
      <3>1. n = 1 => Firsts[n - 1] = 1
        <4> HIDE DEF Firsts
        <4>1. QED BY <2>2
      <3>2. n # 1 => First(n - 1, Firsts[n - 1])
        <4> HIDE DEF Firsts, First
        <4>1. QED BY <2>1
      <3> HIDE DEF Firsts, First, Step
      <3>3. First(n, Step(Firsts, n))
        BY <1>5, <3>1, <3>2
      <3>4. QED BY <1>4, <2>1, <3>3
    <2>4. Step(Firsts, 0) = 1
      OBVIOUS
    <2>5. Firsts = [n \in 0 .. L |-> Firsts[n]]
      OBVIOUS
    <2>6. \A n \in 0 .. L : Firsts[n] = Step(Firsts, n)
      <3> HIDE DEF Firsts, Step
      <3>1. QED BY <2>2, <2>3, <2>4
    <2> HIDE DEF Firsts, Step
    <2>7. QED BY <2>5, <2>6
  <1> DEFINE left == Lefts(at)
  <1>7. Is(left)
    <2> HIDE DEF Is, Firsts
    <2>1. QED BY <1>1, <1>6
  <1>8. left[0] = 1
    BY <1>7
  <1>9. \A n \in 1 .. L : left[n] = Step(left, n)
    <2> HIDE DEF left, Step
    <2>1. QED BY <1>7
  <1>10. \A n \in 1 .. L : First(n, left[n])
    <2> DEFINE Bad == {n \in 1 .. L : ~First(n, left[n])}
    <2> SUFFICES ASSUME Bad # {} PROVE FALSE
      OBVIOUS
    <2>1. Bad \subseteq Nat
      OBVIOUS
    <2>2. PICK n \in Bad : \A k \in Bad : n <= k
      <3> HIDE DEF Bad
      <3>1. QED BY <2>1, LeastNat
    <2> HIDE DEF left, First, Step
    <2>3. n \in 1 .. L /\ ~First(n, left[n])
      BY <2>2
    <2>4. n # 1 => First(n - 1, left[n - 1])
      <3> SUFFICES ASSUME n # 1, ~First(n - 1, left[n - 1]) PROVE FALSE
        OBVIOUS
      <3>1. n - 1 \in 1 .. L
        BY <2>3
      <3>2. n - 1 \in Bad
        BY <3>1
      <3>3. n <= n - 1
        BY <2>2, <3>2
      <3>4. QED BY <2>3, <3>3
    <2>5. n = 1 => left[n - 1] = 1
      BY <1>8
    <2>6. First(n, Step(left, n))
      BY <1>5, <2>3, <2>4, <2>5
    <2>7. QED BY <1>9, <2>3, <2>6
  <1>11. QED BY <1>10

(* The widest window of the code holds as many of the minutes as any       *)
(* window that begins at one of them.                                      *)
LEMMA BurstCounts ==
    ASSUME NEW L \in Nat, L >= 2, NEW minute \in [1 .. L -> Int]
    PROVE  LET at        == Sorted(minute)
               left      == Lefts(at)
               within(i) == {j \in 1 .. L : minute[j] - minute[i] \in 0 .. BurstWindow}
           IN  Max({right - left[right] + 1 : right \in 1 .. L})
                   = Max({Cardinality(within(i)) : i \in 1 .. L})
  <1> DEFINE at == Sorted(minute)
             left == Lefts(at)
             within(i) == {j \in 1 .. L : minute[j] - minute[i] \in 0 .. BurstWindow}
             Most(t) == {j \in DOMAIN minute : minute[j] <= t}
             V == {right - left[right] + 1 : right \in 1 .. L}
             W == {Cardinality(within(i)) : i \in 1 .. L}
  <1>0. BurstWindow \in Nat
    BY SpamAssumption
  <1>1. /\ at \in [1 .. L -> Int]
        /\ \A k, n \in 1 .. L : k <= n => at[k] <= at[n]
    BY SortedNeverFalls
  <1>2. \A r \in 1 .. L : /\ left[r] \in 1 .. r
                          /\ at[r] - at[left[r]] <= BurstWindow
                          /\ \A k \in 1 .. r : at[r] - at[k] <= BurstWindow => left[r] <= k
    <2>1. Len(at) = L
      BY <1>1
    <2> HIDE DEF at
    <2>2. QED BY <1>1, <2>1, LeftIsFirst
  <1>3. \A n \in 1 .. L : /\ \E i \in 1 .. L : at[n] = minute[i]
                          /\ \A t \in Int : at[n] <= t <=> n <= UpTo(minute, t)
    BY SortedByCount
  <1>4. \A t \in Int : /\ UpTo(minute, t) \in 0 .. L
                       /\ IsFiniteSet(Most(t)) /\ Cardinality(Most(t)) = UpTo(minute, t)
    BY UpToGrows DEF UpTo
  <1>5. ASSUME NEW i \in 1 .. L
        PROVE  /\ minute[i] - 1 \in Int /\ minute[i] + BurstWindow \in Int
               /\ Cardinality(within(i))
                      = UpTo(minute, minute[i] + BurstWindow) - UpTo(minute, minute[i] - 1)
               /\ UpTo(minute, minute[i] - 1) < UpTo(minute, minute[i] + BurstWindow)
    <2> DEFINE late == minute[i] + BurstWindow
               early == minute[i] - 1
    <2>1. minute[i] \in Int /\ late \in Int /\ early \in Int
      BY <1>0
    <2>2. Most(early) \in SUBSET Most(late)
      <3> SUFFICES ASSUME NEW j \in 1 .. L, minute[j] <= early PROVE minute[j] <= late
        OBVIOUS
      <3>1. minute[j] \in Int
        OBVIOUS
      <3>2. QED BY <1>0, <2>1, <3>1
    <2>3. within(i) = Most(late) \ Most(early)
      <3>1. \A j \in 1 .. L : minute[j] - minute[i] \in 0 .. BurstWindow
                                  <=> minute[j] <= late /\ ~(minute[j] <= early)
        <4> SUFFICES ASSUME NEW j \in 1 .. L
                     PROVE  minute[j] - minute[i] \in 0 .. BurstWindow
                                <=> minute[j] <= late /\ ~(minute[j] <= early)
          OBVIOUS
        <4>1. minute[j] \in Int
          OBVIOUS
        <4>2. QED BY <1>0, <2>1, <4>1
      <3> HIDE DEF late, early
      <3>2. QED BY <3>1
    <2>4. i \in within(i)
      <3>1. minute[i] - minute[i] = 0
        BY <2>1
      <3>2. QED BY <1>0, <3>1
    <2>5. Cardinality(within(i)) = UpTo(minute, late) - UpTo(minute, early)
      <3> HIDE DEF late, early, within, Most
      <3>1. /\ IsFiniteSet(Most(late)) /\ Most(late) \cap Most(early) = Most(early)
            /\ Cardinality(Most(late)) = UpTo(minute, late)
            /\ Cardinality(Most(early)) = UpTo(minute, early)
        BY <1>4, <2>1, <2>2
      <3>2. Cardinality(Most(late) \ Most(early))
                = Cardinality(Most(late)) - Cardinality(Most(late) \cap Most(early))
        BY ONLY <3>1, FS_Difference, Zenon
      <3>3. QED BY <2>3, <3>1, <3>2
    <2>6. IsFiniteSet(within(i)) /\ Cardinality(within(i)) # 0
      <3> HIDE DEF late, early, within, Most
      <3>1. IsFiniteSet(within(i))
        <4>1. IsFiniteSet(Most(late))
          BY <1>4, <2>1
        <4>2. IsFiniteSet(Most(late) \ Most(early))
          BY ONLY <4>1, FS_Difference, Zenon
        <4>3. QED BY <2>3, <4>2
      <3>2. QED BY <2>4, <3>1, FS_EmptySet
    <2>7. UpTo(minute, early) <= UpTo(minute, late)
      <3>1. early <= late
        BY <1>0, <2>1
      <3> HIDE DEF late, early
      <3>2. QED BY <2>1, <3>1, UpToGrows
    <2>8. UpTo(minute, early) < UpTo(minute, late)
      <3> HIDE DEF late, early, within
      <3>1. UpTo(minute, early) \in 0 .. L /\ UpTo(minute, late) \in 0 .. L
        BY <1>4, <2>1
      <3>2. QED BY <2>5, <2>6, <2>7, <3>1
    <2>9. QED BY <2>1, <2>5, <2>8
  <1>6. ASSUME NEW r \in 1 .. L
        PROVE  \E i \in 1 .. L : r - left[r] + 1 <= Cardinality(within(i))
    <2> DEFINE l == left[r]
    <2>1. l \in 1 .. L /\ at[r] - at[l] <= BurstWindow
      <3>1. l \in 1 .. r /\ at[r] - at[l] <= BurstWindow
        BY <1>2
      <3> HIDE DEF l
      <3>2. QED BY <3>1
    <2>2. PICK i \in 1 .. L : at[l] = minute[i]
      <3> HIDE DEF l, at
      <3>1. QED BY <1>3, <2>1
    <2>3. /\ at[r] <= minute[i] + BurstWindow
          /\ ~(at[l] <= minute[i] - 1)
      <3>1. at[r] \in Int /\ at[l] \in Int /\ minute[i] \in Int
        <4> HIDE DEF at, l
        <4>1. QED BY <1>1, <2>1
      <3> HIDE DEF at, l
      <3>2. QED BY <1>0, <2>1, <2>2, <3>1
    <2> HIDE DEF at, l, within, left
    <2>4. /\ r <= UpTo(minute, minute[i] + BurstWindow)
          /\ ~(l <= UpTo(minute, minute[i] - 1))
      BY <1>3, <1>5, <2>1, <2>3
    <2>5. /\ UpTo(minute, minute[i] + BurstWindow) \in 0 .. L
          /\ UpTo(minute, minute[i] - 1) \in 0 .. L
      BY <1>4, <1>5
    <2>6. r - l + 1 <= Cardinality(within(i))
      <3>1. Cardinality(within(i))
                = UpTo(minute, minute[i] + BurstWindow) - UpTo(minute, minute[i] - 1)
        BY <1>5
      <3> DEFINE c == Cardinality(within(i))
                 a == UpTo(minute, minute[i] + BurstWindow)
                 b == UpTo(minute, minute[i] - 1)
      <3>2. c = a - b /\ r <= a /\ ~(l <= b) /\ a \in 0 .. L /\ b \in 0 .. L
        BY <2>4, <2>5, <3>1
      <3> HIDE DEF a, b, c
      <3>3. r - l + 1 <= c
        BY <2>1, <3>2
      <3>4. QED BY <3>3 DEF c
    <2>7. QED BY <2>6 DEF l
  <1>7. ASSUME NEW i \in 1 .. L
        PROVE  \E r \in 1 .. L : Cardinality(within(i)) <= r - left[r] + 1
    <2> DEFINE r == UpTo(minute, minute[i] + BurstWindow)
               k == UpTo(minute, minute[i] - 1) + 1
    <2>1. r \in 1 .. L /\ k \in 1 .. r /\ Cardinality(within(i)) = r - k + 1
      <3>1. /\ UpTo(minute, minute[i] + BurstWindow) \in 0 .. L
            /\ UpTo(minute, minute[i] - 1) \in 0 .. L
        BY <1>4, <1>5
      <3> DEFINE c == Cardinality(within(i))
                 b == UpTo(minute, minute[i] - 1)
      <3>2. c = r - b /\ b < r /\ r \in 0 .. L /\ b \in 0 .. L
        BY <1>5, <3>1
      <3>3. k = b + 1
        OBVIOUS
      <3> HIDE DEF c, b, r, k
      <3>4. r \in 1 .. L /\ k \in 1 .. r /\ c = r - k + 1
        BY <3>2, <3>3
      <3>5. QED BY <3>4 DEF c
    <2>2. at[r] <= minute[i] + BurstWindow
      <3>1. r <= UpTo(minute, minute[i] + BurstWindow) /\ r \in 1 .. L
        BY <2>1
      <3>2. minute[i] + BurstWindow \in Int
        BY <1>5
      <3> HIDE DEF at, r
      <3>3. QED BY <1>3, <3>1, <3>2
    <2>3. ~(at[k] <= minute[i] - 1)
      <3>1. ~(k <= UpTo(minute, minute[i] - 1))
        <4> DEFINE b == UpTo(minute, minute[i] - 1)
        <4>1. b \in 0 .. L
          BY <1>4, <1>5
        <4>2. k = b + 1
          OBVIOUS
        <4> HIDE DEF b, k
        <4>3. ~(k <= b)
          BY <4>1, <4>2
        <4>4. QED BY <4>3 DEF b
      <3>2. k \in 1 .. L
        <4> HIDE DEF r, k
        <4>1. QED BY <2>1
      <3>3. minute[i] - 1 \in Int
        BY <1>5
      <3> HIDE DEF at, k
      <3>4. QED BY <1>3, <3>1, <3>2, <3>3
    <2>4. at[r] - at[k] <= BurstWindow
      <3> HIDE DEF at, r, k
      <3>1. at[r] \in Int /\ at[k] \in Int /\ minute[i] \in Int
        <4>1. k \in 1 .. L
          BY <2>1
        <4>2. QED BY <1>1, <2>1, <4>1
      <3>2. QED BY <1>0, <2>2, <2>3, <3>1
    <2> HIDE DEF at, r, k, within, left
    <2>5. left[r] <= k /\ left[r] \in Int
      BY <1>2, <2>1, <2>4
    <2>6. Cardinality(within(i)) <= r - left[r] + 1
      BY <2>1, <2>5
    <2>7. QED BY <2>1, <2>6
  <1>8. V \in SUBSET (0 .. L) /\ V # {}
    <2> HIDE DEF left
    <2>1. ASSUME NEW r \in 1 .. L PROVE r - left[r] + 1 \in 0 .. L
      <3>1. left[r] \in 1 .. r
        BY <1>2
      <3>2. QED BY <3>1
    <2>2. 1 \in 1 .. L
      OBVIOUS
    <2>3. QED BY <2>1, <2>2
  <1>9. W \in SUBSET Int
    <2> HIDE DEF within
    <2>1. ASSUME NEW i \in 1 .. L PROVE Cardinality(within(i)) \in Int
      <3>1. /\ UpTo(minute, minute[i] + BurstWindow) \in 0 .. L
            /\ UpTo(minute, minute[i] - 1) \in 0 .. L
        BY <1>4, <1>5
      <3>2. QED BY <1>5, <3>1
    <2>2. QED BY <2>1
  <1>10. \A v \in V : \E w \in W : v <= w
    <2> HIDE DEF within, left
    <2>1. QED BY <1>6
  <1>11. \A w \in W : \E v \in V : w <= v
    <2> HIDE DEF within, left
    <2>1. QED BY <1>7
  <1>12. Max(V) = Max(W)
    <2> HIDE DEF V, W
    <2>1. QED BY <1>8, <1>9, <1>10, <1>11, SameMax
  <1>13. QED BY <1>12

Times == [zone : {"none", "naive", "aware"}, minute : Int]

\* The same of times: Burst is the largest of their windows.
LEMMA BurstOfTimes ==
    ASSUME NEW times \in Seq(Times), Len(times) >= 2
    PROVE  Burst(times)
               = Max({Cardinality({j \in DOMAIN times :
                         times[j].minute - times[i].minute \in 0 .. BurstWindow})
                      : i \in DOMAIN times})
  <1> DEFINE L == Len(times)
             minute == [i \in DOMAIN times |-> times[i].minute]
             at == Sorted(minute)
             left == Lefts(at)
             within(i) == {j \in 1 .. L : minute[j] - minute[i] \in 0 .. BurstWindow}
             near(i) == {j \in DOMAIN times :
                            times[j].minute - times[i].minute \in 0 .. BurstWindow}
  <1>1. L \in Nat /\ L >= 2 /\ DOMAIN times = 1 .. L
    OBVIOUS
  <1>2. minute \in [1 .. L -> Int]
    <2>1. \A i \in 1 .. L : times[i].minute \in Int
      <3>1. \A i \in 1 .. L : times[i] \in Times
        OBVIOUS
      <3>2. \A t \in Times : t.minute \in Int
        BY DEF Times
      <3> HIDE DEF L
      <3>3. QED BY <3>1, <3>2
    <2> HIDE DEF L
    <2>2. QED BY <1>1, <2>1
  <1>3. at \in [1 .. L -> Int] /\ DOMAIN at = 1 .. L /\ Len(at) = L
    <2> HIDE DEF minute, L
    <2>1. at \in [1 .. L -> Int]
      BY <1>1, <1>2, SortedNeverFalls
    <2> HIDE DEF at
    <2>2. QED BY <1>1, <2>1
  <1>4. Minutes(times) = at
    BY DEF Minutes
  <1>5. Burst(times) = Max({right - left[right] + 1 : right \in 1 .. L})
    <2> HIDE DEF at, L
    <2>1. ~(Len(at) < 2)
      BY <1>1, <1>3
    <2>2. QED BY <1>3, <1>4, <2>1 DEF Burst
  <1>6. Max({right - left[right] + 1 : right \in 1 .. L})
            = Max({Cardinality(within(i)) : i \in 1 .. L})
    <2> HIDE DEF minute, L
    <2>1. QED BY <1>1, <1>2, BurstCounts
  <1>7. \A i \in 1 .. L : within(i) = near(i)
    <2> HIDE DEF L
    <2>1. \A i \in 1 .. L : minute[i] = times[i].minute
      BY <1>1
    <2> HIDE DEF minute
    <2>2. QED BY <1>1, <2>1
  <1>8. {Cardinality(within(i)) : i \in 1 .. L} = {Cardinality(near(i)) : i \in DOMAIN times}
    <2> HIDE DEF within, near, L
    <2>1. QED BY <1>1, <1>7
  <1>9. QED BY <1>5, <1>6, <1>8

(***************************************************************************)
(* In every run the burst of an author is the largest number of the        *)
(* author's mentions posted within any window, in whatever order they      *)
(* arrived: the two pointers of _burstiness_score, which only ever move    *)
(* forward over the sorted times, miss no window.                          *)
(***************************************************************************)
THEOREM BurstsAreDensest == Spec => []BurstIsDensest
  <1>1. MentionsOfRecords => BurstIsDensest
    <2> DEFINE ms == facts.mentions
               own(author) == {i \in DOMAIN ms : ms[i].author = author}
               mine(author) == MentionsBy(author, ms)
               posted(author) == Posted(mine(author))
    <2> SUFFICES ASSUME MentionsOfRecords, NEW author \in DOMAIN facts.profiles,
                        Len(posted(author)) >= 2
                 PROVE  facts.profiles[author].burst
                            = Max({Cardinality({j \in DOMAIN posted(author) :
                                  posted(author)[j].minute - posted(author)[i].minute
                                      \in 0 .. BurstWindow}) : i \in DOMAIN posted(author)})
      BY DEF BurstIsDensest
    <2>1. facts.profiles = Profiles(ms)
      <3>1. DOMAIN <<>> = {}
        OBVIOUS
      <3>2. facts.profiles # <<>>
        BY <3>1
      <3>3. QED BY <3>2 DEF MentionsOfRecords
    <2>2. ms \in Seq(Range(ms)) /\ \A m \in Range(ms) : m.posted \in Times
      <3>1. \A r \in Range(run.records) : r.posted \in Times
        <4>1. \A r \in Records : r.posted \in Times
          BY DEF Records, Times
        <4>2. \A r \in Range(run.records) : r \in Records
          BY DEF MentionsOfRecords, ScenarioType, Range
        <4>3. QED BY <4>1, <4>2
      <3>2. QED BY <3>1 DEF MentionsOfRecords, Range, Stems
    <2> HIDE DEF ms
    <2>3. mine(author) \in Seq(Range(ms))
      <3>1. own(author) \in SUBSET (DOMAIN ms)
        OBVIOUS
      <3>2. mine(author) = At(ms, own(author))
        BY DEF MentionsBy
      <3> HIDE DEF own, mine
      <3>3. QED BY <2>2, <3>1, <3>2, AtPlaces
    <2> HIDE DEF mine
    <2>4. posted(author) \in Seq(Times)
      <3> DEFINE S == {i \in DOMAIN mine(author) : mine(author)[i].posted # NoTime}
                 timed == At(mine(author), S)
      <3>1. S \in SUBSET (DOMAIN mine(author))
        OBVIOUS
      <3>2. posted(author) = [i \in DOMAIN timed |-> timed[i].posted]
        BY DEF Posted
      <3> HIDE DEF S, posted
      <3>3. timed \in Seq(Range(ms))
        BY <2>3, <3>1, AtPlaces
      <3> HIDE DEF timed
      <3>4. QED BY <2>2, <3>2, <3>3
    <2>5. facts.profiles[author].burst = Burst(posted(author))
      <3>1. author \in Authors(ms)
        BY <2>1 DEF Profiles
      <3>2. facts.profiles[author] = AuthorProfile(mine(author))
        BY <2>1, <3>1 DEF Profiles, mine
      <3>3. QED BY <3>2 DEF AuthorProfile
    <2> HIDE DEF posted
    <2>6. QED BY <2>4, <2>5, BurstOfTimes
  <1>2. QED BY <1>1, MentionsStay, PTL

-----------------------------------------------------------------------------
\* Loops, and sums over rows.

\* f holds what a loop over 1 .. N that starts with base has after each step.
Loop(f, V, N, base, step) ==
    /\ f \in [0 .. N -> V]
    /\ f[0] = base
    /\ \A n \in 1 .. N : f[n] = step[n][f[n - 1]]

(* A loop over the numbers up to N has a result at each of them: what a    *)
(* recursive function over an interval stands for exists.                  *)
LEMMA LoopRuns ==
    ASSUME NEW V, NEW N \in Nat, NEW base \in V, NEW step \in [1 .. N -> [V -> V]]
    PROVE  \E f : Loop(f, V, N, base, step)
  <1> DEFINE Loops(f, n) == /\ f \in [0 .. n -> V]
                            /\ f[0] = base
                            /\ \A k \in 1 .. n : f[k] = step[k][f[k - 1]]
             Stuck == {n \in 0 .. N : ~ \E f : Loops(f, n)}
  <1>1. ASSUME Stuck # {} PROVE FALSE
    <2>1. Stuck \subseteq Nat
      OBVIOUS
    <2>2. PICK n \in Stuck : \A m \in Stuck : n <= m
      <3> HIDE DEF Stuck
      <3>1. QED BY <1>1, <2>1, LeastNat
    <2>3. n # 0
      <3> DEFINE f == [k \in 0 .. 0 |-> base]
      <3>1. Loops(f, 0)
        OBVIOUS
      <3> HIDE DEF Loops, f
      <3>2. QED BY <2>2, <3>1
    <2>4. n \in 1 .. N /\ n - 1 \in 0 .. N /\ ~(n <= n - 1)
      BY <2>2, <2>3
    <2>5. PICK f : Loops(f, n - 1)
      <3> HIDE DEF Loops
      <3>1. n - 1 \notin Stuck
        BY <2>2, <2>4
      <3>2. QED BY <2>4, <3>1
    <2> DEFINE g == [k \in 0 .. n |-> IF k = n THEN step[n][f[n - 1]] ELSE f[k]]
    <2>6. f[n - 1] \in V /\ \A k \in 0 .. n - 1 : f[k] \in V
      BY <2>4, <2>5
    <2>7. g \in [0 .. n -> V]
      <3>1. step[n][f[n - 1]] \in V
        BY <2>4, <2>6
      <3>2. \A k \in 0 .. n : k # n => k \in 0 .. n - 1
        BY <2>4
      <3>3. QED BY <2>6, <3>1, <3>2
    <2>8. g[0] = base
      BY <2>3, <2>4, <2>5
    <2>9. ASSUME NEW k \in 1 .. n PROVE g[k] = step[k][g[k - 1]]
      <3>1. k \in 0 .. n /\ k - 1 \in 0 .. n - 1 /\ k - 1 # n /\ k - 1 \in 0 .. n
        BY <2>4
      <3>2. g[k - 1] = f[k - 1]
        BY <3>1
      <3>3. CASE k = n
        BY <3>1, <3>2, <3>3
      <3>4. CASE k # n
        <4>1. k \in 1 .. n - 1
          BY <2>4, <3>4
        <4>2. f[k] = step[k][f[k - 1]]
          BY <2>5, <4>1
        <4>3. g[k] = f[k]
          BY <3>1, <3>4
        <4> HIDE DEF g
        <4>4. QED BY <3>2, <4>2, <4>3
      <3>5. QED BY <3>3, <3>4
    <2>10. Loops(g, n)
      <3> HIDE DEF g
      <3>1. QED BY <2>7, <2>8, <2>9
    <2> HIDE DEF Loops, g
    <2>11. QED BY <2>2, <2>10
  <1>2. N \in 0 .. N
    OBVIOUS
  <1> HIDE DEF Loops
  <1>3. PICK f : Loops(f, N)
    BY <1>1, <1>2
  <1>4. QED BY <1>3 DEF Loops, Loop

(* What holds at 0 and of each number after its predecessor holds up to N.  *)
LEMMA StepByStep ==
    ASSUME NEW N \in Nat, NEW S, 0 \in S, \A n \in 1 .. N : n - 1 \in S => n \in S
    PROVE  \A n \in 0 .. N : n \in S
  <1> DEFINE Bad == {n \in 0 .. N : n \notin S}
  <1> SUFFICES ASSUME Bad # {} PROVE FALSE
    OBVIOUS
  <1>1. Bad \subseteq Nat
    OBVIOUS
  <1>2. PICK n \in Bad : \A m \in Bad : n <= m
    <2> HIDE DEF Bad
    <2>1. QED BY <1>1, LeastNat
  <1>3. n # 0
    BY <1>2
  <1>4. n \in 1 .. N /\ n - 1 \in 0 .. N /\ ~(n <= n - 1)
    BY <1>2, <1>3
  <1>5. n - 1 \notin Bad
    <2> HIDE DEF Bad
    <2>1. QED BY <1>2, <1>4
  <1>6. n - 1 \in S
    BY <1>4, <1>5
  <1>7. QED BY <1>2, <1>4, <1>6

(* Of finitely many rows one has no other above it.                        *)
LEMMA OneIsHighest ==
    ASSUME NEW rows, IsFiniteSet(rows), rows # {},
           \A r \in rows : r.by[1] \in Int /\ r.by[2] \in Int
    PROVE  Highest(rows) \in rows /\ \A s \in rows : ~Above(s, Highest(rows))
  <1> DEFINE higher(r) == {s \in rows : Above(s, r)}
             ranks == {Cardinality(higher(r)) : r \in rows}
  <1>1. ASSUME NEW r \in rows
        PROVE  IsFiniteSet(higher(r)) /\ Cardinality(higher(r)) \in Nat
    <2>1. higher(r) \in SUBSET rows
      OBVIOUS
    <2> HIDE DEF higher
    <2>2. QED BY <2>1, FS_Subset, FS_CardinalityType
  <1>2. ranks \subseteq Nat /\ ranks # {}
    <2> HIDE DEF higher
    <2>1. QED BY <1>1
  <1>3. PICK r \in rows : \A s \in rows : Cardinality(higher(r)) <= Cardinality(higher(s))
    <2>1. \E k \in ranks : \A n \in ranks : k <= n
      <3> HIDE DEF ranks
      <3>1. QED BY <1>2, LeastNat
    <2> HIDE DEF higher
    <2>2. QED BY <2>1
  <1>4. ASSUME NEW s \in rows, Above(s, r) PROVE FALSE
    <2>1. higher(s) \in SUBSET higher(r)
      <3> SUFFICES ASSUME NEW x \in rows, Above(x, s) PROVE Above(x, r)
        OBVIOUS
      <3>1. /\ x.by[1] \in Int /\ s.by[1] \in Int /\ r.by[1] \in Int
            /\ x.by[2] \in Int /\ s.by[2] \in Int /\ r.by[2] \in Int
        OBVIOUS
      <3>2. QED BY <1>4, <3>1 DEF Above
    <2>2. s \in higher(r) /\ s \notin higher(s)
      <3>1. s.by[1] \in Int /\ s.by[2] \in Int
        OBVIOUS
      <3>2. QED BY <1>4, <3>1 DEF Above
    <2> HIDE DEF higher
    <2>3. /\ Cardinality(higher(s)) <= Cardinality(higher(r))
          /\ Cardinality(higher(s)) # Cardinality(higher(r))
      BY <1>1, <2>1, <2>2, FS_Subset
    <2>4. QED BY <1>1, <1>3, <2>3
  <1>5. \E x \in rows : \A s \in rows : ~Above(s, x)
    BY <1>4
  <1>6. QED BY <1>5 DEF Highest

(* Rows are ranked one by one, each row once, the highest first.           *)
LEMMA RankedRows ==
    ASSUME NEW rows, IsFiniteSet(rows),
           \A r \in rows : r.by[1] \in Int /\ r.by[2] \in Int
    PROVE  LET N == Cardinality(rows)
           IN  /\ N \in Nat /\ Ranked(rows) \in [1 .. N -> rows]
               /\ \A j, k \in 1 .. N : Ranked(rows)[j] = Ranked(rows)[k] => j = k
               /\ \A r \in rows : \E k \in 1 .. N : Ranked(rows)[k] = r
               /\ N > 0 => \A s \in rows : ~Above(s, Ranked(rows)[1])
  <1> DEFINE N == Cardinality(rows)
             Rest(f, n) == IF n = 0 THEN rows ELSE f[n - 1] \ {Highest(f[n - 1])}
             Is(f) == f = [n \in 0 .. N |-> Rest(f, n)]
             below == CHOOSE f : Is(f)
             ranked == Ranked(rows)
  <1>1. N \in Nat
    BY FS_CardinalityType
  <1>2. ranked = [n \in 1 .. N |-> Highest(below[n - 1])]
    BY DEF Ranked
  <1>3. Is(below)
    <2> DEFINE V == SUBSET rows
               step == [n \in 1 .. N |-> [S \in V |-> S \ {Highest(S)}]]
    <2>1. step \in [1 .. N -> [V -> V]]
      OBVIOUS
    <2>2. rows \in V
      OBVIOUS
    <2> HIDE DEF step, N
    <2>3. PICK f : Loop(f, V, N, rows, step)
      <3> HIDE DEF V
      <3>1. QED BY <1>1, <2>1, <2>2, LoopRuns
    <2>4. ASSUME NEW n \in 0 .. N PROVE f[n] = Rest(f, n)
      <3>1. CASE n = 0
        BY <2>3, <3>1 DEF Loop
      <3>2. CASE n # 0
        <4>1. n \in 1 .. N /\ n - 1 \in 0 .. N
          BY <1>1, <3>2
        <4>2. f[n - 1] \in SUBSET rows
          BY <2>3, <4>1 DEF Loop
        <4>3. step[n][f[n - 1]] = f[n - 1] \ {Highest(f[n - 1])}
          BY <4>1, <4>2 DEF step
        <4>4. QED BY <2>3, <3>2, <4>1, <4>3 DEF Loop
      <3>3. QED BY <3>1, <3>2
    <2>5. Is(f)
      <3> HIDE DEF Rest
      <3>1. f = [n \in 0 .. N |-> f[n]]
        BY <2>3 DEF Loop
      <3>2. QED BY <2>4, <3>1
    <2> HIDE DEF Is
    <2>6. QED BY <2>5
  <1> HIDE DEF below, N
  <1>4. below[0] = rows
    BY <1>1, <1>3
  <1>5. \A n \in 1 .. N : below[n] = below[n - 1] \ {Highest(below[n - 1])}
    <2> SUFFICES ASSUME NEW n \in 1 .. N
                 PROVE  below[n] = below[n - 1] \ {Highest(below[n - 1])}
      OBVIOUS
    <2>1. n \in 0 .. N /\ n # 0
      BY <1>1
    <2>2. below[n] = Rest(below, n)
      <3> HIDE DEF Rest
      <3>1. QED BY <1>3, <2>1
    <2>3. QED BY <2>1, <2>2
  <1>6. \A n \in 1 .. N : ranked[n] = Highest(below[n - 1])
    BY <1>2
  <1>7. DOMAIN ranked = 1 .. N
    BY <1>2
  <1> HIDE DEF ranked, Is
  <1> DEFINE first(n) == {ranked[k] : k \in 1 .. n}
             Ordered(n) == /\ below[n] = rows \ first(n)
                        /\ IsFiniteSet(below[n])
                        /\ Cardinality(below[n]) = N - n
  <1>8. ASSUME NEW n \in 1 .. N, Ordered(n - 1)
        PROVE  ranked[n] \in below[n - 1] /\ Ordered(n)
    <2> DEFINE S == below[n - 1]
    <2>1. S # {} /\ S \in SUBSET rows /\ IsFiniteSet(S)
      <3>1. Cardinality(S) # 0
        BY <1>1, <1>8
      <3>2. S # {}
        BY <3>1, FS_EmptySet
      <3>3. QED BY <1>8, <3>2
    <2>2. ranked[n] \in S
      <3> HIDE DEF S
      <3>1. Highest(S) \in S
        BY <2>1, OneIsHighest
      <3>2. QED BY <1>6, <3>1 DEF S
    <2>3. below[n] = S \ {ranked[n]}
      BY <1>5, <1>6
    <2>4. first(n) = first(n - 1) \cup {ranked[n]}
      <3>1. 1 .. n = (1 .. n - 1) \cup {n}
        BY <1>1
      <3>2. QED BY <3>1
    <2>5. below[n] = rows \ first(n)
      <3> HIDE DEF first
      <3>1. QED BY <1>8, <2>3, <2>4
    <2>6. IsFiniteSet(below[n]) /\ Cardinality(below[n]) = Cardinality(S) - 1
      <3> HIDE DEF S
      <3>1. /\ IsFiniteSet(S \ {ranked[n]})
            /\ Cardinality(S \ {ranked[n]}) = Cardinality(S) - 1
        BY ONLY <2>1, <2>2, FS_RemoveElement
      <3>2. QED BY ONLY <2>3, <3>1
    <2>7. Cardinality(below[n]) = N - n
      BY <1>1, <1>8, <2>6
    <2> HIDE DEF first
    <2>8. QED BY <2>2, <2>5, <2>6, <2>7
  <1>9. Ordered(0)
    <2>1. first(0) = {}
      OBVIOUS
    <2> HIDE DEF first
    <2>2. QED BY <1>1, <1>4, <2>1 DEF N
  <1>10. \A n \in 0 .. N : Ordered(n)
    <2> DEFINE S == {n \in 0 .. N : Ordered(n)}
    <2> HIDE DEF Ordered
    <2>1. 0 \in S
      BY <1>1, <1>9
    <2>2. ASSUME NEW n \in 1 .. N, n - 1 \in S PROVE n \in S
      <3>1. n \in 0 .. N
        BY <1>1
      <3>2. QED BY <1>8, <2>2, <3>1
    <2>3. \A n \in 0 .. N : n \in S
      <3> HIDE DEF S
      <3>1. QED BY <1>1, <2>1, <2>2, StepByStep
    <2>4. QED BY <2>3
  <1>11. \A n \in 1 .. N : ranked[n] \in below[n - 1] /\ n - 1 \in 0 .. N
    <2> SUFFICES ASSUME NEW n \in 1 .. N
                 PROVE  ranked[n] \in below[n - 1] /\ n - 1 \in 0 .. N
      OBVIOUS
    <2>1. n - 1 \in 0 .. N
      BY <1>1
    <2> HIDE DEF Ordered
    <2>2. QED BY <1>8, <1>10, <2>1
  <1>12. \A n \in 1 .. N : ranked[n] \in rows /\ ranked[n] \notin first(n - 1)
    <2> HIDE DEF first
    <2>1. QED BY <1>10, <1>11
  <1>13. ranked \in [1 .. N -> rows]
    BY <1>2, <1>7, <1>12 DEF ranked
  <1>14. ASSUME NEW j \in 1 .. N, NEW k \in 1 .. N, ranked[j] = ranked[k], j < k PROVE FALSE
    <2>1. j \in 1 .. k - 1
      BY <1>1, <1>14
    <2>2. ranked[j] \in first(k - 1)
      BY <2>1
    <2> HIDE DEF first
    <2>3. QED BY <1>12, <1>14, <2>2
  <1>15. ASSUME NEW j \in 1 .. N, NEW k \in 1 .. N, ranked[j] = ranked[k] PROVE j = k
    <2>1. ~(j < k) /\ ~(k < j)
      BY <1>14, <1>15
    <2>2. j \in Int /\ k \in Int
      OBVIOUS
    <2>3. QED BY <2>1, <2>2
  <1>16. \A r \in rows : \E k \in 1 .. N : ranked[k] = r
    <2>1. N \in 0 .. N
      BY <1>1
    <2>2. IsFiniteSet(below[N]) /\ Cardinality(below[N]) = 0 /\ below[N] = rows \ first(N)
      <3> HIDE DEF first
      <3>1. Ordered(N)
        <4> HIDE DEF Ordered
        <4>1. QED BY <1>10, <2>1
      <3>2. QED BY <1>1, <3>1
    <2>3. below[N] = {}
      BY <2>2, FS_EmptySet
    <2>4. QED BY <2>2, <2>3
  <1>17. ASSUME N > 0, NEW s \in rows PROVE ~Above(s, ranked[1])
    <2>1. 1 \in 1 .. N /\ 1 - 1 = 0
      BY <1>1, <1>17
    <2>2. ranked[1] = Highest(rows)
      BY <1>4, <1>6, <2>1
    <2>3. QED BY <2>2, OneIsHighest
  <1>18. QED BY <1>1, <1>13, <1>15, <1>16, <1>17 DEF N, ranked

(* Aliases come in an order.                                               *)
LEMMA AliasesInOrder ==
    ASSUME NEW o, OntologyType(o)
    PROVE  AliasOrder(o) \in Seq(Range(AliasOrder(o)))
  <1> DEFINE sets == {Range(e.aliases) : e \in Range(o.entities)}
             all == DOMAIN AliasMap(o)
  <1>1. ASSUME NEW R, NEW s \in Seq(R) PROVE IsFiniteSet(Range(s))
    <2>1. IsFiniteSet(1 .. Len(s)) /\ DOMAIN s = 1 .. Len(s)
      BY FS_Interval
    <2>2. s \in Surjection(DOMAIN s, Range(s))
      BY <2>1 DEF Range, Surjection
    <2>3. QED BY <2>1, <2>2, FS_Surjection
  <1>2. IsFiniteSet(Range(o.entities))
    BY <1>1 DEF OntologyType, IsSequence
  <1>3. \A e \in Range(o.entities) : IsFiniteSet(Range(e.aliases))
    BY <1>1 DEF OntologyType, IsSequence
  <1>4. IsFiniteSet(sets)
    <2> DEFINE g == [e \in Range(o.entities) |-> Range(e.aliases)]
    <2>1. g \in Surjection(Range(o.entities), sets)
      BY DEF Surjection
    <2> HIDE DEF g, sets
    <2>2. QED BY <1>2, <2>1, FS_Surjection
  <1>5. IsFiniteSet(UNION sets)
    <2>1. \A T \in sets : IsFiniteSet(T)
      BY <1>3
    <2> HIDE DEF sets
    <2>2. QED BY <1>4, <2>1, FS_UNION
  <1>6. all = UNION sets
    BY DEF AliasMap
  <1>7. Cardinality(all) \in Nat
    BY <1>5, <1>6, FS_CardinalityType
  <1>8. DOMAIN AliasOrder(o) = 1 .. Cardinality(all)
        /\ AliasOrder(o) = [n \in 1 .. Cardinality(all) |-> AliasOrder(o)[n]]
    <2>1. DOMAIN AliasOrder(o) = 1 .. Cardinality(all)
      BY DEF AliasOrder
    <2>2. AliasOrder(o) = [n \in DOMAIN AliasOrder(o) |-> AliasOrder(o)[n]]
      BY DEF AliasOrder
    <2>3. QED BY <2>1, <2>2
  <1> HIDE DEF all
  <1>9. QED BY <1>7, <1>8 DEF Range

FactFields == {"mention", "surface", "entity", "cluster"}
OfMention(f, m) == DOMAIN f = FactFields /\ f.mention = m.id

(* What is found in a mention is said of it.                               *)
LEMMA FactsOfMention ==
    ASSUME NEW m, m.text \in DOMAIN Words, NEW o, OntologyType(o)
    PROVE  /\ EntityFactsOf(m, o) \in Seq(Range(EntityFactsOf(m, o)))
           /\ \A f \in Range(EntityFactsOf(m, o)) : OfMention(f, m)
  <1> DEFINE words == Words[m.text]
             R == Range(words)
             some == Candidates(words)
             order == AliasOrder(o)
             facts1 == FromCandidates(m.id, words, o)
             facts2 == FromScan(m.id, words, o, facts1)
             F == Range(facts1) \cup Range(facts2)
  <1>1. \A surface, entity : OfMention(Resolved(m.id, surface, entity), m)
    BY DEF OfMention, Resolved, FactFields
  <1>2. facts1 \in Seq(Range(facts1)) /\ \A f \in Range(facts1) : OfMention(f, m)
    <2>1. PICK S \in SUBSET (DOMAIN words) : some = At(words, S)
      BY DEF Candidates
    <2>2. words \in Seq(R)
      BY RegistryAssumption DEF IsSequence
    <2> HIDE DEF words, some, R
    <2>3. some \in Seq(R)
      BY <2>1, <2>2, AtPlaces
    <2>4. /\ DOMAIN facts1 = DOMAIN some
          /\ \A n \in DOMAIN some : \E surface, e : facts1[n] = Resolved(m.id, surface, e)
          /\ facts1 = [n \in DOMAIN some |-> facts1[n]]
      BY DEF FromCandidates, some
    <2> HIDE DEF facts1
    <2>5. facts1 \in Seq(Range(facts1))
      BY <2>3, <2>4 DEF Range
    <2>6. QED BY <1>1, <2>4, <2>5 DEF Range
  <1>3. facts2 \in Seq(Range(facts2)) /\ \A f \in Range(facts2) : OfMention(f, m)
    <2> HIDE DEF facts1
    <2>1. \E S \in SUBSET (DOMAIN order) :
             /\ DOMAIN facts2 = DOMAIN At(order, S)
             /\ \A n \in DOMAIN facts2 : \E surface, e : facts2[n] = Resolved(m.id, surface, e)
             /\ facts2 = [n \in DOMAIN At(order, S) |-> facts2[n]]
      BY DEF FromScan
    <2>2. order \in Seq(Range(order))
      BY AliasesInOrder
    <2> HIDE DEF order, facts2
    <2>3. PICK S \in SUBSET (DOMAIN order) :
             /\ DOMAIN facts2 = DOMAIN At(order, S)
             /\ \A n \in DOMAIN facts2 : \E surface, e : facts2[n] = Resolved(m.id, surface, e)
             /\ facts2 = [n \in DOMAIN At(order, S) |-> facts2[n]]
      BY <2>1
    <2>4. At(order, S) \in Seq(Range(order))
      BY <2>2, AtPlaces
    <2>5. facts2 \in Seq(Range(facts2))
      BY <2>3, <2>4 DEF Range
    <2>6. QED BY <1>1, <2>3, <2>5 DEF Range
  <1>4. EntityFactsOf(m, o) = facts1 \o facts2
    BY DEF EntityFactsOf
  <1> HIDE DEF facts1, facts2
  <1>5. facts1 \in Seq(F) /\ facts2 \in Seq(F) /\ \A f \in F : OfMention(f, m)
    BY <1>2, <1>3
  <1> HIDE DEF F
  <1>6. facts1 \o facts2 \in Seq(F)
    BY <1>5
  <1>7. Range(facts1 \o facts2) \in SUBSET F /\ facts1 \o facts2 \in Seq(Range(facts1 \o facts2))
    <2> DEFINE s == facts1 \o facts2
    <2>1. s \in Seq(F)
      BY <1>6
    <2> HIDE DEF s
    <2>2. Range(s) \in SUBSET F /\ s \in Seq(Range(s))
      BY <2>1 DEF Range
    <2>3. QED BY <2>2 DEF s
  <1>8. QED BY <1>4, <1>5, <1>7

\* The facts about entities after each mention of a batch.
FoundIn(ms, o) == UNION {Range(EntityFactsOf(ms[n], o)) : n \in 1 .. Len(ms)}
InTurn(upTo, ms, o) ==
    /\ upTo[0] = <<>>
    /\ \A n \in 0 .. Len(ms) : upTo[n] \in Seq(FoundIn(ms, o))
    /\ \A n \in 1 .. Len(ms) : upTo[n] = upTo[n - 1] \o EntityFactsOf(ms[n], o)
    /\ EntityFacts(ms, o) = WithClusters(upTo[Len(ms)])

(* Facts about entities are gathered mention by mention.                   *)
(* [entity_enricher.py:enrich]                                             *)
LEMMA EntitiesGathered ==
    ASSUME NEW ms, ms \in Seq(Range(ms)), NEW o, OntologyType(o),
           \A m \in Range(ms) : m.text \in DOMAIN Words
    PROVE  \E upTo : InTurn(upTo, ms, o)
  <1> DEFINE N == Len(ms)
             of(n) == EntityFactsOf(ms[n], o)
             F == UNION {Range(of(n)) : n \in 1 .. N}
             V == Seq(F)
             Sofar(f, n) == IF n = 0 THEN <<>> ELSE f[n - 1] \o of(n)
             Is(f) == f = [n \in 0 .. N |-> Sofar(f, n)]
             upTo == CHOOSE f : Is(f)
             step == [n \in 1 .. N |-> [s \in V |-> s \o of(n)]]
  <1>1. N \in Nat /\ \A n \in 1 .. N : ms[n] \in Range(ms)
    BY DEF Range
  <1>2. \A n \in 1 .. N : /\ of(n) \in Seq(Range(of(n)))
                          /\ \A f \in Range(of(n)) : OfMention(f, ms[n])
    <2> HIDE DEF N
    <2>1. QED BY <1>1, FactsOfMention
  <1> HIDE DEF N, of
  <1>3. \A n \in 1 .. N : of(n) \in V
    BY <1>2
  <1>4. step \in [1 .. N -> [V -> V]] /\ <<>> \in V
    BY <1>3
  <1> HIDE DEF F
  <1>5. \E f : Loop(f, V, N, <<>>, step)
    <2> HIDE DEF step, V
    <2>1. QED BY <1>1, <1>4, LoopRuns
  <1>6. PICK g : Loop(g, V, N, <<>>, step)
    BY <1>5
  <1>7. Is(g)
    <2>1. ASSUME NEW n \in 0 .. N PROVE g[n] = Sofar(g, n)
      <3>1. CASE n = 0
        BY <1>6, <3>1 DEF Loop
      <3>2. CASE n # 0
        <4>1. n \in 1 .. N /\ n - 1 \in 0 .. N
          BY <1>1, <3>2
        <4>2. g[n - 1] \in V
          BY <1>6, <4>1 DEF Loop
        <4>3. step[n][g[n - 1]] = g[n - 1] \o of(n)
          BY <4>1, <4>2
        <4>4. QED BY <1>6, <3>2, <4>1, <4>3 DEF Loop
      <3>3. QED BY <3>1, <3>2
    <2> HIDE DEF Sofar
    <2>2. g = [n \in 0 .. N |-> g[n]]
      BY <1>6 DEF Loop
    <2>3. QED BY <2>1, <2>2
  <1>8. Is(upTo)
    <2> HIDE DEF Is
    <2>1. QED BY <1>7
  <1>9. EntityFacts(ms, o) = WithClusters(upTo[N])
    BY DEF EntityFacts, upTo, of, N
  <1> HIDE DEF upTo
  <1> DEFINE S == {n \in 0 .. N : upTo[n] \in V}
  <1>10. 0 \in S
    <2>1. upTo[0] = <<>>
      BY <1>1, <1>8
    <2> HIDE DEF V
    <2>2. upTo[0] \in V /\ 0 \in 0 .. N
      BY <1>1, <1>4, <2>1
    <2>3. QED BY <2>2
  <1>11. ASSUME NEW n \in 1 .. N, n - 1 \in S PROVE n \in S
    <2>1. n \in 0 .. N /\ n # 0
      BY <1>1
    <2>2. upTo[n] = Sofar(upTo, n)
      <3> HIDE DEF Sofar
      <3>1. QED BY <1>8, <2>1
    <2>3. upTo[n] = upTo[n - 1] \o of(n)
      BY <2>1, <2>2
    <2>4. upTo[n - 1] \o of(n) \in V
      BY <1>3, <1>11
    <2>5. QED BY <2>1, <2>3, <2>4
  <1>12. \A n \in 0 .. N : upTo[n] \in V
    <2>1. \A n \in 0 .. N : n \in S
      <3> HIDE DEF S
      <3>1. QED BY <1>1, <1>10, <1>11, StepByStep
    <2>2. QED BY <2>1
  <1>13. \A n \in 1 .. N : upTo[n] = upTo[n - 1] \o of(n)
    <2> SUFFICES ASSUME NEW n \in 1 .. N PROVE upTo[n] = upTo[n - 1] \o of(n)
      OBVIOUS
    <2>1. n \in 0 .. N /\ n # 0
      BY <1>1
    <2>2. upTo[n] = Sofar(upTo, n)
      <3> HIDE DEF Sofar
      <3>1. QED BY <1>8, <2>1
    <2>3. QED BY <2>1, <2>2
  <1>14. upTo[0] = <<>> /\ V = Seq(FoundIn(ms, o))
    <2>1. 0 \in 0 .. N
      BY <1>1
    <2>2. upTo[0] = Sofar(upTo, 0)
      <3> HIDE DEF Sofar
      <3>1. QED BY <1>8, <2>1
    <2>3. V = Seq(FoundIn(ms, o))
      BY DEF FoundIn, N, of, F
    <2>4. QED BY <2>2, <2>3
  <1> HIDE DEF V
  <1>15. QED BY <1>9, <1>12, <1>13, <1>14 DEF InTurn, N, of

(* Every entity that is found is found in a mention of the batch.          *)
LEMMA EntitiesOfMentions ==
    ASSUME NEW ms, ms \in Seq(Range(ms)), NEW o, OntologyType(o),
           \A m \in Range(ms) : m.text \in DOMAIN Words
    PROVE  /\ EntityFacts(ms, o) \in Seq(Range(EntityFacts(ms, o)))
           /\ \A f \in Range(EntityFacts(ms, o)) :
                 DOMAIN f = FactFields /\ f.mention \in Ids(ms)
  <1>1. PICK upTo : InTurn(upTo, ms, o)
    BY EntitiesGathered
  <1> DEFINE es == upTo[Len(ms)]
             F == FoundIn(ms, o)
             made == WithClusters(es)
  <1>2. es \in Seq(F) /\ EntityFacts(ms, o) = made
    <2>1. Len(ms) \in 0 .. Len(ms)
      OBVIOUS
    <2>2. QED BY <1>1, <2>1 DEF InTurn
  <1>3. \A f \in F : DOMAIN f = FactFields /\ f.mention \in Ids(ms)
    <2>1. \A n \in 1 .. Len(ms) : ms[n] \in Range(ms)
      BY DEF Range
    <2>2. \A m \in Range(ms) : \A f \in Range(EntityFactsOf(m, o)) : OfMention(f, m)
      BY FactsOfMention
    <2>3. QED BY <2>1, <2>2 DEF FoundIn, OfMention, Ids
  <1> HIDE DEF es, F
  <1>4. \A i \in DOMAIN es : es[i] \in F
    BY <1>2
  <1>5. /\ DOMAIN made = DOMAIN es
        /\ made = [i \in DOMAIN es |-> made[i]]
        /\ \A i \in DOMAIN es : \/ made[i] = es[i]
                                \/ \E c : made[i] = [es[i] EXCEPT !.cluster = c]
    BY DEF WithClusters
  <1> HIDE DEF made
  <1>6. \A i \in DOMAIN es : DOMAIN made[i] = FactFields /\ made[i].mention \in Ids(ms)
    BY <1>3, <1>4, <1>5 DEF FactFields
  <1>7. made \in Seq(Range(made))
    BY <1>2, <1>5 DEF Range
  <1>8. \A f \in Range(made) : DOMAIN f = FactFields /\ f.mention \in Ids(ms)
    BY <1>5, <1>6 DEF Range
  <1>9. QED BY <1>2, <1>7, <1>8

(* The image of a finite set has no more members.                          *)
LEMMA FiniteImage ==
    ASSUME NEW S, IsFiniteSet(S), NEW g, DOMAIN g = S, NEW T, T = {g[x] : x \in S}
    PROVE  /\ IsFiniteSet(T) /\ Cardinality(T) \in Nat /\ Cardinality(S) \in Nat
           /\ Cardinality(T) <= Cardinality(S)
           /\ (\A x, y \in S : g[x] = g[y] => x = y) => Cardinality(T) = Cardinality(S)
  <1> DEFINE h == [x \in S |-> g[x]]
  <1>1. h \in Surjection(S, T)
    BY DEF Surjection
  <1>2. (\A x, y \in S : g[x] = g[y] => x = y) => h \in Injection(S, T)
    BY DEF Injection, IsInjective
  <1> HIDE DEF h
  <1>3. IsFiniteSet(T) /\ Cardinality(T) <= Cardinality(S)
    BY <1>1, FS_Surjection
  <1>4. h \in Injection(S, T) => Cardinality(T) = Cardinality(S)
    BY <1>1, FS_Surjection
  <1>5. Cardinality(T) \in Nat /\ Cardinality(S) \in Nat
    BY <1>3, FS_CardinalityType
  <1>6. QED BY <1>2, <1>3, <1>4, <1>5

\* s holds the volume of a digest after each of its first N rows.
SumsTo(s, N, sov, volume) ==
    /\ s[0] = sov.unresolved
    /\ s[N] = volume
    /\ \A n \in 0 .. N : s[n] \in Int
    /\ \A n \in 1 .. N : s[n] = s[n - 1] + sov.rows[n].mentions

(* The volume of a digest is a running sum over its rows.                  *)
(* [build_layer1_payload]                                                  *)
LEMMA DigestSum ==
    ASSUME NEW sov, NEW buzz, NEW issues, NEW N \in Nat, N = Len(sov.rows),
           sov.unresolved \in Int, \A n \in 1 .. N : sov.rows[n].mentions \in Int
    PROVE  \E s : SumsTo(s, N, sov, Digest(sov, buzz, issues).volume)
  <1> DEFINE gain(n) == sov.rows[n].mentions
             base == sov.unresolved
             Sofar(f, n) == IF n = 0 THEN base ELSE f[n - 1] + gain(n)
             Is(f) == f = [n \in 0 .. N |-> Sofar(f, n)]
             sum == CHOOSE f : Is(f)
             step == [n \in 1 .. N |-> [v \in Int |-> v + gain(n)]]
  <1>1. /\ base \in Int
        /\ \A n \in 1 .. N : gain(n) \in Int
    OBVIOUS
  <1>2. Digest(sov, buzz, issues).volume = sum[N]
    BY DEF Digest
  <1> HIDE DEF gain, base
  <1>3. step \in [1 .. N -> [Int -> Int]]
    BY <1>1
  <1>4. PICK g : Loop(g, Int, N, base, step)
    <2> HIDE DEF step
    <2>1. QED BY <1>1, <1>3, LoopRuns
  <1>5. /\ g[0] = base /\ g = [n \in 0 .. N |-> g[n]]
        /\ \A n \in 0 .. N : g[n] \in Int
        /\ \A n \in 1 .. N : g[n] = step[n][g[n - 1]]
    BY <1>4 DEF Loop
  <1>6. \A n \in 1 .. N : g[n] = g[n - 1] + gain(n)
    <2> SUFFICES ASSUME NEW n \in 1 .. N PROVE g[n] = g[n - 1] + gain(n)
      OBVIOUS
    <2>1. n - 1 \in 0 .. N
      OBVIOUS
    <2>2. g[n - 1] \in Int
      BY <1>5, <2>1
    <2>3. step[n][g[n - 1]] = g[n - 1] + gain(n)
      BY <2>2
    <2>4. QED BY <1>5, <2>3
  <1>7. Is(g)
    <2>1. ASSUME NEW n \in 0 .. N PROVE g[n] = Sofar(g, n)
      <3>1. CASE n = 0
        BY <1>5, <3>1
      <3>2. CASE n # 0
        BY <1>6, <3>2
      <3>3. QED BY <3>1, <3>2
    <2> HIDE DEF Sofar
    <2>2. QED BY <1>5, <2>1
  <1>8. Is(sum)
    <2> HIDE DEF Is
    <2>1. QED BY <1>7
  <1> HIDE DEF sum
  <1> DEFINE S == {n \in 0 .. N : sum[n] \in Int}
  <1>9. \A n \in 0 .. N : sum[n] = Sofar(sum, n)
    <2> HIDE DEF Sofar
    <2>1. QED BY <1>8
  <1>10. sum[0] = base /\ \A n \in 1 .. N : sum[n] = sum[n - 1] + gain(n)
    BY <1>9
  <1>11. 0 \in S
    BY <1>1, <1>10
  <1>12. ASSUME NEW n \in 1 .. N, n - 1 \in S PROVE n \in S
    BY <1>1, <1>10, <1>12
  <1>13. \A n \in 0 .. N : n \in S
    <2> HIDE DEF S
    <2>1. QED BY <1>11, <1>12, StepByStep
  <1>14. SumsTo(sum, N, sov, Digest(sov, buzz, issues).volume)
    BY <1>2, <1>10, <1>13 DEF SumsTo, gain, base
  <1>15. QED BY <1>14

\* A volume of so many mentions, some of which name more than one entity.
VolumeFits(volume, size, named) ==
    LET further == Cardinality({<<f.mention, f.entity>> : f \in Range(named)})
                     - Cardinality({f.mention : f \in Range(named)})
    IN  /\ volume <= size + further
        /\ Cardinality({f.entity : f \in Range(named)}) <= TopRows => volume = size + further

(* The volume of a digest: each row adds the mentions of its entity, and   *)
(* mentions that name none are added once.  [build_layer1_payload]         *)
LEMMA VolumeOfDigest ==
    ASSUME NEW ms, ms \in Seq(Range(ms)), NEW named, named \in Seq(Range(named)),
           \A f \in Range(named) : f.mention \in Ids(ms), NEW halves,
           NEW sov, sov.unresolved = UnresolvedCount(ms, named),
           sov.rows = Leading({SovRow(e, named, Len(ms), halves) :
                                  e \in {f.entity : f \in Range(named)}}, TopRows),
           NEW buzz, NEW issues
    PROVE  VolumeFits(Digest(sov, buzz, issues).volume, Len(ms), named)
  <1> DEFINE facts0 == Range(named)
             E == {f.entity : f \in facts0}
             M == {f.mention : f \in facts0}
             Pairs == {<<f.mention, f.entity>> : f \in facts0}
             ids(e) == EntityMentions(e, named)
             row(e) == SovRow(e, named, Len(ms), halves)
             table == {row(e) : e \in E}
             N == Cardinality(table)
             ranked == Ranked(table)
             K == Min({TopRows, N})
             rows == sov.rows
  <1>1. Len(ms) \in Nat /\ Len(named) \in Nat /\ DOMAIN named = 1 .. Len(named)
    OBVIOUS
  <1>2. IsFiniteSet(facts0)
    <2>1. IsFiniteSet(DOMAIN named) /\ facts0 = {named[i] : i \in DOMAIN named}
      BY <1>1, FS_Interval DEF Range
    <2> HIDE DEF facts0
    <2>2. QED BY <2>1, FiniteImage
  <1> HIDE DEF facts0
  <1>3. IsFiniteSet(E) /\ IsFiniteSet(M) /\ IsFiniteSet(Pairs)
    <2> DEFINE entity == [f \in facts0 |-> f.entity]
               mention == [f \in facts0 |-> f.mention]
               pair == [f \in facts0 |-> <<f.mention, f.entity>>]
    <2>1. /\ DOMAIN entity = facts0 /\ E = {entity[f] : f \in facts0}
          /\ DOMAIN mention = facts0 /\ M = {mention[f] : f \in facts0}
          /\ DOMAIN pair = facts0 /\ Pairs = {pair[f] : f \in facts0}
      OBVIOUS
    <2> HIDE DEF entity, mention, pair, E, M, Pairs
    <2>2. IsFiniteSet(E)
      BY <1>2, <2>1, FiniteImage
    <2>3. IsFiniteSet(M)
      BY <1>2, <2>1, FiniteImage
    <2>4. IsFiniteSet(Pairs)
      BY <1>2, <2>1, FiniteImage
    <2>5. QED BY <2>2, <2>3, <2>4
  <1>4. Cardinality(M) \in Nat /\ Cardinality(M) <= Len(ms)
    <2> DEFINE id == [i \in DOMAIN ms |-> ms[i].id]
    <2>0. DOMAIN ms = 1 .. Len(ms) /\ 1 \in Int
      OBVIOUS
    <2>1. IsFiniteSet(DOMAIN ms) /\ Cardinality(DOMAIN ms) = Len(ms)
      <3> DEFINE L == Len(ms)
      <3>1. L \in Nat
        BY <1>1
      <3> HIDE DEF L
      <3>2. IsFiniteSet(1 .. L) /\ Cardinality(1 .. L) = L
        BY <2>0, <3>1, FS_Interval
      <3>3. QED BY <2>0, <3>2 DEF L
    <2>2. DOMAIN id = DOMAIN ms /\ Ids(ms) = {id[i] : i \in DOMAIN ms}
      BY DEF Ids, Range
    <2>3. M \in SUBSET Ids(ms)
      BY DEF facts0
    <2> HIDE DEF id, M
    <2>4. IsFiniteSet(Ids(ms)) /\ Cardinality(Ids(ms)) <= Len(ms) /\ Cardinality(Ids(ms)) \in Nat
      BY <2>1, <2>2, FiniteImage
    <2>5. Cardinality(M) <= Cardinality(Ids(ms)) /\ IsFiniteSet(M)
      BY <2>3, <2>4, FS_Subset
    <2>6. QED BY <1>1, <2>4, <2>5, FS_CardinalityType
  <1>5. sov.unresolved = Len(ms) - Cardinality(M)
    <2> DEFINE d == Len(ms) - Cardinality(M)
    <2>1. d \in Nat
      BY <1>1, <1>4
    <2>2. MentionsOf(facts0) = M
      BY DEF MentionsOf
    <2>3. sov.unresolved = Max({0, d})
      BY <2>2 DEF UnresolvedCount, facts0
    <2> HIDE DEF d
    <2>4. \A x \in {0, d} : (\A y \in {0, d} : y <= x) => x = d
      BY <2>1
    <2>5. Max({0, d}) = d
      BY <2>1, <2>4 DEF Max
    <2>6. QED BY <2>3, <2>5 DEF d
  <1>6. ASSUME NEW e \in E
        PROVE  /\ ids(e) = {p[1] : p \in {q \in Pairs : q[2] = e}}
               /\ Cardinality(ids(e)) = Cardinality({q \in Pairs : q[2] = e})
               /\ Cardinality(ids(e)) \in Nat
    <2> DEFINE Q == {q \in Pairs : q[2] = e}
               left == [p \in Q |-> p[1]]
    <2>1. ids(e) = {f.mention : f \in {g \in facts0 : g.entity = e}}
      BY DEF EntityMentions, MentionsOf, facts0
    <2>2. ids(e) = {p[1] : p \in Q}
      <3>1. \A x : x \in ids(e) <=> \E f \in facts0 : f.entity = e /\ f.mention = x
        <4> HIDE DEF ids
        <4>1. QED BY <2>1
      <3>2. ASSUME NEW f \in facts0, f.entity = e
            PROVE  f.mention \in {p[1] : p \in Q}
        <4> DEFINE p == <<f.mention, f.entity>>
        <4>1. p \in Q /\ p[1] = f.mention
          BY <3>2
        <4> HIDE DEF p, Q
        <4>2. QED BY <4>1
      <3>3. ASSUME NEW p \in Q
            PROVE  \E f \in facts0 : f.entity = e /\ f.mention = p[1]
        <4>1. PICK f \in facts0 : p = <<f.mention, f.entity>>
          OBVIOUS
        <4>2. p[2] = e
          OBVIOUS
        <4>3. QED BY <4>1, <4>2
      <3> HIDE DEF ids, Q
      <3>4. QED BY <3>1, <3>2, <3>3
    <2>3. Q \in SUBSET Pairs
      OBVIOUS
    <2>4. \A p, q \in Q : left[p] = left[q] => p = q
      OBVIOUS
    <2>5. DOMAIN left = Q /\ {p[1] : p \in Q} = {left[p] : p \in Q}
      OBVIOUS
    <2>6. IsFiniteSet(Q)
      <3> HIDE DEF Q, Pairs
      <3>1. QED BY <1>3, <2>3, FS_Subset
    <2> HIDE DEF Q, left, ids
    <2> DEFINE T == ids(e)
    <2>7. T = {left[p] : p \in Q} /\ DOMAIN left = Q
      BY <2>2, <2>5
    <2> HIDE DEF T
    <2>8. Cardinality(T) = Cardinality(Q) /\ Cardinality(T) \in Nat
      BY ONLY <2>4, <2>6, <2>7, FiniteImage
    <2>9. QED BY <2>2, <2>8 DEF Q, T
  <1>7. \A e \in E : /\ row(e).entity = e /\ row(e).mentions = Cardinality(ids(e))
                     /\ row(e).by[1] \in Int /\ row(e).by[2] \in Int
    <2> SUFFICES ASSUME NEW e \in E
                 PROVE  /\ row(e).entity = e /\ row(e).mentions = Cardinality(ids(e))
                        /\ row(e).by[1] \in Int /\ row(e).by[2] \in Int
      OBVIOUS
    <2> DEFINE H == {i \in DOMAIN named : named[i].entity = e /\ named[i].mention \in ids(e)}
    <2>1. Cardinality(H) \in Nat
      <3>1. IsFiniteSet(DOMAIN named) /\ H \in SUBSET (DOMAIN named)
        BY <1>1, FS_Interval
      <3> HIDE DEF H
      <3>2. QED BY <3>1, FS_Subset, FS_CardinalityType
    <2>2. /\ row(e).entity = e /\ row(e).mentions = Cardinality(ids(e))
          /\ row(e).by = <<Cardinality(ids(e)), Cardinality(H)>>
      BY DEF SovRow
    <2> DEFINE a == Cardinality(ids(e))
               b == Cardinality(H)
    <2>3. a \in Nat /\ b \in Nat /\ row(e).by = <<a, b>>
      BY <1>6, <2>1, <2>2
    <2> HIDE DEF a, b, H, ids, row
    <2>4. row(e).by[1] = a /\ row(e).by[2] = b
      BY <2>3
    <2>5. QED BY <2>2, <2>3, <2>4
  <1> HIDE DEF ids, row
  <1>8. /\ IsFiniteSet(table) /\ N \in Nat /\ N = Cardinality(E)
        /\ \A r \in table : /\ r.entity \in E /\ r = row(r.entity)
                            /\ r.mentions = Cardinality(ids(r.entity))
                            /\ r.by[1] \in Int /\ r.by[2] \in Int
    <2> DEFINE rowOf == [e \in E |-> row(e)]
    <2>1. DOMAIN rowOf = E /\ table = {rowOf[e] : e \in E}
      OBVIOUS
    <2>2. \A x, y \in E : rowOf[x] = rowOf[y] => x = y
      BY <1>7
    <2>3. \A r \in table : /\ r.entity \in E /\ r = row(r.entity)
                           /\ r.mentions = Cardinality(ids(r.entity))
                           /\ r.by[1] \in Int /\ r.by[2] \in Int
      BY <1>7
    <2> HIDE DEF rowOf, table, E
    <2>4. IsFiniteSet(table) /\ Cardinality(table) = Cardinality(E) /\ Cardinality(table) \in Nat
      BY <1>3, <2>1, <2>2, FiniteImage
    <2>5. QED BY <2>3, <2>4
  <1> HIDE DEF table
  <1>9. /\ ranked \in [1 .. N -> table]
        /\ \A j, k \in 1 .. N : ranked[j] = ranked[k] => j = k
        /\ \A r \in table : \E k \in 1 .. N : ranked[k] = r
    BY <1>8, RankedRows
  <1>10. K \in Nat /\ K <= N /\ K <= TopRows /\ (N <= TopRows => K = N)
    <2>1. TopRows \in Nat
      BY ReportsAssumption
    <2> DEFINE T == {TopRows, N}
    <2>2. \E m \in T : \A x \in T : m <= x
      BY <1>8, <2>1
    <2>3. K = CHOOSE m \in T : \A x \in T : m <= x
      BY DEF Min
    <2>4. K \in T /\ \A x \in T : K <= x
      <3> HIDE DEF T, K
      <3>1. QED BY <2>2, <2>3
    <2> HIDE DEF K
    <2>5. QED BY <1>8, <2>1, <2>4
  <1> HIDE DEF N, ranked
  <1>11. Len(rows) = K /\ \A k \in 1 .. K : rows[k] = ranked[k] /\ k \in 1 .. N
    <2>1. Len(ranked) = N /\ ranked \in Seq(table)
      BY <1>8, <1>9
    <2>2. rows = SubSeq(ranked, 1, K)
      BY <2>1 DEF Leading, ranked, table, row, E, facts0
    <2> HIDE DEF K, rows
    <2>3. Len(rows) = K /\ \A k \in 1 .. K : rows[k] = ranked[k]
      BY ONLY <1>8, <1>10, <2>1, <2>2
    <2>4. K \in Nat /\ N \in Nat /\ K <= N
      BY <1>8, <1>10
    <2>5. \A k \in 1 .. K : k \in 1 .. N
      BY ONLY <2>4
    <2>6. QED BY <2>3, <2>5
  <1> HIDE DEF K, rows
  <1>12. \A k \in 1 .. K : /\ rows[k].entity \in E /\ rows[k] = row(rows[k].entity)
                           /\ rows[k].mentions = Cardinality(ids(rows[k].entity))
                           /\ rows[k].mentions \in Nat
    <2> SUFFICES ASSUME NEW k \in 1 .. K
                 PROVE  /\ rows[k].entity \in E /\ rows[k] = row(rows[k].entity)
                        /\ rows[k].mentions = Cardinality(ids(rows[k].entity))
                        /\ rows[k].mentions \in Nat
      OBVIOUS
    <2>1. rows[k] = ranked[k] /\ k \in 1 .. N
      BY <1>11
    <2>2. rows[k] \in table
      BY <1>9, <2>1
    <2>3. /\ rows[k].entity \in E /\ rows[k] = row(rows[k].entity)
          /\ rows[k].mentions = Cardinality(ids(rows[k].entity))
      BY <1>8, <2>2
    <2> HIDE DEF E
    <2>4. QED BY <1>6, <2>3
  <1>13. sov.unresolved \in Int
    BY <1>1, <1>4, <1>5
  <1>14. \A k \in 1 .. K : sov.rows[k].mentions \in Int
    BY <1>12 DEF rows
  <1> DEFINE volume == Digest(sov, buzz, issues).volume
  <1>15. PICK s : SumsTo(s, K, sov, volume)
    <2>1. K = Len(sov.rows) /\ K \in Nat
      BY <1>10, <1>11 DEF rows
    <2>2. QED BY ONLY <2>1, <1>13, <1>14, DigestSum
  <1> HIDE DEF volume
  <1> DEFINE P(k) == {p \in Pairs : \E j \in 1 .. k : p[2] = rows[j].entity}
             New(k) == {p \in Pairs : p[2] = rows[k].entity}
             Sums == {k \in 0 .. K : s[k] = sov.unresolved + Cardinality(P(k))}
  <1> HIDE DEF Pairs, E
  <1>16. \A k : /\ IsFiniteSet(P(k)) /\ Cardinality(P(k)) \in Nat
                /\ Cardinality(P(k)) <= Cardinality(Pairs)
    <2> SUFFICES ASSUME NEW k
                 PROVE  IsFiniteSet(P(k)) /\ Cardinality(P(k)) \in Nat
                          /\ Cardinality(P(k)) <= Cardinality(Pairs)
      OBVIOUS
    <2>1. P(k) \in SUBSET Pairs
      OBVIOUS
    <2> HIDE DEF P
    <2>2. QED BY <1>3, <2>1, FS_Subset, FS_CardinalityType
  <1>17. 0 \in Sums
    <2>1. P(0) = {}
      OBVIOUS
    <2> HIDE DEF P
    <2>2. Cardinality(P(0)) = 0
      BY <2>1, FS_EmptySet
    <2>3. QED BY <1>10, <1>13, <1>15, <2>2 DEF SumsTo
  <1>18. ASSUME NEW k \in 1 .. K, k - 1 \in Sums PROVE k \in Sums
    <2>1. k \in 0 .. K /\ k - 1 \in 0 .. K /\ k \in Int
      BY <1>10
    <2>2. P(k) = P(k - 1) \cup New(k)
      <3>1. \A j : j \in 1 .. k <=> j \in 1 .. k - 1 \/ j = k
        BY <2>1, <1>10
      <3>2. QED BY <3>1
    <2>3. P(k - 1) \cap New(k) = {}
      <3> SUFFICES ASSUME NEW j \in 1 .. k - 1, rows[j].entity = rows[k].entity PROVE FALSE
        OBVIOUS
      <3>1. j \in 1 .. K /\ j # k
        BY <1>10
      <3>2. rows[j] = rows[k]
        BY <1>12, <3>1
      <3>3. QED BY <1>9, <1>11, <3>1, <3>2
    <2>4. New(k) \in SUBSET Pairs
      OBVIOUS
    <2>5. Cardinality(New(k)) = rows[k].mentions /\ rows[k].mentions \in Int
      BY <1>6, <1>12
    <2> HIDE DEF P, New
    <2>6. IsFiniteSet(New(k))
      BY <1>3, <2>4, FS_Subset
    <2>7. Cardinality(P(k)) = Cardinality(P(k - 1)) + Cardinality(New(k))
      <3> DEFINE before == P(k - 1)
                 new == New(k)
      <3>1. IsFiniteSet(before) /\ IsFiniteSet(new) /\ before \cap new = {}
        BY <1>16, <2>3, <2>6
      <3>2. Cardinality({}) = 0
        BY FS_EmptySet
      <3>3. Cardinality(before) \in Nat /\ Cardinality(new) \in Nat
        BY <1>16, <2>5, <2>6, FS_CardinalityType
      <3> HIDE DEF before, new
      <3>4. Cardinality(before \cup new)
              = Cardinality(before) + Cardinality(new) - Cardinality(before \cap new)
        BY <3>1, FS_Union
      <3> DEFINE a == Cardinality(before)
                 b == Cardinality(new)
                 c == Cardinality(before \cap new)
      <3>5. a \in Nat /\ b \in Nat /\ c = 0 /\ Cardinality(before \cup new) = a + b - c
        BY <3>1, <3>2, <3>3, <3>4
      <3> HIDE DEF a, b, c
      <3>6. Cardinality(before \cup new) = a + b
        BY <3>5
      <3>7. Cardinality(before \cup new) = Cardinality(before) + Cardinality(new)
        BY <3>6 DEF a, b
      <3>8. QED BY <2>2, <3>7 DEF before, new
    <2>8. s[k] = s[k - 1] + rows[k].mentions /\ s[k - 1] = sov.unresolved + Cardinality(P(k - 1))
      BY <1>15, <1>18 DEF rows, SumsTo
    <2>9. s[k] = sov.unresolved + Cardinality(P(k))
      <3> DEFINE a == Cardinality(P(k - 1))
                 b == rows[k].mentions
                 c == Cardinality(P(k))
      <3>1. a \in Int /\ b \in Int /\ c = a + b
        BY <1>16, <2>5, <2>7
      <3>2. s[k] = s[k - 1] + b /\ s[k - 1] = sov.unresolved + a
        BY <2>8
      <3> HIDE DEF a, b, c
      <3>3. s[k] = sov.unresolved + c
        BY <1>13, <3>1, <3>2
      <3>4. QED BY <3>3 DEF c
    <2>10. QED BY <2>1, <2>9
  <1>19. s[K] = sov.unresolved + Cardinality(P(K))
    <2>1. K \in 0 .. K
      BY <1>10
    <2>2. \A k \in 0 .. K : k \in Sums
      <3> HIDE DEF Sums
      <3>1. QED BY <1>10, <1>17, <1>18, StepByStep
    <2>3. QED BY <2>1, <2>2
  <1>20. ASSUME N <= TopRows PROVE P(K) = Pairs
    <2>1. K = N
      BY <1>10, <1>20
    <2>2. ASSUME NEW p \in Pairs PROVE \E j \in 1 .. K : p[2] = rows[j].entity
      <3>1. p[2] \in E
        BY DEF Pairs, E
      <3>2. row(p[2]) \in table
        BY <3>1 DEF table
      <3>3. PICK j \in 1 .. N : ranked[j] = row(p[2])
        BY <1>9, <3>2
      <3>4. rows[j] = row(p[2]) /\ row(p[2]).entity = p[2]
        BY <1>7, <1>11, <2>1, <3>1, <3>3
      <3>5. QED BY <2>1, <3>4
    <2>3. QED BY <2>2
  <1> HIDE DEF P, Sums, N
  <1> DEFINE pairs == Cardinality(Pairs)
             mentions == Cardinality(M)
             kept == Cardinality(P(K))
  <1>21. /\ pairs \in Nat /\ mentions \in Nat /\ kept \in Nat /\ kept <= pairs
         /\ volume = Len(ms) - mentions + kept
         /\ Cardinality(E) <= TopRows => kept = pairs
    <2>1. pairs \in Nat /\ kept \in Nat /\ kept <= pairs
      BY <1>3, <1>16, FS_CardinalityType
    <2>2. volume = Len(ms) - mentions + kept
      BY <1>5, <1>15, <1>19 DEF SumsTo
    <2>3. Cardinality(E) <= TopRows => kept = pairs
      BY <1>8, <1>20
    <2>4. QED BY <1>4, <2>1, <2>2, <2>3
  <1> HIDE DEF pairs, mentions, kept
  <1>22. /\ volume <= Len(ms) + (pairs - mentions)
         /\ Cardinality(E) <= TopRows => volume = Len(ms) + (pairs - mentions)
    BY <1>1, <1>21
  <1>23. QED
    BY <1>22 DEF VolumeFits, volume, pairs, mentions, Pairs, E, M, facts0

-----------------------------------------------------------------------------
\* What a run's enrichment and report were made of.

EnrichmentRead == IF facts.enrichment = <<>> THEN NoEnrichment ELSE facts.enrichment[1]

\* A run's enrichment is that of its mentions, and its report that of its
\* mentions, threads and enrichment: nothing changes after it was read.
ReportOfFacts ==
    /\ DOMAIN facts = FactsKinds
    /\ stage \in 1 .. 10
    /\ \/ facts.enrichment = <<>>
       \/ stage > 6 /\ facts.enrichment = <<EnrichMentions(facts.mentions, run.ontology)>>
    /\ \/ facts.report = <<>>
       \/ stage > 8 /\ facts.report = <<Report(facts.mentions, facts.threads, EnrichmentRead)>>

(* The stages that make what enrichment and reports read come before them. *)
(* [run_pipeline.py]                                                       *)
LEMMA ReportStays == Spec => []ReportOfFacts
  <1>1. Init => ReportOfFacts
    <2> SUFFICES ASSUME Init PROVE ReportOfFacts
      OBVIOUS
    <2>1. stage \in 1 .. 10
      BY StagesAdvance DEF Init
    <2>2. QED BY <2>1 DEF Init, NoFacts, FactsKinds, ReportOfFacts
  <1>2. ReportOfFacts /\ [Next]_vars => ReportOfFacts'
    <2> SUFFICES ASSUME ReportOfFacts, [Next]_vars PROVE ReportOfFacts'
      OBVIOUS
    <2> USE DEF FactsKinds
    <2> DEFINE made == EnrichMentions(facts.mentions, run.ontology)
    <2>1. ASSUME NEW name, Runs(name)
          PROVE  /\ stage \in 1 .. 9 /\ stage + 1 \in 1 .. 10
                 /\ Order[stage] = name
                 /\ NextStage(run.enabled, stage + 1) \in stage + 1 .. 10
      <3>1. Len(Order) = 9
        BY DEF Order
      <3>2. stage \in 1 .. 9 /\ stage + 1 \in 1 .. 10 /\ Order[stage] = name
        BY <2>1, <3>1 DEF Runs, Running, ReportOfFacts
      <3>3. QED BY <3>2, StagesAdvance
    <2>2. /\ \A n \in 1 .. 9 : Order[n] = "normalization" => n = 1
          /\ \A n \in 1 .. 9 : Order[n] = "dedup" => n = 2
          /\ \A n \in 1 .. 9 : Order[n] = "threads" => n = 4
          /\ \A n \in 1 .. 9 : Order[n] = "enrichment" => n = 6
          /\ \A n \in 1 .. 9 : Order[n] = "reporting" => n = 8
      BY DEF Order
    <2>3. ASSUME \E name : Runs(name), stage <= 5, NEW new, Finish(new),
                 DOMAIN new = FactsKinds,
                 new.enrichment = facts.enrichment, new.report = facts.report
          PROVE  ReportOfFacts'
      <3>1. stage' \in 1 .. 10 /\ facts' = new
        BY <2>1, <2>3 DEF Finish
      <3>2. facts.enrichment = <<>> /\ facts.report = <<>>
        BY <2>3 DEF ReportOfFacts
      <3>3. QED BY <2>3, <3>1, <3>2 DEF ReportOfFacts
    <2>4. ASSUME \E name : Runs(name), NEW new, Finish(new), DOMAIN new = FactsKinds,
                 new.mentions = facts.mentions, new.threads = facts.threads,
                 new.enrichment = facts.enrichment, new.report = facts.report
          PROVE  ReportOfFacts'
      <3>1. stage' \in 1 .. 10 /\ stage' > stage
        BY <2>1, <2>4 DEF Finish
      <3>2. run' = run /\ facts' = new
        BY <2>4 DEF Finish
      <3>3. (stage > 6 => stage' > 6) /\ (stage > 8 => stage' > 8)
        BY <3>1 DEF ReportOfFacts
      <3>4. EnrichmentRead' = EnrichmentRead
        BY <2>4, <3>2 DEF EnrichmentRead
      <3>5. QED BY <2>4, <3>1, <3>2, <3>3, <3>4 DEF ReportOfFacts
    <2>5. CASE NormalizationStage
      <3>1. stage <= 5 /\ \E name : Runs(name)
        BY <2>1, <2>2, <2>5 DEF NormalizationStage
      <3>2. QED BY <2>3, <2>5, <3>1 DEF NormalizationStage, ReportOfFacts
    <2>6. CASE DedupStage
      <3>1. stage <= 5 /\ \E name : Runs(name)
        BY <2>1, <2>2, <2>6 DEF DedupStage
      <3>2. QED BY <2>3, <2>6, <3>1 DEF DedupStage, ReportOfFacts
    <2>7. CASE SpamStage
      <3>1. CASE Raises(facts.mentions)
        BY <2>7, <3>1 DEF SpamStage, Raise, ReportOfFacts, EnrichmentRead
      <3>2. CASE ~Raises(facts.mentions)
        BY <2>4, <2>7, <3>2 DEF SpamStage, ReportOfFacts
      <3>3. QED BY <3>1, <3>2
    <2>8. CASE ThreadsStage
      <3>1. stage <= 5 /\ \E name : Runs(name)
        BY <2>1, <2>2, <2>8 DEF ThreadsStage
      <3>2. QED BY <2>3, <2>8, <3>1 DEF ThreadsStage, ReportOfFacts
    <2>9. CASE NlpStage
      <3> DEFINE new == [facts EXCEPT !.analysed = NlpInput,
                                      !.nlp = EnrichBatch(NlpInput, run.failing)]
      <3>1. Finish(new) /\ \E name : Runs(name)
        BY <2>9 DEF NlpStage
      <3>2. DOMAIN new = FactsKinds /\ new.mentions = facts.mentions
            /\ new.threads = facts.threads /\ new.enrichment = facts.enrichment
            /\ new.report = facts.report
        BY DEF ReportOfFacts
      <3> HIDE DEF new
      <3>3. QED BY <2>4, <3>1, <3>2
    <2>10. CASE EnrichmentStage
      <3>1. stage = 6 /\ stage' \in 7 .. 10
        BY <2>1, <2>2, <2>10 DEF EnrichmentStage, Finish
      <3>2. facts' = [facts EXCEPT !.enrichment = <<made>>] /\ run' = run
        BY <2>10 DEF EnrichmentStage, Finish
      <3> HIDE DEF made
      <3>3. /\ facts'.mentions = facts.mentions /\ facts'.enrichment = <<made>>
            /\ facts'.report = <<>> /\ DOMAIN facts' = FactsKinds
        BY <3>1, <3>2 DEF ReportOfFacts
      <3>4. stage' \in 1 .. 10 /\ stage' > 6
        BY <3>1
      <3>5. facts'.enrichment = <<EnrichMentions(facts'.mentions, run'.ontology)>>
        BY <3>2, <3>3 DEF made
      <3>6. QED BY ONLY <3>3, <3>4, <3>5 DEF ReportOfFacts
    <2>11. CASE ReportingStage
      <3> DEFINE report == Report(facts.mentions, facts.threads, EnrichmentRead)
      <3>1. stage = 8 /\ stage' \in 9 .. 10
        BY <2>1, <2>2, <2>11 DEF ReportingStage, Finish
      <3>2. facts' = [facts EXCEPT !.report = <<report>>] /\ run' = run
        BY <2>11 DEF ReportingStage, Finish, EnrichmentRead
      <3> HIDE DEF report
      <3>3. /\ facts'.mentions = facts.mentions /\ facts'.enrichment = facts.enrichment
            /\ facts'.threads = facts.threads /\ facts'.report = <<report>>
            /\ DOMAIN facts' = FactsKinds
        BY <3>2 DEF ReportOfFacts
      <3>4. stage' \in 1 .. 10 /\ stage' > 8 /\ stage' > 6 /\ stage > 6
        BY <3>1
      <3>5. EnrichmentRead' = EnrichmentRead
        BY <3>3 DEF EnrichmentRead
      <3>6. facts'.report = <<Report(facts'.mentions, facts'.threads, EnrichmentRead')>>
        BY <3>3, <3>5 DEF report
      <3>7. \/ facts'.enrichment = <<>>
            \/ facts'.enrichment = <<EnrichMentions(facts'.mentions, run'.ontology)>>
        BY <3>2, <3>3 DEF ReportOfFacts
      <3>8. QED BY ONLY <3>3, <3>4, <3>6, <3>7 DEF ReportOfFacts
    <2>12. CASE ReviewStage
      BY <2>4, <2>12 DEF ReviewStage, ReportOfFacts
    <2>13. CASE CrisisStage
      <3>1. PICK new :
               /\ Finish(new) /\ \E name : Runs(name)
               /\ DOMAIN new = FactsKinds /\ new.mentions = facts.mentions
               /\ new.threads = facts.threads /\ new.enrichment = facts.enrichment
               /\ new.report = facts.report
        BY <2>13 DEF CrisisStage, ReportOfFacts
      <3>2. QED BY <2>4, <3>1
    <2>14. CASE WithoutMentions
      BY <2>4, <2>14 DEF WithoutMentions, ReportOfFacts
    <2>15. CASE UNCHANGED vars
      BY <2>15 DEF vars, ReportOfFacts, EnrichmentRead
    <2>16. QED BY <2>5, <2>6, <2>7, <2>8, <2>9, <2>10, <2>11, <2>12, <2>13, <2>14, <2>15
               DEF Next
  <1>3. QED BY <1>1, <1>2, PTL DEF Spec

(***************************************************************************)
(* In every run the digest's volume is at most the mentions and one more   *)
(* for each further entity a mention names, and just that when the report  *)
(* keeps a row for every entity: rows partition the pairs of a mention and *)
(* an entity it names, and what names none is added once.                  *)
(***************************************************************************)
THEOREM DigestsCountMentions == Spec => []DigestVolume
  <1>1. MentionsOfRecords /\ ReportOfFacts => DigestVolume
    <2> DEFINE ms == facts.mentions
               made == EnrichMentions(ms, run.ontology)
               es == EntityFacts(ms, run.ontology)
               named == ResolvedFacts(made)
               halves == Halves(ms)
               sov == SovReport(ms, made, halves)
               buzz == BuzzReport(ms, made, halves)
               issues == TopIssues(made, halves)
               volume == facts.report[1].digest.volume
    <2> SUFFICES ASSUME MentionsOfRecords, ReportOfFacts,
                        facts.report # <<>>, facts.enrichment # <<>>
                 PROVE  DigestVolume
      BY DEF DigestVolume
    <2>1. ms \in Seq(Range(ms)) /\ OntologyType(run.ontology)
      BY DEF MentionsOfRecords, ScenarioType
    <2>2. \A m \in Range(ms) : m.text \in DOMAIN Words
      <3> SUFFICES ASSUME NEW m \in Range(ms) PROVE m.text \in DOMAIN Words
        OBVIOUS
      <3>1. PICK r \in Range(run.records) : Stems(m, r)
        BY DEF MentionsOfRecords, Range
      <3>2. r \in Records
        BY DEF MentionsOfRecords, ScenarioType, Range
      <3>3. r.text \in DOMAIN Opinions
        BY <3>2 DEF Records
      <3>4. QED BY <3>1, <3>3, PipelineAssumption DEF Stems
    <2>3. facts.enrichment = <<made>> /\ facts.report = <<Report(ms, facts.threads, made)>>
      <3>1. facts.enrichment = <<made>>
        BY DEF ReportOfFacts
      <3>2. EnrichmentRead = made
        BY <3>1 DEF EnrichmentRead
      <3>3. QED BY <3>1, <3>2 DEF ReportOfFacts
    <2>4. volume = Digest(sov, buzz, issues).volume
      <3> DEFINE rows == Controversy(ms, facts.threads, made)
                 breakdown == Breakdown(ms, made, rows)
      <3>1. Report(ms, facts.threads, made).digest = Digest(sov, buzz, issues)
        <4>1. Report(ms, facts.threads, made) = Reported(sov, buzz, issues, rows, breakdown)
          BY DEF Report
        <4> HIDE DEF sov, buzz, issues, rows, breakdown
        <4>2. QED BY <4>1 DEF Reported
      <3>2. QED BY <2>3, <3>1
    <2> HIDE DEF ms
    <2>5. es \in Seq(Range(es)) /\ \A f \in Range(es) : f.mention \in Ids(ms)
      BY <2>1, <2>2, EntitiesOfMentions
    <2>6. made.entities = es
      BY DEF EnrichMentions, Bundle
    <2>7. named \in Seq(Range(named)) /\ \A f \in Range(named) : f.mention \in Ids(ms)
      <3> DEFINE S == {i \in DOMAIN es : es[i].entity # Unresolved}
      <3>1. named = At(es, S) /\ S \in SUBSET (DOMAIN es)
        BY <2>6 DEF ResolvedFacts
      <3> HIDE DEF S, es, named
      <3>2. named \in Seq(Range(es))
        BY <2>5, <3>1, AtPlaces
      <3>3. QED BY <2>5, <3>2 DEF Range
    <2>8. /\ sov.unresolved = UnresolvedCount(ms, named)
          /\ sov.rows = Leading({SovRow(e, named, Len(ms), halves) :
                                    e \in {f.entity : f \in Range(named)}}, TopRows)
      <3> HIDE DEF made, halves
      <3>1. QED BY DEF SovReport
    <2> HIDE DEF named, halves, sov, buzz, issues, es
    <2>9. VolumeFits(volume, Len(ms), named)
      BY ONLY <2>1, <2>4, <2>7, <2>8, VolumeOfDigest
    <2> HIDE DEF volume, made
    <2>10. facts.enrichment[1] = made
      BY <2>3
    <2>11. QED BY <2>9, <2>10 DEF DigestVolume, VolumeFits, ms, named, volume
  <1>2. QED BY <1>1, MentionsStay, ReportStays, PTL

-----------------------------------------------------------------------------
\* Cues are finitely many.

(* The members of a sequence are finitely many.                            *)
LEMMA FiniteRange ==
    ASSUME NEW s, IsSequence(s)
    PROVE  IsFiniteSet(Range(s)) /\ IsFiniteSet(DOMAIN s)
  <1>1. Len(s) \in Nat /\ DOMAIN s = 1 .. Len(s) /\ 1 \in Int
    BY DEF IsSequence
  <1>2. IsFiniteSet(DOMAIN s)
    <2> DEFINE L == Len(s)
    <2>1. L \in Nat
      BY <1>1
    <2> HIDE DEF L
    <2>2. IsFiniteSet(1 .. L)
      BY <1>1, <2>1, FS_Interval
    <2>3. QED BY <1>1, <2>2 DEF L
  <1>3. Range(s) = {s[i] : i \in DOMAIN s}
    BY DEF Range
  <1>4. QED BY <1>2, <1>3, FiniteImage

(* Finitely many finite sets have finitely many members.                   *)
LEMMA FiniteUnionOf ==
    ASSUME NEW S, IsFiniteSet(S), NEW g, DOMAIN g = S, \A x \in S : IsFiniteSet(g[x]),
           NEW T, T = UNION {g[x] : x \in S}
    PROVE  IsFiniteSet(T)
  <1> DEFINE sets == {g[x] : x \in S}
  <1>1. IsFiniteSet(sets)
    <2>1. sets = {g[x] : x \in S}
      OBVIOUS
    <2> HIDE DEF sets
    <2>2. QED BY <2>1, FiniteImage
  <1>2. \A X \in sets : IsFiniteSet(X)
    OBVIOUS
  <1>3. T = UNION sets
    OBVIOUS
  <1> HIDE DEF sets
  <1>4. QED BY <1>1, <1>2, <1>3, FS_UNION

(* A phrase is found finitely often.  [_anchors.py:boundary_spans]         *)
LEMMA FiniteSpans ==
    ASSUME NEW words, IsSequence(words), NEW phrase, IsSequence(phrase)
    PROVE  IsFiniteSet(Spans(words, phrase))
  <1> DEFINE L == Len(words) - Len(phrase) + 1
  <1>1. L \in Int /\ 1 \in Int
    BY DEF IsSequence
  <1>2. Spans(words, phrase) \in SUBSET (1 .. L)
    BY DEF Spans
  <1> HIDE DEF L
  <1>3. IsFiniteSet(1 .. L)
    BY <1>1, FS_Interval
  <1>4. QED BY <1>2, <1>3, FS_Subset

(* Categories to which rules have added are categories.                    *)
(* [file_registry.py:_merge_user_phrase_rules]                             *)
LEMMA MergedCategories ==
    ASSUME NEW cs, CategoriesType(cs), NEW rules, IsSequence(rules),
           \A r \in Range(rules) : /\ IsSequence(r.phrases)
                                   /\ \A ph \in Range(r.phrases) : IsSequence(ph)
    PROVE  CategoriesType(Merged(cs, rules))
  <1> DEFINE Told(x) == {r \in Range(rules) : r.target = x}
             given(x) == UNION {Range(r.phrases) : r \in Told(x)}
             new(i) == /\ rules[i].phrases # <<>>
                       /\ rules[i].target \notin {c.id : c \in Range(cs)}
                       /\ \A j \in 1 .. i - 1 :
                             rules[j].phrases = <<>> \/ rules[j].target # rules[i].target
             S == {i \in DOMAIN rules : new(i)}
             added == At(rules, S)
             grown == [i \in DOMAIN cs |-> [cs[i] EXCEPT !.phrases = @ \cup given(cs[i].id)]]
             more == [k \in DOMAIN added |-> [id |-> added[k].target, name |-> added[k].target,
                                              phrases |-> given(added[k].target)]]
             Is(c) == /\ DOMAIN c = {"id", "name", "phrases"}
                      /\ IsFiniteSet(c.phrases)
                      /\ \A ph \in c.phrases : IsSequence(ph)
  <1>1. ASSUME NEW x PROVE IsFiniteSet(given(x)) /\ \A ph \in given(x) : IsSequence(ph)
    <2> DEFINE g == [r \in Told(x) |-> Range(r.phrases)]
    <2>1. IsFiniteSet(Told(x))
      <3>1. IsFiniteSet(Range(rules)) /\ Told(x) \in SUBSET Range(rules)
        BY FiniteRange
      <3> HIDE DEF Told
      <3>2. QED BY <3>1, FS_Subset
    <2>2. \A r \in Told(x) : IsFiniteSet(g[r])
      BY FiniteRange
    <2>3. DOMAIN g = Told(x) /\ given(x) = UNION {g[r] : r \in Told(x)}
      OBVIOUS
    <2>4. \A ph \in given(x) : IsSequence(ph)
      OBVIOUS
    <2> HIDE DEF g, Told, given
    <2>5. IsFiniteSet(given(x))
      BY <2>1, <2>2, <2>3, FiniteUnionOf
    <2>6. QED BY <2>4, <2>5
  <1>2. Merged(cs, rules) = grown \o more
    BY DEF Merged
  <1>3. S \in SUBSET (DOMAIN rules)
    OBVIOUS
  <1> HIDE DEF given, S
  <1>4. added \in Seq(Range(rules))
    BY <1>3, AtPlaces DEF IsSequence
  <1>5. \A i \in DOMAIN cs : Is(grown[i])
    <2> SUFFICES ASSUME NEW i \in DOMAIN cs PROVE Is(grown[i])
      OBVIOUS
    <2>1. Is(cs[i])
      BY DEF CategoriesType, Range
    <2>2. /\ grown[i].phrases = cs[i].phrases \cup given(cs[i].id)
          /\ DOMAIN grown[i] = {"id", "name", "phrases"}
      BY <2>1
    <2>3. IsFiniteSet(given(cs[i].id)) /\ \A ph \in given(cs[i].id) : IsSequence(ph)
      BY <1>1
    <2>4. IsFiniteSet(cs[i].phrases \cup given(cs[i].id))
      BY <2>1, <2>3, FS_Union
    <2> HIDE DEF grown
    <2>5. QED BY <2>1, <2>2, <2>3, <2>4
  <1>6. \A k \in DOMAIN more : Is(more[k])
    <2> SUFFICES ASSUME NEW k \in DOMAIN more PROVE Is(more[k])
      OBVIOUS
    <2>1. /\ more[k].phrases = given(added[k].target)
          /\ DOMAIN more[k] = {"id", "name", "phrases"}
      OBVIOUS
    <2> HIDE DEF more
    <2>2. QED BY <1>1, <2>1
  <1>7. grown \in Seq(Range(grown)) /\ more \in Seq(Range(more))
    <2>1. cs \in Seq(Range(cs)) /\ DOMAIN grown = DOMAIN cs /\ DOMAIN more = DOMAIN added
      BY DEF CategoriesType, IsSequence
    <2>2. grown = [i \in DOMAIN grown |-> grown[i]] /\ more = [k \in DOMAIN more |-> more[k]]
      OBVIOUS
    <2> HIDE DEF grown, more, added
    <2>3. QED BY <1>4, <2>1, <2>2 DEF Range
  <1> DEFINE V == {grown[i] : i \in DOMAIN grown} \cup {more[k] : k \in DOMAIN more}
  <1>8. \A c \in V : Is(c)
    BY <1>5, <1>6
  <1>9. Range(grown) \in SUBSET V /\ Range(more) \in SUBSET V
    BY DEF Range
  <1> HIDE DEF grown, more, V
  <1>10. grown \in Seq(V) /\ more \in Seq(V)
    BY <1>7, <1>9
  <1>11. grown \o more \in Seq(V)
    BY <1>10
  <1> DEFINE all == grown \o more
  <1> HIDE DEF all
  <1>12. all \in Seq(V)
    BY <1>11 DEF all
  <1>13. \A c \in Range(all) : c \in V
    BY <1>12 DEF Range
  <1>14. all \in Seq(Range(all))
    BY <1>12 DEF Range
  <1>15. QED BY <1>2, <1>8, <1>13, <1>14 DEF CategoriesType, IsSequence, all

(* What is found of aspects or issues in a segment is finite.              *)
(* [_anchors.py:extract_lexical_anchors]                                   *)
LEMMA FiniteAnchors ==
    ASSUME NEW words, IsSequence(words), NEW o, OntologyType(o),
           NEW kind \in {"ASPECT", "ISSUE"}
    PROVE  IsFiniteSet(Anchors(words, o, kind))
  <1> DEFINE rules == RulesFor(o, kind)
             cats == Categories(o, kind)
  <1>1. IsSequence(rules) /\ Range(rules) \in SUBSET Range(o.rules)
    <2> DEFINE S == {i \in DOMAIN o.rules : o.rules[i].kind = kind}
    <2>1. o.rules \in Seq(Range(o.rules)) /\ S \in SUBSET (DOMAIN o.rules)
      BY DEF OntologyType, IsSequence
    <2>2. rules = At(o.rules, S)
      BY DEF RulesFor
    <2> HIDE DEF S, rules
    <2>3. rules \in Seq(Range(o.rules))
      BY <2>1, <2>2, AtPlaces
    <2>4. QED BY <2>3 DEF IsSequence, Range
  <1>2. \A r \in Range(rules) : /\ IsSequence(r.phrases)
                                /\ \A ph \in Range(r.phrases) : IsSequence(ph)
    BY <1>1 DEF OntologyType
  <1> HIDE DEF rules
  <1>3. /\ IsFiniteSet(cats)
        /\ \A c \in cats : IsFiniteSet(c.phrases) /\ \A ph \in c.phrases : IsSequence(ph)
    <2> DEFINE all == Seeds(o, kind)
               told == {c \in Range(all) : c.phrases # {}}
    <2>1. PICK own : CategoriesType(own) /\ all = Merged(own, rules)
      <3>1. CategoriesType(o.issues) /\ CategoriesType(o.aspects)
        BY DEF OntologyType
      <3>2. kind = "ISSUE" => all = Merged(o.issues, rules)
        BY DEF Seeds, rules
      <3>3. kind = "ASPECT" => all = Merged(o.aspects, rules)
        BY DEF Seeds, rules
      <3> HIDE DEF all
      <3>4. QED BY <3>1, <3>2, <3>3
    <2> HIDE DEF all
    <2>2. CategoriesType(all)
      BY <1>1, <1>2, <2>1, MergedCategories
    <2>3. CategoriesType(BuiltIn[kind])
      BY SemanticsAssumption
    <2>4. IsFiniteSet(Range(all)) /\ IsFiniteSet(Range(BuiltIn[kind]))
      BY <2>2, <2>3, FiniteRange DEF CategoriesType
    <2>5. IsFiniteSet(told)
      <3>1. told \in SUBSET Range(all)
        OBVIOUS
      <3> HIDE DEF told
      <3>2. QED BY <2>4, <3>1, FS_Subset
    <2>6. cats = IF told = {} THEN Range(BuiltIn[kind]) ELSE told
      BY DEF Categories, all
    <2>7. QED BY <2>2, <2>3, <2>4, <2>5, <2>6 DEF CategoriesType
  <1> HIDE DEF cats
  <1>4. IsFiniteSet(SeedAnchors(words, o, kind))
    <2> DEFINE of == [c \in cats |-> {c} \X c.phrases]
               pairs == UNION {{c} \X c.phrases : c \in cats}
               found(x) == {[label |-> x[1].id, phrase |-> x[2], at |-> p, source |-> "seed"] :
                               p \in Spans(words, x[2])}
               anchors == [x \in pairs |-> found(x)]
    <2>1. DOMAIN of = cats /\ pairs = UNION {of[c] : c \in cats}
      OBVIOUS
    <2>2. \A c \in cats : IsFiniteSet(of[c])
      <3> SUFFICES ASSUME NEW c \in cats PROVE IsFiniteSet({c} \X c.phrases)
        OBVIOUS
      <3>1. IsFiniteSet({c}) /\ IsFiniteSet(c.phrases)
        BY <1>3, FS_Singleton
      <3>2. QED BY <3>1, FS_Product
    <2>3. \A x \in pairs : IsSequence(x[2])
      BY <1>3
    <2> HIDE DEF of, pairs
    <2>4. IsFiniteSet(pairs)
      BY <1>3, <2>1, <2>2, FiniteUnionOf
    <2>5. \A x \in pairs : IsFiniteSet(found(x))
      <3> SUFFICES ASSUME NEW x \in pairs PROVE IsFiniteSet(found(x))
        OBVIOUS
      <3> DEFINE at == [p \in Spans(words, x[2]) |->
                          [label |-> x[1].id, phrase |-> x[2], at |-> p, source |-> "seed"]]
      <3>1. DOMAIN at = Spans(words, x[2]) /\ found(x) = {at[p] : p \in Spans(words, x[2])}
        OBVIOUS
      <3>2. IsFiniteSet(Spans(words, x[2]))
        BY <2>3, FiniteSpans
      <3> HIDE DEF at, found
      <3>3. QED BY <3>1, <3>2, FiniteImage
    <2>6. SeedAnchors(words, o, kind) = UNION {found(x) : x \in pairs}
      BY DEF SeedAnchors, pairs, cats
    <2>7. DOMAIN anchors = pairs /\ \A x \in pairs : anchors[x] = found(x)
      OBVIOUS
    <2> HIDE DEF found, anchors
    <2>8. SeedAnchors(words, o, kind) = UNION {anchors[x] : x \in pairs}
      BY <2>6, <2>7
    <2>9. QED BY <2>4, <2>5, <2>7, <2>8, FiniteUnionOf
  <1>5. IsFiniteSet(RuleAnchors(words, o, kind))
    <2> DEFINE found(i) == {[label |-> rules[i].target, phrase |-> e.phrase, at |-> e.at,
                             source |-> rules[i].name] : e \in Evidence(rules[i], words)}
               anchors == [i \in DOMAIN rules |-> found(i)]
    <2>1. \A i \in DOMAIN rules : IsFiniteSet(Evidence(rules[i], words))
      <3> SUFFICES ASSUME NEW i \in DOMAIN rules PROVE IsFiniteSet(Evidence(rules[i], words))
        OBVIOUS
      <3> DEFINE r == rules[i]
                 first(k) == [phrase |-> r.phrases[k], at |-> Min(Spans(words, r.phrases[k]))]
                 all == [k \in DOMAIN r.phrases |-> first(k)]
                 every == {all[k] : k \in DOMAIN r.phrases}
      <3>1. IsSequence(r.phrases)
        BY <1>2 DEF Range
      <3>2. DOMAIN all = DOMAIN r.phrases /\ \A k \in DOMAIN r.phrases : all[k] = first(k)
        OBVIOUS
      <3>3. Evidence(r, words) \in SUBSET {first(k) : k \in DOMAIN r.phrases}
        <4> HIDE DEF r
        <4>1. QED BY DEF Evidence
      <3> HIDE DEF r, first, all
      <3>4. Evidence(r, words) \in SUBSET every
        BY <3>2, <3>3
      <3>5. every = {all[k] : k \in DOMAIN r.phrases} /\ IsFiniteSet(DOMAIN r.phrases)
        BY <3>1, FiniteRange
      <3> HIDE DEF every
      <3>6. IsFiniteSet(every)
        BY <3>2, <3>5, FiniteImage
      <3>7. IsFiniteSet(Evidence(r, words))
        BY <3>4, <3>6, FS_Subset
      <3>8. QED BY <3>7 DEF r
    <2>2. \A i \in DOMAIN rules : IsFiniteSet(found(i))
      <3> SUFFICES ASSUME NEW i \in DOMAIN rules PROVE IsFiniteSet(found(i))
        OBVIOUS
      <3> DEFINE E == Evidence(rules[i], words)
                 at == [e \in E |-> [label |-> rules[i].target, phrase |-> e.phrase, at |-> e.at,
                                     source |-> rules[i].name]]
      <3>1. DOMAIN at = E /\ found(i) = {at[e] : e \in E}
        OBVIOUS
      <3>2. IsFiniteSet(E)
        BY <2>1
      <3> HIDE DEF at, found, E
      <3>3. QED BY <3>1, <3>2, FiniteImage
    <2>3. RuleAnchors(words, o, kind) = UNION {found(i) : i \in DOMAIN rules}
      BY DEF RuleAnchors, rules
    <2>4. DOMAIN anchors = DOMAIN rules /\ \A i \in DOMAIN rules : anchors[i] = found(i)
      OBVIOUS
    <2> HIDE DEF found, anchors
    <2>5. RuleAnchors(words, o, kind) = UNION {anchors[i] : i \in DOMAIN rules}
      BY <2>3, <2>4
    <2>6. IsFiniteSet(DOMAIN rules)
      BY <1>1, FiniteRange
    <2>7. QED BY <2>2, <2>4, <2>5, <2>6, FiniteUnionOf
  <1>6. QED BY <1>4, <1>5, FS_Union DEF Anchors

(* A text is cut into finitely many sequences of words.                    *)
(* [_segmenter.py:segment]                                                 *)
LEMMA FiniteSegments ==
    ASSUME NEW words, IsSequence(words)
    PROVE  IsFiniteSet(Segments(words)) /\ \A s \in Segments(words) : IsSequence(s.words)
  <1> DEFINE boundary(p) == words[p] \in Punctuation \cup Contrasts
             begins(p) == ~boundary(p) /\ (p = 1 \/ boundary(p - 1))
             till(p) == {q \in p .. Len(words) : \A k \in p .. q : ~boundary(k)}
             end(p) == Max(till(p))
             segment(p) == [at       |-> p,
                            words    |-> SubSeq(words, p, end(p)),
                            contrast |-> p > 1 /\ words[p - 1] \in Contrasts,
                            question |-> end(p) < Len(words) /\ words[end(p) + 1] = QuestionMark]
             whole == [at |-> 1, words |-> words, contrast |-> FALSE,
                       question |-> QuestionMark \in Range(words)]
             starts == {p \in DOMAIN words : begins(p)}
             cut == [p \in starts |-> segment(p)]
             all == {cut[p] : p \in starts}
  <1>1. words \in Seq(Range(words)) /\ Len(words) \in Nat /\ DOMAIN words = 1 .. Len(words)
    BY DEF IsSequence
  <1>2. \A p \in starts : p \in 1 .. Len(words) /\ till(p) \in SUBSET (0 .. Len(words)) /\ p \in till(p)
    BY <1>1
  <1>3. \A p \in starts : end(p) \in p .. Len(words)
    <2> SUFFICES ASSUME NEW p \in starts PROVE end(p) \in p .. Len(words)
      OBVIOUS
    <2>1. till(p) \in SUBSET (0 .. Len(words)) /\ till(p) # {} /\ till(p) \in SUBSET (p .. Len(words))
      BY <1>2
    <2> HIDE DEF till, starts
    <2>2. \E m \in till(p) : \A x \in till(p) : x <= m
      BY <1>1, <2>1, Extremes
    <2>3. Max(till(p)) \in till(p)
      BY <2>2 DEF Max
    <2>4. QED BY <2>1, <2>3
  <1>4. \A p \in starts : IsSequence(SubSeq(words, p, end(p)))
    <2> SUFFICES ASSUME NEW p \in starts PROVE IsSequence(SubSeq(words, p, end(p)))
      OBVIOUS
    <2> DEFINE e == end(p)
               s == SubSeq(words, p, e)
    <2>1. p \in 1 .. Len(words) /\ e \in p .. Len(words)
      BY <1>2, <1>3
    <2> HIDE DEF e, starts
    <2>2. s \in Seq(Range(words))
      BY <1>1, <2>1
    <2> HIDE DEF s
    <2>3. s \in Seq(Range(s))
      BY <2>2 DEF Range
    <2>4. QED BY <2>3 DEF IsSequence, s, e
  <1>5. IsFiniteSet(starts)
    <2>1. IsFiniteSet(DOMAIN words) /\ starts \in SUBSET (DOMAIN words)
      BY FiniteRange
    <2> HIDE DEF starts
    <2>2. QED BY <2>1, FS_Subset
  <1>6. IsFiniteSet(all) /\ \A s \in all : IsSequence(s.words)
    <2>1. all = {cut[p] : p \in starts} /\ DOMAIN cut = starts
      OBVIOUS
    <2>2. \A p \in starts : cut[p].words = SubSeq(words, p, end(p))
      OBVIOUS
    <2> HIDE DEF cut, starts, end, all
    <2>3. IsFiniteSet(all)
      BY <1>5, <2>1, FiniteImage
    <2>4. QED BY <1>4, <2>1, <2>2, <2>3
  <1>7. Segments(words) = IF words = <<>> THEN {} ELSE IF starts = {} THEN {whole} ELSE all
    BY DEF Segments
  <1>8. IsFiniteSet({whole}) /\ IsFiniteSet({}) /\ \A s \in {whole} : s.words = words
    <2>1. whole.words = words
      OBVIOUS
    <2> HIDE DEF whole
    <2>2. QED BY <2>1, FS_Singleton, FS_EmptySet
  <1> HIDE DEF all, starts, whole
  <1>9. QED BY <1>6, <1>7, <1>8

\* The segments of a mention, each with what is found in it of aspects or issues.
Pairs(m, o, kind) ==
    UNION {{s} \X Anchors(s.words, o, kind) : s \in Segments(Words[m.text])}

(* They are finitely many.  [semantic_enricher.py:enrich]                  *)
LEMMA FinitePairs ==
    ASSUME NEW m, m.text \in DOMAIN Words, NEW o, OntologyType(o),
           NEW kind \in {"ASPECT", "ISSUE"}
    PROVE  IsFiniteSet(Pairs(m, o, kind))
  <1> DEFINE words == Words[m.text]
             found == [s \in Segments(words) |-> {s} \X Anchors(s.words, o, kind)]
             pairs == UNION {{s} \X Anchors(s.words, o, kind) : s \in Segments(words)}
  <1>1. IsSequence(words)
    BY RegistryAssumption DEF Range
  <1>2. Pairs(m, o, kind) = pairs
    BY DEF Pairs
  <1> HIDE DEF words
  <1>3. IsFiniteSet(Segments(words))
    BY <1>1, FiniteSegments
  <1>4. DOMAIN found = Segments(words) /\ pairs = UNION {found[s] : s \in Segments(words)}
    OBVIOUS
  <1>5. \A s \in Segments(words) : IsFiniteSet(found[s])
    <2> SUFFICES ASSUME NEW s \in Segments(words)
                 PROVE  IsFiniteSet({s} \X Anchors(s.words, o, kind))
      OBVIOUS
    <2>1. IsFiniteSet({s}) /\ IsFiniteSet(Anchors(s.words, o, kind))
      BY <1>1, FiniteSegments, FiniteAnchors, FS_Singleton
    <2>2. QED BY <2>1, FS_Product
  <1> HIDE DEF found, pairs
  <1>6. QED BY <1>2, <1>3, <1>4, <1>5, FiniteUnionOf

(* A run has finitely many facts about issues.                             *)
(* [semantic_enricher.py:enrich]                                           *)
LEMMA FiniteIssues ==
    ASSUME NEW ms, ms \in Seq(Range(ms)), \A m \in Range(ms) : m.text \in DOMAIN Words,
           NEW es, NEW o, OntologyType(o)
    PROVE  IsFiniteSet(IssueFacts(ms, es, o))
  <1> DEFINE of(i) == IssueHypotheses(i, ms[i], es, o)
             hypotheses == UNION {of(i) : i \in DOMAIN ms}
  <1>1. ASSUME NEW i \in DOMAIN ms PROVE IsFiniteSet(of(i))
    <2> DEFINE pairs == Pairs(ms[i], o, "ISSUE")
               hypothesis == [x \in pairs |->
                   [place     |-> i,
                    mention   |-> ms[i].id,
                    root      |-> ms[i].root,
                    issue     |-> x[2].label,
                    target    |-> BestTarget(ms[i], es),
                    mode      |-> EvidenceMode(x[1]),
                    uncertain |-> Uncertain(x[1]),
                    evidence  |-> {x[2].phrase},
                    anchor    |-> <<x[1].at, x[2].at, x[2].source>>]]
    <2>1. ms[i].text \in DOMAIN Words
      BY DEF Range
    <2>2. of(i) = {hypothesis[x] : x \in pairs} /\ DOMAIN hypothesis = pairs
      BY DEF IssueHypotheses, Pairs
    <2>3. IsFiniteSet(pairs)
      BY <2>1, FinitePairs
    <2> HIDE DEF pairs, hypothesis, of
    <2>4. QED BY <2>2, <2>3, FiniteImage
  <1> DEFINE g == [i \in DOMAIN ms |-> of(i)]
             fact == [h \in hypotheses |-> IssueFact(h, Echoes(h, SameIssue(h, hypotheses)))]
  <1>2. DOMAIN g = DOMAIN ms /\ \A i \in DOMAIN ms : g[i] = of(i)
    OBVIOUS
  <1>3. IssueFacts(ms, es, o) = {fact[h] : h \in hypotheses} /\ DOMAIN fact = hypotheses
    BY DEF IssueFacts
  <1> HIDE DEF of, g
  <1>4. hypotheses = UNION {g[i] : i \in DOMAIN ms}
    BY <1>2
  <1>5. IsFiniteSet(DOMAIN ms)
    BY FiniteRange DEF IsSequence
  <1> HIDE DEF hypotheses, fact
  <1>6. IsFiniteSet(hypotheses)
    BY <1>1, <1>2, <1>4, <1>5, FiniteUnionOf
  <1>7. QED BY <1>3, <1>6, FiniteImage

-----------------------------------------------------------------------------
\* What a thread scores.

(* The larger and the smaller of two numbers.                              *)
LEMMA OfTwo ==
    ASSUME NEW a \in Int, NEW b \in Int
    PROVE  Max({a, b}) = (IF a >= b THEN a ELSE b) /\ Min({a, b}) = (IF a <= b THEN a ELSE b)
  <1>1. \A x \in {a, b} : (\A y \in {a, b} : y <= x) => x = (IF a >= b THEN a ELSE b)
    OBVIOUS
  <1>2. \E x \in {a, b} : \A y \in {a, b} : y <= x
    OBVIOUS
  <1>3. \A x \in {a, b} : (\A y \in {a, b} : x <= y) => x = (IF a <= b THEN a ELSE b)
    OBVIOUS
  <1>4. \E x \in {a, b} : \A y \in {a, b} : x <= y
    OBVIOUS
  <1>5. Max({a, b}) = (IF a >= b THEN a ELSE b)
    BY <1>1, <1>2 DEF Max
  <1>6. Min({a, b}) = (IF a <= b THEN a ELSE b)
    BY <1>3, <1>4 DEF Min
  <1>7. QED BY <1>5, <1>6

(* A share of a whole is at most one.  [build_bi_reports.py:_ratio]        *)
LEMMA RatioBounds ==
    ASSUME NEW n \in Nat, NEW d \in Nat
    PROVE  /\ Ratio(n, d) \in Nat
           /\ n <= d => Ratio(n, d) <= 10000
           /\ n = 0 => Ratio(n, d) = 0
  <1>1. CASE d = 0
    BY <1>1 DEF Ratio
  <1>2. CASE d # 0
    <2> DEFINE a == 20000 * n + d
               b == 2 * d
               q == a \div b
    <2>1. a \in Nat /\ b \in Nat /\ b > 0
      BY <1>2
    <2>2. Ratio(n, d) = q
      BY <1>2 DEF Ratio, Round, Unit
    <2>3. q \in Nat /\ b * q <= a
      <3> HIDE DEF a, b
      <3>1. QED BY <2>1
    <2>4. ASSUME NEW k \in Nat, a < b * (k + 1) PROVE q <= k
      <3> HIDE DEF a, b, q
      <3>1. b * q < b * (k + 1)
        BY <2>1, <2>3, <2>4
      <3>2. ASSUME q >= k + 1 PROVE FALSE
        <4>1. b * q >= b * (k + 1)
          BY <2>1, <2>3, <3>2
        <4>2. QED BY <2>1, <2>3, <3>1, <4>1
      <3>3. QED BY <2>3, <3>2
    <2>5. n <= d => q <= 10000
      <3> SUFFICES ASSUME n <= d PROVE q <= 10000
        OBVIOUS
      <3>1. a < b * (10000 + 1)
        BY <1>2
      <3> HIDE DEF a, b, q
      <3>2. QED BY <2>4, <3>1
    <2>6. n = 0 => q = 0
      <3> SUFFICES ASSUME n = 0 PROVE q = 0
        OBVIOUS
      <3>1. a < b * (0 + 1)
        BY <1>2
      <3> HIDE DEF a, b, q
      <3>2. q <= 0
        BY <2>4, <3>1
      <3>3. QED BY <2>3, <3>2
    <2> HIDE DEF q
    <2>7. QED BY <2>2, <2>3, <2>5, <2>6
  <1>3. QED BY <1>1, <1>2

(* Shares weighed in percents come back as a score, which stops at one.     *)
(* [build_bi_reports.py:_build_thread_controversy_report]                  *)
LEMMA WeighedShares ==
    ASSUME NEW sum \in Nat, NEW score, score = Min({Unit, Round(sum, 100)})
    PROVE  /\ score \in Nat
           /\ sum >= 800000 => score >= 8000
           /\ sum <= 720000 => score < 8000
  <1> DEFINE round == (2 * sum + 100) \div 200
  <1>1. Round(sum, 100) = round
    BY DEF Round
  <1>2. round \in Nat /\ (sum >= 800000 => round >= 8000) /\ (sum <= 720000 => round <= 7200)
    OBVIOUS
  <1>3. score = Min({10000, round})
    BY <1>1 DEF Unit
  <1> HIDE DEF round
  <1>4. score = IF 10000 <= round THEN 10000 ELSE round
    BY <1>2, <1>3, OfTwo
  <1>5. QED BY <1>2, <1>4

(* What a thread's summary counts.  [build_threads.py:build_threads]       *)
LEMMA SummaryCounts ==
    ASSUME NEW thread, thread \in Seq(Range(thread)), thread # <<>>,
           \A i \in DOMAIN thread : thread[i].depth \in {0, 1, 2}
    PROVE  LET s == Summary(thread)
           IN  /\ s.total = Len(thread) /\ s.comments \in Nat /\ s.replies \in Nat
               /\ s.deepest \in {0, 1, 2}
               /\ (\A i \in DOMAIN thread : thread[i].depth = 2) =>
                      s.comments = 0 /\ s.replies = Len(thread) /\ s.deepest = 2
               /\ (\A i \in DOMAIN thread : thread[i].depth # 2) =>
                      s.replies = 0 /\ s.deepest # 2
  <1> DEFINE S(D) == {i \in DOMAIN thread : thread[i].depth \in D}
             at(D) == Cardinality(S(D))
             deepest == CHOOSE d \in 0 .. 2 : /\ at({d}) > 0
                                              /\ \A e \in 0 .. 2 : at({e}) > 0 => e <= d
             s == Summary(thread)
  <1>1. /\ s.total = Len(thread) /\ s.comments = at({1}) /\ s.replies = at({2})
        /\ s.deepest = deepest
    BY DEF Summary
  <1>2. IsFiniteSet(DOMAIN thread) /\ Cardinality(DOMAIN thread) = Len(thread)
    <2> DEFINE L == Len(thread)
    <2>1. L \in Nat /\ DOMAIN thread = 1 .. L /\ 1 \in Int
      OBVIOUS
    <2> HIDE DEF L
    <2>2. IsFiniteSet(1 .. L) /\ Cardinality(1 .. L) = L
      BY <2>1, FS_Interval
    <2>3. QED BY <2>1, <2>2 DEF L
  <1>3. \A D : at(D) \in Nat /\ (at(D) > 0 <=> \E i \in DOMAIN thread : thread[i].depth \in D)
    <2> SUFFICES ASSUME NEW D
                 PROVE  at(D) \in Nat
                          /\ (at(D) > 0 <=> \E i \in DOMAIN thread : thread[i].depth \in D)
      OBVIOUS
    <2>1. S(D) \in SUBSET (DOMAIN thread)
          /\ (S(D) # {} <=> \E i \in DOMAIN thread : thread[i].depth \in D)
      OBVIOUS
    <2> HIDE DEF S
    <2>2. IsFiniteSet(S(D))
      BY <1>2, <2>1, FS_Subset
    <2>3. at(D) \in Nat /\ (at(D) = 0 <=> S(D) = {})
      BY <2>2, FS_CardinalityType, FS_EmptySet
    <2> HIDE DEF at
    <2>4. QED BY <2>1, <2>3
  <1>4. (\A i \in DOMAIN thread : thread[i].depth = 2) => at({2}) = Len(thread)
    <2> SUFFICES ASSUME \A i \in DOMAIN thread : thread[i].depth = 2 PROVE at({2}) = Len(thread)
      OBVIOUS
    <2>1. S({2}) = DOMAIN thread
      OBVIOUS
    <2> HIDE DEF S
    <2>2. QED BY <1>2, <2>1
  <1>5. 1 \in DOMAIN thread /\ thread[1].depth \in {0, 1, 2}
    OBVIOUS
  <1> HIDE DEF at, S
  <1>6. deepest \in {0, 1, 2} /\ at({deepest}) > 0
          /\ \A e \in {0, 1, 2} : at({e}) > 0 => e <= deepest
    <2>1. at({0}) > 0 \/ at({1}) > 0 \/ at({2}) > 0
      BY <1>3, <1>5
    <2>2. \E d \in 0 .. 2 : at({d}) > 0 /\ \A e \in 0 .. 2 : at({e}) > 0 => e <= d
      <3>1. CASE at({2}) > 0
        BY <3>1
      <3>2. CASE ~(at({2}) > 0) /\ at({1}) > 0
        BY <3>2
      <3>3. CASE ~(at({2}) > 0) /\ ~(at({1}) > 0)
        BY <2>1, <3>3
      <3>4. QED BY <3>1, <3>2, <3>3
    <2>3. 0 .. 2 = {0, 1, 2}
      OBVIOUS
    <2>4. QED BY <2>2, <2>3
  <1> HIDE DEF deepest, s
  <1>7. s.comments \in Nat /\ s.replies \in Nat /\ s.deepest \in {0, 1, 2}
    BY <1>1, <1>3, <1>6
  <1>8. ASSUME \A i \in DOMAIN thread : thread[i].depth = 2
        PROVE  s.comments = 0 /\ s.replies = Len(thread) /\ s.deepest = 2
    <2>1. ~(at({1}) > 0) /\ at({1}) \in Nat /\ at({2}) > 0
      BY <1>3, <1>5, <1>8
    <2>2. 2 <= deepest
      BY <1>6, <2>1
    <2>3. QED BY <1>1, <1>4, <1>6, <1>8, <2>1, <2>2
  <1>9. ASSUME \A i \in DOMAIN thread : thread[i].depth # 2
        PROVE  s.replies = 0 /\ s.deepest # 2
    <2>1. ~(at({2}) > 0) /\ at({2}) \in Nat
      BY <1>3, <1>9
    <2>2. ASSUME deepest = 2 PROVE FALSE
      <3>1. at({deepest}) > 0
        BY <1>6
      <3>2. at({2}) > 0
        BY <2>2, <3>1
      <3>3. QED BY <2>1, <3>2
    <2>3. at({2}) = 0
      BY <2>1
    <2>4. QED BY <1>1, <2>2, <2>3
  <1>10. QED BY <1>1, <1>7, <1>8, <1>9 DEF s

(* What a thread scores: one of replies only is at its most controversial  *)
(* by its replies and its depth, one without replies lacks their share.    *)
(* [build_bi_reports.py:_build_thread_controversy_report]                  *)
LEMMA ThreadScore ==
    ASSUME NEW ms, IsSequence(ms), \A m \in Range(ms) : m.depth \in {0, 1, 2},
           NEW root, \E m \in Range(ms) : m.root = root,
           NEW enr, IsFiniteSet(DOMAIN enr.sentiments), IsFiniteSet(enr.issues),
           NEW row, row = ThreadRow(root, Summary(ThreadOf(root, ms)), ms, enr)
    PROVE  /\ row.score \in Nat /\ row.by[1] = row.score /\ row.by[2] \in Nat
           /\ (\A m \in Range(ms) : m.root = root => m.depth = 2) => row.score >= 8000
           /\ (\A m \in Range(ms) : m.root = root => m.depth # 2) => row.score < 8000
  <1> DEFINE places == {i \in DOMAIN ms : ms[i].root = root}
             thread == ThreadOf(root, ms)
             s == Summary(thread)
             found(kind) == {x \in (DOMAIN enr.sentiments) \X places :
                                /\ enr.sentiments[x[1]].mention = ms[x[2]].id
                                /\ enr.sentiments[x[1]].sentiment = kind}
             felt(kind) == Cardinality(found(kind))
             issues == {x \in enr.issues \X places : x[1].mention = ms[x[2]].id}
             writers == {ms[i].author : i \in places}
             kinds == {x[1].issue : x \in issues}
             replies == Ratio(s.replies, Max({s.comments, 1}))
             recursion == Ratio(s.deepest, Max({s.total, 1}))
             mixed == Ratio(Min({felt("positive"), felt("negative")}),
                            Max({felt("positive") + felt("negative"), 1}))
             authors == Ratio(Cardinality(writers), s.total)
             diversity == Ratio(Cardinality(kinds), Max({Cardinality(issues), 1}))
             sum == 28 * replies + 24 * recursion + 24 * mixed + 14 * authors + 10 * diversity
             score == Min({Unit, Round(sum, 100)})
             n == Len(thread)
  <1>1. row = [root |-> root, total |-> s.total, score |-> score, by |-> <<score, s.total>>]
    BY DEF ThreadRow
  <1>2. /\ IsFiniteSet(places) /\ places # {}
        /\ thread \in Seq(Range(ms)) /\ n = Cardinality(places) /\ n \in Nat \ {0}
        /\ \A k \in DOMAIN thread : thread[k] \in Range(ms) /\ thread[k].root = root
    <2>1. ms \in Seq(Range(ms)) /\ places \in SUBSET (DOMAIN ms) /\ places # {}
      BY DEF IsSequence, Range
    <2>2. IsFiniteSet(places)
      <3>1. IsFiniteSet(DOMAIN ms)
        BY FiniteRange
      <3> HIDE DEF places
      <3>2. QED BY <2>1, <3>1, FS_Subset
    <2>3. \A i \in places : ms[i].root = root /\ ms[i] \in Range(ms)
      BY DEF Range
    <2>4. thread = At(ms, places)
      BY DEF ThreadOf
    <2> HIDE DEF places, thread, n
    <2>5. /\ At(ms, places) \in Seq(Range(ms)) /\ Len(At(ms, places)) = Cardinality(places)
          /\ \A k \in DOMAIN At(ms, places) : At(ms, places)[k] = ms[Nth(places, k)]
                                              /\ Nth(places, k) \in places
      BY <2>1, AtPlaces
    <2>6. Cardinality(places) \in Nat \ {0}
      BY <2>1, <2>2, FS_CardinalityType, FS_EmptySet
    <2>7. QED BY <2>1, <2>2, <2>3, <2>4, <2>5, <2>6 DEF n
  <1>3. /\ s.total = n /\ s.comments \in Nat /\ s.replies \in Nat
        /\ s.deepest \in {0, 1, 2}
        /\ (\A i \in DOMAIN thread : thread[i].depth = 2) =>
               s.comments = 0 /\ s.replies = n /\ s.deepest = 2
        /\ (\A i \in DOMAIN thread : thread[i].depth # 2) =>
               s.replies = 0 /\ s.deepest # 2
    <2>1. thread \in Seq(Range(thread)) /\ thread # <<>>
      <3> HIDE DEF thread
      <3>1. n = Len(thread)
        BY DEF n
      <3>2. thread \in Seq(Range(ms)) /\ n \in Nat \ {0}
        BY <1>2
      <3> HIDE DEF n
      <3>3. thread \in Seq(Range(thread))
        BY <3>2 DEF Range
      <3>4. Len(<<>>) = 0
        OBVIOUS
      <3>5. thread # <<>>
        BY <3>1, <3>2, <3>4
      <3>6. QED BY <3>3, <3>5
    <2>2. \A i \in DOMAIN thread : thread[i].depth \in {0, 1, 2}
      BY <1>2
    <2> HIDE DEF thread, n
    <2>3. /\ s.total = Len(thread) /\ s.comments \in Nat /\ s.replies \in Nat
          /\ s.deepest \in {0, 1, 2}
          /\ (\A i \in DOMAIN thread : thread[i].depth = 2) =>
                 s.comments = 0 /\ s.replies = Len(thread) /\ s.deepest = 2
          /\ (\A i \in DOMAIN thread : thread[i].depth # 2) =>
                 s.replies = 0 /\ s.deepest # 2
      BY ONLY <2>1, <2>2, SummaryCounts, Zenon
    <2>4. n = Len(thread)
      BY DEF n
    <2> HIDE DEF s
    <2>5. QED BY <2>3, <2>4
  <1>4. Cardinality(writers) \in Nat /\ Cardinality(writers) <= n
          /\ Cardinality(writers) >= 1
    <2> DEFINE g == [i \in places |-> ms[i].author]
    <2>1. DOMAIN g = places /\ writers = {g[i] : i \in places}
      OBVIOUS
    <2>2. writers # {}
      BY <1>2
    <2> HIDE DEF g, writers, places
    <2>3. IsFiniteSet(writers) /\ Cardinality(writers) \in Nat
            /\ Cardinality(writers) <= Cardinality(places)
      BY <1>2, <2>1, FiniteImage
    <2>4. Cardinality(writers) # 0
      BY <2>2, <2>3, FS_EmptySet
    <2>5. QED BY <1>2, <2>3, <2>4
  <1>5. IsFiniteSet(issues) /\ Cardinality(issues) \in Nat
    <2>1. IsFiniteSet(enr.issues \X places)
      <3> HIDE DEF places
      <3>1. QED BY <1>2, FS_Product
    <2>2. issues \in SUBSET (enr.issues \X places)
      OBVIOUS
    <2> HIDE DEF issues, places
    <2>3. QED BY <2>1, <2>2, FS_Subset, FS_CardinalityType
  <1>6. Cardinality(kinds) \in Nat /\ Cardinality(kinds) <= Cardinality(issues)
    <2> DEFINE g == [x \in issues |-> x[1].issue]
    <2>1. DOMAIN g = issues /\ kinds = {g[x] : x \in issues}
      OBVIOUS
    <2> HIDE DEF g, kinds, issues
    <2>2. QED BY <1>5, <2>1, FiniteImage
  <1>7. \A kind : felt(kind) \in Nat
    <2> SUFFICES ASSUME NEW kind PROVE felt(kind) \in Nat
      OBVIOUS
    <2>1. IsFiniteSet((DOMAIN enr.sentiments) \X places)
      <3> HIDE DEF places
      <3>1. QED BY <1>2, FS_Product
    <2>2. found(kind) \in SUBSET ((DOMAIN enr.sentiments) \X places)
      OBVIOUS
    <2> HIDE DEF found, places
    <2>3. QED BY <2>1, <2>2, FS_Subset, FS_CardinalityType
  <1> DEFINE c == Cardinality(issues)
             w == Cardinality(writers)
             k == Cardinality(kinds)
             p == felt("positive")
             q == felt("negative")
             comments == s.comments
             answers == s.replies
             deepest == s.deepest
             total == s.total
  <1>8. /\ c \in Nat /\ w \in Nat /\ k \in Nat /\ p \in Nat /\ q \in Nat /\ n \in Nat \ {0}
        /\ w <= n /\ w >= 1 /\ k <= c
        /\ comments \in Nat /\ answers \in Nat /\ deepest \in {0, 1, 2} /\ total = n
    BY <1>2, <1>3, <1>4, <1>5, <1>6, <1>7
  <1>9. /\ replies = Ratio(answers, Max({comments, 1}))
        /\ recursion = Ratio(deepest, Max({total, 1}))
        /\ mixed = Ratio(Min({p, q}), Max({p + q, 1}))
        /\ authors = Ratio(w, total)
        /\ diversity = Ratio(k, Max({c, 1}))
    OBVIOUS
  <1> HIDE DEF places, thread, s, found, felt, issues, writers, kinds,
               c, w, k, p, q, n, comments, answers, deepest, total
  <1>10. /\ replies = Ratio(answers, IF comments >= 1 THEN comments ELSE 1)
         /\ recursion = Ratio(deepest, n)
         /\ mixed = Ratio(IF p <= q THEN p ELSE q, IF p + q >= 1 THEN p + q ELSE 1)
         /\ authors = Ratio(w, n)
         /\ diversity = Ratio(k, IF c >= 1 THEN c ELSE 1)
    <2>1. /\ comments \in Int /\ n \in Int /\ n >= 1 /\ total = n /\ p \in Int /\ q \in Int
          /\ p + q \in Int /\ c \in Int /\ 1 \in Int
      BY <1>8
    <2>2. Max({comments, 1}) = IF comments >= 1 THEN comments ELSE 1
      BY ONLY <2>1, OfTwo
    <2>3. Max({total, 1}) = n
      BY ONLY <2>1, OfTwo
    <2>4. Max({p + q, 1}) = IF p + q >= 1 THEN p + q ELSE 1
      BY ONLY <2>1, OfTwo
    <2>5. Min({p, q}) = IF p <= q THEN p ELSE q
      BY ONLY <2>1, OfTwo
    <2>6. Max({c, 1}) = IF c >= 1 THEN c ELSE 1
      BY ONLY <2>1, OfTwo
    <2> HIDE DEF replies, recursion, mixed, authors, diversity
    <2>7. QED BY <1>8, <1>9, <2>2, <2>3, <2>4, <2>5, <2>6
  <1> HIDE DEF replies, recursion, mixed, authors, diversity
  <1>11. /\ replies \in Nat /\ (answers = 0 => replies = 0)
         /\ recursion \in Nat /\ (deepest # 2 => recursion <= 10000)
         /\ mixed \in Nat /\ mixed <= 10000
         /\ authors \in Nat /\ authors <= 10000
         /\ diversity \in Nat /\ diversity <= 10000
    <2> DEFINE a == IF comments >= 1 THEN comments ELSE 1
               b == IF p <= q THEN p ELSE q
               d == IF p + q >= 1 THEN p + q ELSE 1
               e == IF c >= 1 THEN c ELSE 1
    <2>1. a \in Nat /\ b \in Nat /\ d \in Nat /\ e \in Nat /\ b <= d /\ k <= e
            /\ deepest \in Nat /\ (deepest # 2 => deepest <= n) /\ n \in Nat
      BY <1>8
    <2>2. replies = Ratio(answers, a) /\ mixed = Ratio(b, d) /\ diversity = Ratio(k, e)
      BY <1>10
    <2> HIDE DEF a, b, d, e
    <2>3. replies \in Nat /\ (answers = 0 => replies = 0)
      BY <1>8, <2>1, <2>2, RatioBounds
    <2>4. mixed \in Nat /\ mixed <= 10000
      BY <1>8, <2>1, <2>2, RatioBounds
    <2>5. diversity \in Nat /\ diversity <= 10000
      BY <1>8, <2>1, <2>2, RatioBounds
    <2>6. recursion \in Nat /\ (deepest # 2 => recursion <= 10000)
      BY <1>8, <1>10, <2>1, RatioBounds
    <2>7. authors \in Nat /\ authors <= 10000
      BY <1>8, <1>10, <2>1, RatioBounds
    <2>8. QED BY <2>3, <2>4, <2>5, <2>6, <2>7
  <1>12. ASSUME answers = n, comments = 0, deepest = 2
         PROVE  sum >= 800000
    <2>1. replies = 10000 * n
      <3>1. replies = Ratio(n, 1)
        BY <1>8, <1>10, <1>12
      <3>2. QED BY <1>8, <3>1 DEF Ratio, Round, Unit
    <2>2. CASE n = 1
      <3>1. w = 1
        BY <1>8, <2>2
      <3>2. recursion = Ratio(2, 1) /\ authors = Ratio(1, 1)
        BY <1>10, <1>12, <2>2, <3>1
      <3>3. recursion = 20000 /\ authors = 10000
        BY <3>2 DEF Ratio, Round, Unit
      <3>4. QED BY <1>11, <2>1, <2>2, <3>3
    <2>3. CASE n = 2
      <3>1. recursion = Ratio(2, 2)
        BY <1>10, <1>12, <2>3
      <3>2. recursion = 10000
        BY <3>1 DEF Ratio, Round, Unit
      <3>3. QED BY <1>11, <2>1, <2>3, <3>2
    <2>4. CASE n >= 3
      BY <1>8, <1>11, <2>1, <2>4
    <2>5. QED BY <1>8, <2>2, <2>3, <2>4
  <1>13. ASSUME answers = 0, deepest # 2
         PROVE  sum <= 720000
    BY <1>11, <1>13
  <1>14. /\ score \in Nat
         /\ sum >= 800000 => score >= 8000
         /\ sum <= 720000 => score < 8000
    <2>1. sum \in Nat
      BY <1>11
    <2> DEFINE it == score
    <2>2. it = Min({Unit, Round(sum, 100)})
      OBVIOUS
    <2> HIDE DEF it, sum
    <2>3. /\ it \in Nat
          /\ sum >= 800000 => it >= 8000
          /\ sum <= 720000 => it < 8000
      BY ONLY <2>1, <2>2, WeighedShares
    <2>4. QED BY <2>3 DEF it
  <1> HIDE DEF sum
  <1>15. /\ row.score = score /\ row.by[1] = score /\ row.by[2] = n
    <2> HIDE DEF score
    <2>1. QED BY <1>1, <1>8 DEF total
  <1> HIDE DEF score
  <1>16. ASSUME \A m \in Range(ms) : m.root = root => m.depth = 2 PROVE score >= 8000
    <2>1. \A i \in DOMAIN thread : thread[i].depth = 2
      BY <1>2, <1>16
    <2>2. answers = n /\ comments = 0 /\ deepest = 2
      BY <1>3, <2>1 DEF answers, comments, deepest
    <2>3. QED BY <1>12, <1>14, <2>2
  <1>17. ASSUME \A m \in Range(ms) : m.root = root => m.depth # 2 PROVE score < 8000
    <2>1. \A i \in DOMAIN thread : thread[i].depth # 2
      BY <1>2, <1>17
    <2>2. answers = 0 /\ deepest # 2
      BY <1>3, <2>1 DEF answers, deepest
    <2>3. QED BY <1>13, <1>14, <2>2
  <1>18. QED BY <1>8, <1>14, <1>15, <1>16, <1>17

(* The first row a report keeps is one that no other is above.             *)
LEMMA FirstRow ==
    ASSUME NEW rows, IsFiniteSet(rows), rows # {},
           \A r \in rows : r.by[1] \in Int /\ r.by[2] \in Int,
           NEW n \in Nat \ {0}
    PROVE  LET top == Leading(rows, n)
           IN  /\ top # <<>> /\ top[1] \in rows
               /\ \A s \in rows : ~Above(s, top[1])
  <1> DEFINE N == Cardinality(rows)
             ranked == Ranked(rows)
             K == Min({n, Len(ranked)})
             top == Leading(rows, n)
  <1>1. N \in Nat /\ ranked \in [1 .. N -> rows]
          /\ (N > 0 => \A s \in rows : ~Above(s, ranked[1]))
    BY RankedRows
  <1>2. N > 0
    BY <1>1, FS_EmptySet
  <1>3. top = SubSeq(ranked, 1, K)
    BY DEF Leading
  <1> HIDE DEF N, ranked, top
  <1>4. ranked \in Seq(rows) /\ Len(ranked) = N /\ ranked[1] \in rows
    BY <1>1, <1>2
  <1>5. K = IF n <= N THEN n ELSE N
    <2>1. K = Min({n, N})
      BY <1>4
    <2> HIDE DEF K
    <2>2. n \in Int /\ N \in Int
      BY <1>1
    <2>3. QED BY <2>1, <2>2, OfTwo
  <1> HIDE DEF K
  <1>6. K \in 1 .. N
    BY <1>1, <1>2, <1>5
  <1>7. Len(top) = K /\ top[1] = ranked[1]
    BY <1>3, <1>4, <1>6
  <1>8. Len(<<>>) = 0
    OBVIOUS
  <1>9. top # <<>> /\ top[1] \in rows /\ \A s \in rows : ~Above(s, top[1])
    BY <1>1, <1>2, <1>4, <1>6, <1>7, <1>8
  <1>10. QED BY <1>9 DEF top

(* The most controversial thread of a group is critical if some thread is  *)
(* of replies only, and is not if there is no reply.                       *)
(* [build_bi_reports.py:_build_thread_controversy_report]                  *)
LEMMA MostControversial ==
    ASSUME NEW ms, IsSequence(ms), ms # <<>>, \A m \in Range(ms) : m.depth \in {0, 1, 2},
           NEW enr, IsFiniteSet(DOMAIN enr.sentiments), IsFiniteSet(enr.issues)
    PROVE  LET rows == Controversy(ms, Threads(ms), enr)
           IN  /\ rows # <<>> /\ rows[1].score \in Nat
               /\ rows[1].score >= 8000 => \E m \in Range(ms) : m.depth = 2
               /\ \A r \in Range(ms) :
                     (\A m \in Range(ms) : m.root = r.root => m.depth = 2) => rows[1].score >= 8000
  <1> DEFINE roots == {m.root : m \in Range(ms)}
             row == [root \in roots |-> ThreadRow(root, Summary(ThreadOf(root, ms)), ms, enr)]
             table == {row[root] : root \in roots}
             rows == Controversy(ms, Threads(ms), enr)
             Replies(root) == \A m \in Range(ms) : m.root = root => m.depth = 2
  <1>1. rows = Leading(table, TopRows)
    <2> DEFINE threads == Threads(ms)
    <2>1. /\ DOMAIN threads = roots
          /\ \A root \in roots : threads[root].summary = Summary(ThreadOf(root, ms))
      BY DEF Threads
    <2> HIDE DEF threads
    <2>2. {ThreadRow(root, threads[root].summary, ms, enr) : root \in DOMAIN threads} = table
      BY <2>1
    <2> HIDE DEF table
    <2>3. QED BY <2>2 DEF Controversy, threads
  <1>2. ASSUME NEW root \in roots
        PROVE  /\ row[root].score \in Nat /\ row[root].by[1] = row[root].score
               /\ row[root].by[2] \in Nat
               /\ Replies(root) => row[root].score >= 8000
               /\ (\A m \in Range(ms) : m.depth # 2) => row[root].score < 8000
    <2> DEFINE it == ThreadRow(root, Summary(ThreadOf(root, ms)), ms, enr)
    <2>1. row[root] = it /\ \E m \in Range(ms) : m.root = root
      OBVIOUS
    <2>2. it = ThreadRow(root, Summary(ThreadOf(root, ms)), ms, enr)
      OBVIOUS
    <2> HIDE DEF it, row, table, rows
    <2>3. /\ it.score \in Nat /\ it.by[1] = it.score /\ it.by[2] \in Nat
          /\ (\A m \in Range(ms) : m.root = root => m.depth = 2) => it.score >= 8000
          /\ (\A m \in Range(ms) : m.root = root => m.depth # 2) => it.score < 8000
      BY <2>1, <2>2, ThreadScore
    <2>4. QED BY <2>1, <2>3
  <1>3. IsFiniteSet(table) /\ table # {}
    <2>1. IsFiniteSet(Range(ms)) /\ Range(ms) # {}
      <3>1. Range(ms) # {}
        BY DEF IsSequence, Range
      <3>2. QED BY <3>1, FiniteRange
    <2> DEFINE g == [m \in Range(ms) |-> m.root]
    <2>2. DOMAIN g = Range(ms) /\ roots = {g[m] : m \in Range(ms)} /\ roots # {}
      BY <2>1
    <2>3. DOMAIN row = roots
      OBVIOUS
    <2> HIDE DEF g, roots, row
    <2>4. IsFiniteSet(roots)
      BY <2>1, <2>2, FiniteImage
    <2>5. IsFiniteSet(table)
      <3>1. table = {row[root] : root \in roots}
        OBVIOUS
      <3> HIDE DEF table
      <3>2. QED BY <2>3, <2>4, <3>1, FiniteImage
    <2>6. QED BY <2>2, <2>5
  <1> HIDE DEF rows, row
  <1>4. \A t \in table : t.by[1] \in Int /\ t.by[2] \in Int
    BY <1>2
  <1>5. /\ rows # <<>> /\ rows[1] \in table
        /\ \A t \in table : ~Above(t, rows[1])
    <2> HIDE DEF table
    <2>1. QED BY <1>1, <1>3, <1>4, FirstRow, ReportsAssumption
  <1>6. PICK first \in roots : rows[1] = row[first]
    BY <1>5
  <1>7. rows[1].score \in Nat /\ rows[1].by[1] = rows[1].score /\ rows[1].by[2] \in Nat
    BY <1>2, <1>6
  <1>8. ASSUME rows[1].score >= 8000 PROVE \E m \in Range(ms) : m.depth = 2
    <2> SUFFICES ASSUME \A m \in Range(ms) : m.depth # 2 PROVE FALSE
      OBVIOUS
    <2> HIDE DEF roots
    <2>1. row[first].score < 8000
      BY <1>2
    <2>2. QED BY <1>6, <1>7, <1>8, <2>1
  <1>9. ASSUME NEW r \in Range(ms), Replies(r.root) PROVE rows[1].score >= 8000
    <2>1. r.root \in roots /\ row[r.root] \in table
      OBVIOUS
    <2> HIDE DEF Replies, roots, table
    <2>2. /\ row[r.root].score \in Nat /\ row[r.root].by[1] = row[r.root].score
          /\ row[r.root].score >= 8000
      BY <1>2, <1>9, <2>1
    <2>3. ~Above(row[r.root], rows[1])
      BY <1>5, <2>1
    <2>4. ~(row[r.root].by[1] > rows[1].by[1])
      BY <2>3 DEF Above
    <2>5. QED BY <1>7, <2>2, <2>4
  <1>10. QED BY <1>5, <1>7, <1>8, <1>9 DEF rows

(* With its own thresholds the assessment of controversy is critical from  *)
(* 0.8 on, and so is the level then.                                       *)
(* [assess_crisis.py:_controversy_to_severity, _crisis_level]              *)
LEMMA ControversyJudged ==
    ASSUME NEW report, report.threads # <<>>, report.threads[1].score \in Nat,
           NEW config, config.viral = {}
    PROVE  LET crisis == Assess(report, config)
               critical == crisis.signals.controversy = "critical_like_proxy"
           IN  /\ critical <=> report.threads[1].score >= 8000
               /\ critical => crisis.level = "critical"
  <1> DEFINE measured == Measures(report)
             signals == Signals(measured, config)
             score == report.threads[1].score
             crisis == Assess(report, config)
  <1>1. measured.controversy = score
    BY DEF Measures
  <1> HIDE DEF measured
  <1>2. signals.controversy = Severity3(score, [watch |-> 4500, warning |-> 6500, critical |-> 8000],
                                        Spikes)
    BY <1>1 DEF Signals, ControversyThresholds
  <1>3. score \in Nat
    OBVIOUS
  <1> HIDE DEF signals, score
  <1>4. signals.controversy = "critical_like_proxy" <=> score >= 8000
    BY <1>2, <1>3 DEF Severity3, Spikes
  <1>5. crisis.signals = signals /\ crisis.level = CrisisLevel(signals)
    BY DEF Assess, signals, measured
  <1>6. signals.controversy = "critical_like_proxy" => CrisisLevel(signals) = "critical"
    BY DEF CrisisLevel
  <1> HIDE DEF crisis
  <1>7. QED BY <1>4, <1>5, <1>6 DEF crisis, score

(* What a run's enrichment says of sentiments and issues is finite.        *)
LEMMA FiniteEnrichment ==
    ASSUME NEW ms, IsSequence(ms), \A m \in Range(ms) : m.text \in DOMAIN Words,
           NEW o, OntologyType(o)
    PROVE  LET enr == EnrichMentions(ms, o)
           IN  IsFiniteSet(DOMAIN enr.sentiments) /\ IsFiniteSet(enr.issues)
  <1> DEFINE enr == EnrichMentions(ms, o)
             es == EntityFacts(ms, o)
             S == {i \in DOMAIN ms : Words[ms[i].text] # <<>>}
             said == At(ms, S)
  <1>1. enr.sentiments = SentimentFacts(ms) /\ enr.issues = IssueFacts(ms, es, o)
    BY DEF EnrichMentions, Bundle
  <1>2. IsFiniteSet(IssueFacts(ms, es, o))
    <2> HIDE DEF es
    <2>1. QED BY FiniteIssues DEF IsSequence
  <1>3. DOMAIN SentimentFacts(ms) = DOMAIN said
    BY DEF SentimentFacts
  <1>4. IsFiniteSet(DOMAIN said)
    <2>1. S \in SUBSET (DOMAIN ms) /\ ms \in Seq(Range(ms))
      BY DEF IsSequence
    <2> HIDE DEF S
    <2>2. said \in Seq(Range(ms))
      BY <2>1, AtPlaces
    <2> HIDE DEF said
    <2>3. IsSequence(said)
      BY <2>2 DEF IsSequence, Range
    <2>4. QED BY <2>3, FiniteRange
  <1> HIDE DEF enr
  <1>5. IsFiniteSet(DOMAIN enr.sentiments) /\ IsFiniteSet(enr.issues)
    BY <1>1, <1>2, <1>3, <1>4
  <1>6. QED BY <1>5 DEF enr

\* The assessment of a run is that of its report.
CrisisOfReport ==
    /\ DOMAIN facts = FactsKinds
    /\ stage \in 1 .. 10
    /\ \/ facts.crisis = <<>>
       \/ stage > 9 /\ facts.crisis = <<Assess(facts.report[1], run.config)>>
                    /\ facts.report # <<>>

(* Nothing runs after the assessment.  [run_pipeline.py]                   *)
LEMMA CrisisStays == Spec => []CrisisOfReport
  <1>1. Init => CrisisOfReport
    <2> SUFFICES ASSUME Init PROVE CrisisOfReport
      OBVIOUS
    <2>1. stage \in 1 .. 10
      BY StagesAdvance DEF Init
    <2>2. QED BY <2>1 DEF Init, NoFacts, FactsKinds, CrisisOfReport
  <1>2. CrisisOfReport /\ [Next]_vars => CrisisOfReport'
    <2> SUFFICES ASSUME CrisisOfReport, [Next]_vars PROVE CrisisOfReport'
      OBVIOUS
    <2> USE DEF FactsKinds
    <2>1. ASSUME NEW name, Runs(name)
          PROVE  /\ stage \in 1 .. 9 /\ Order[stage] = name
                 /\ NextStage(run.enabled, stage + 1) \in stage + 1 .. 10
      <3>1. Len(Order) = 9
        BY DEF Order
      <3>2. stage \in 1 .. 9 /\ stage + 1 \in 1 .. 10 /\ Order[stage] = name
        BY <2>1, <3>1 DEF Runs, Running, CrisisOfReport
      <3>3. QED BY <3>2, StagesAdvance
    <2>2. ASSUME \E name : Runs(name), NEW new, Finish(new), DOMAIN new = FactsKinds,
                 new.crisis = facts.crisis
          PROVE  CrisisOfReport'
      <3>1. stage \in 1 .. 9 /\ stage' \in 1 .. 10 /\ facts' = new
        BY <2>1, <2>2 DEF Finish
      <3>2. facts.crisis = <<>>
        BY <3>1 DEF CrisisOfReport
      <3>3. QED BY <2>2, <3>1, <3>2 DEF CrisisOfReport
    <2>3. CASE WithoutMentions
      BY <2>2, <2>3 DEF WithoutMentions, CrisisOfReport
    <2>4. CASE NormalizationStage
      BY <2>2, <2>4 DEF NormalizationStage, CrisisOfReport
    <2>5. CASE DedupStage
      BY <2>2, <2>5 DEF DedupStage, CrisisOfReport
    <2>6. CASE SpamStage
      <3>1. CASE Raises(facts.mentions)
        BY <2>6, <3>1 DEF SpamStage, Raise, CrisisOfReport
      <3>2. CASE ~Raises(facts.mentions)
        BY <2>2, <2>6, <3>2 DEF SpamStage, CrisisOfReport
      <3>3. QED BY <3>1, <3>2
    <2>7. CASE ThreadsStage
      BY <2>2, <2>7 DEF ThreadsStage, CrisisOfReport
    <2>8. CASE NlpStage
      <3> DEFINE new == [facts EXCEPT !.analysed = NlpInput,
                                      !.nlp = EnrichBatch(NlpInput, run.failing)]
      <3>1. Finish(new) /\ \E name : Runs(name)
        BY <2>8 DEF NlpStage
      <3>2. DOMAIN new = FactsKinds /\ new.crisis = facts.crisis
        BY DEF CrisisOfReport
      <3> HIDE DEF new
      <3>3. QED BY <2>2, <3>1, <3>2
    <2>9. CASE EnrichmentStage
      <3> DEFINE new == [facts EXCEPT !.enrichment =
                                          <<EnrichMentions(facts.mentions, run.ontology)>>]
      <3>1. Finish(new) /\ \E name : Runs(name)
        BY <2>9 DEF EnrichmentStage
      <3>2. DOMAIN new = FactsKinds /\ new.crisis = facts.crisis
        BY DEF CrisisOfReport
      <3> HIDE DEF new
      <3>3. QED BY <2>2, <3>1, <3>2
    <2>10. CASE ReviewStage
      BY <2>2, <2>10 DEF ReviewStage, CrisisOfReport
    <2>11. CASE ReportingStage
      <3>1. PICK new : /\ Finish(new) /\ \E name : Runs(name)
                       /\ DOMAIN new = FactsKinds /\ new.crisis = facts.crisis
        BY <2>11 DEF ReportingStage, CrisisOfReport
      <3>2. QED BY <2>2, <3>1
    <2>12. CASE CrisisStage
      <3> DEFINE crisis == IF facts.report = <<>> THEN <<>>
                           ELSE <<Assess(facts.report[1], run.config)>>
      <3>1. stage = 9 /\ stage' \in 10 .. 10
        <4>1. \A n \in 1 .. 9 : Order[n] = "crisis" => n = 9
          BY DEF Order
        <4>2. QED BY <2>1, <2>12, <4>1 DEF CrisisStage, Finish
      <3>2. facts' = [facts EXCEPT !.crisis = crisis] /\ run' = run
        BY <2>12 DEF CrisisStage, Finish
      <3> HIDE DEF crisis
      <3>3. facts'.crisis = crisis /\ facts'.report = facts.report /\ DOMAIN facts' = FactsKinds
        BY <3>2 DEF CrisisOfReport
      <3>4. stage' \in 1 .. 10 /\ stage' > 9
        BY <3>1
      <3>5. \/ facts'.crisis = <<>>
            \/ /\ facts'.crisis = <<Assess(facts'.report[1], run'.config)>>
               /\ facts'.report # <<>>
        BY <3>2, <3>3 DEF crisis
      <3>6. QED BY ONLY <3>3, <3>4, <3>5 DEF CrisisOfReport
    <2>13. CASE UNCHANGED vars
      BY <2>13 DEF vars, CrisisOfReport
    <2>14. QED BY <2>3, <2>4, <2>5, <2>6, <2>7, <2>8, <2>9, <2>10, <2>11, <2>12, <2>13
               DEF Next
  <1>3. QED BY <1>1, <1>2, PTL DEF Spec

(***************************************************************************)
(* In every run whose project does not move the threshold, a critical      *)
(* controversy holds a reply, and a thread of replies only makes for one,  *)
(* and for a crisis, whatever the other threads, the rows a report keeps,  *)
(* what is said and who says it.  The score of such a thread does not      *)
(* depend on them, and no thread without replies comes near it.            *)
(***************************************************************************)
THEOREM RepliesAreControversy == Spec => []RepliesMeanControversy
  <1>1. MentionsOfRecords /\ ReportOfFacts /\ CrisisOfReport => RepliesMeanControversy
    <2> DEFINE ms == facts.mentions
               enr == EnrichmentRead
               rows == Controversy(ms, Threads(ms), enr)
               report == facts.report[1]
               crisis == facts.crisis[1]
               critical == crisis.signals.controversy = "critical_like_proxy"
    <2> SUFFICES ASSUME MentionsOfRecords, ReportOfFacts, CrisisOfReport,
                        facts.crisis # <<>>, facts.threads # <<>>, run.config.viral = {}
                 PROVE  /\ critical => \E m \in Range(ms) : m.depth = 2
                        /\ \A r \in Range(ms) :
                              (\A m \in Range(ms) : m.root = r.root => m.depth = 2) =>
                                  critical /\ crisis.level = "critical"
      BY DEF RepliesMeanControversy
    <2>1. /\ facts.crisis = <<Assess(report, run.config)>>
          /\ facts.report = <<Report(ms, facts.threads, enr)>>
          /\ facts.threads = Threads(ms)
      BY DEF CrisisOfReport, ReportOfFacts, MentionsOfRecords
    <2>2. crisis = Assess(report, run.config) /\ report = Report(ms, Threads(ms), enr)
      BY <2>1
    <2>3. IsSequence(ms) /\ OntologyType(run.ontology)
      BY DEF MentionsOfRecords, ScenarioType, IsSequence
    <2>4. ms # <<>>
      <3> SUFFICES ASSUME ms = <<>> PROVE Threads(ms) = <<>>
        BY <2>1
      <3>1. {m.root : m \in Range(ms)} = {}
        BY DEF Range
      <3>2. QED BY <3>1 DEF Threads
    <2>5. \A m \in Range(ms) : m.depth \in {0, 1, 2} /\ m.text \in DOMAIN Words
      <3> SUFFICES ASSUME NEW m \in Range(ms)
                   PROVE  m.depth \in {0, 1, 2} /\ m.text \in DOMAIN Words
        OBVIOUS
      <3>1. PICK r \in Range(run.records) : Stems(m, r)
        BY DEF MentionsOfRecords, Range
      <3>2. r \in Records
        BY DEF MentionsOfRecords, ScenarioType, Range
      <3>3. r.text \in DOMAIN Opinions
        BY <3>2 DEF Records
      <3>4. m.text \in DOMAIN Words
        BY <3>1, <3>3, PipelineAssumption DEF Stems
      <3>5. QED BY <3>1, <3>2, <3>4, RecordTypes
    <2>6. IsFiniteSet(DOMAIN enr.sentiments) /\ IsFiniteSet(enr.issues)
      <3> DEFINE made == EnrichMentions(ms, run.ontology)
      <3>1. enr = NoEnrichment \/ enr = made
        BY DEF ReportOfFacts, EnrichmentRead
      <3>2. IsFiniteSet(DOMAIN NoEnrichment.sentiments) /\ IsFiniteSet(NoEnrichment.issues)
        <4>1. DOMAIN NoEnrichment.sentiments = {} /\ NoEnrichment.issues = {}
          BY DEF NoEnrichment
        <4>2. QED BY <4>1, FS_EmptySet
      <3> HIDE DEF ms
      <3>3. IsFiniteSet(DOMAIN made.sentiments) /\ IsFiniteSet(made.issues)
        BY <2>3, <2>5, FiniteEnrichment
      <3> HIDE DEF made, enr
      <3>4. QED BY <3>1, <3>2, <3>3
    <2>7. report.threads = rows
      <3> DEFINE halves == Halves(ms)
                 sov == SovReport(ms, enr, halves)
                 buzz == BuzzReport(ms, enr, halves)
                 issues == TopIssues(enr, halves)
                 breakdown == Breakdown(ms, enr, rows)
      <3>1. report = Reported(sov, buzz, issues, rows, breakdown)
        BY <2>2 DEF Report
      <3> HIDE DEF sov, buzz, issues, rows, breakdown, report
      <3>2. QED BY <3>1 DEF Reported
    <2> HIDE DEF ms, enr
    <2>8. /\ rows # <<>> /\ rows[1].score \in Nat
          /\ rows[1].score >= 8000 => \E m \in Range(ms) : m.depth = 2
          /\ \A r \in Range(ms) :
                (\A m \in Range(ms) : m.root = r.root => m.depth = 2) => rows[1].score >= 8000
      BY <2>3, <2>4, <2>5, <2>6, MostControversial
    <2> HIDE DEF rows, report, crisis
    <2>9. /\ critical <=> rows[1].score >= 8000
          /\ critical => crisis.level = "critical"
      BY <2>2, <2>7, <2>8, ControversyJudged
    <2> HIDE DEF critical
    <2>10. QED BY <2>8, <2>9
  <1>2. QED BY <1>1, MentionsStay, ReportStays, CrisisStays, PTL
-----------------------------------------------------------------------------
\* The target of a mention.

Names(f, m) == f.mention = m.id /\ f.entity # Unresolved
HasTarget(s, m) == \E i \in DOMAIN s : Names(s[i], m)
IsFirst(i, s, m) == /\ i \in DOMAIN s /\ Names(s[i], m)
                    /\ \A j \in DOMAIN s : j < i => ~Names(s[j], m)

(* The target of a mention is the first entity that a fact names in it.    *)
(* [semantic_enricher.py:_best_target]                                     *)
LEMMA TargetIsFirst ==
    ASSUME NEW s, IsSequence(s), NEW m
    PROVE  /\ ~HasTarget(s, m) => BestTarget(m, s) = NoTarget
           /\ \A i : IsFirst(i, s, m) => BestTarget(m, s) = s[i].entity
           /\ HasTarget(s, m) => \E i : IsFirst(i, s, m)
  <1> DEFINE P == {i \in DOMAIN s : Names(s[i], m)}
             N == Cardinality(P)
  <1>1. Targets(m, s) = At(s, P)
    BY DEF Targets, Names
  <1>2. P \in SUBSET (DOMAIN s) /\ P \in SUBSET Nat /\ IsFiniteSet(P)
    <2>1. P \in SUBSET (DOMAIN s) /\ s \in Seq(Range(s))
      BY DEF IsSequence
    <2> HIDE DEF P
    <2>2. QED BY <2>1, PlacesFinite
  <1>3. ASSUME ~HasTarget(s, m) PROVE BestTarget(m, s) = NoTarget
    <2>1. P = {}
      BY <1>3 DEF HasTarget
    <2>2. Cardinality({}) = 0
      BY FS_EmptySet
    <2>3. At(s, {}) = <<>>
      BY <2>2 DEF At
    <2>4. QED BY <1>1, <2>1, <2>3 DEF BestTarget
  <1>4. ASSUME NEW i, IsFirst(i, s, m) PROVE BestTarget(m, s) = s[i].entity
    <2>1. i \in P /\ \A j \in P : ~(j < i)
      BY <1>4 DEF IsFirst
    <2> HIDE DEF P, N
    <2>2. /\ N \in Nat /\ (\A n \in 1 .. N : Nth(P, n) \in P)
          /\ \E n \in 1 .. N : Nth(P, n) = i
          /\ \A k, n \in 1 .. N : k < n => Nth(P, k) < Nth(P, n)
      BY <1>2, <2>1, PlacesInOrder DEF N
    <2>3. PICK n \in 1 .. N : Nth(P, n) = i
      BY <2>2
    <2>4. 1 \in 1 .. N
      BY <2>2, <2>3
    <2>5. n = 1
      <3> SUFFICES ASSUME n # 1 PROVE FALSE
        OBVIOUS
      <3>1. 1 < n
        BY <2>2, <2>3
      <3>2. Nth(P, 1) < i /\ Nth(P, 1) \in P
        BY <2>2, <2>3, <2>4, <3>1
      <3>3. QED BY <2>1, <3>2
    <2>6. DOMAIN At(s, P) = 1 .. N /\ At(s, P)[1] = s[i] /\ Len(At(s, P)) = N
      <3>1. s \in Seq(Range(s)) /\ P \in SUBSET (DOMAIN s)
        BY <1>2 DEF IsSequence
      <3>2. DOMAIN At(s, P) = 1 .. N /\ At(s, P)[1] = s[Nth(P, 1)] /\ Len(At(s, P)) = N
        BY <2>4, <3>1, AtPlaces DEF N
      <3>3. QED BY <2>3, <2>5, <3>2
    <2>7. At(s, P) # <<>>
      BY <2>4, <2>6
    <2>8. QED BY <1>1, <2>6, <2>7 DEF BestTarget
  <1>5. ASSUME HasTarget(s, m) PROVE \E i : IsFirst(i, s, m)
    <2>1. P # {}
      BY <1>5 DEF HasTarget
    <2>2. PICK i \in P : \A j \in P : i <= j
      <3> HIDE DEF P
      <3>1. QED BY <1>2, <2>1, LeastNat
    <2>3. ASSUME NEW j \in DOMAIN s, j < i, Names(s[j], m) PROVE FALSE
      <3>1. j \in P
        BY <2>3
      <3>2. i <= j /\ i \in Nat /\ j \in Nat
        BY <1>2, <2>2, <3>1
      <3>3. QED BY <2>3, <3>2
    <2>4. QED BY <2>2, <2>3 DEF IsFirst
  <1>6. QED BY <1>3, <1>4, <1>5

(* The target of a mention is looked for in the facts before another's.    *)
LEMMA TargetOfTwo ==
    ASSUME NEW F, NEW s \in Seq(F), NEW t \in Seq(F), NEW m
    PROVE  /\ HasTarget(s \o t, m) <=> HasTarget(s, m) \/ HasTarget(t, m)
           /\ HasTarget(s, m) => BestTarget(m, s \o t) = BestTarget(m, s)
           /\ ~HasTarget(s, m) => BestTarget(m, s \o t) = BestTarget(m, t)
  <1> DEFINE both == s \o t
             L == Len(s)
  <1>1. /\ L \in Nat /\ Len(t) \in Nat /\ both \in Seq(F) /\ DOMAIN both = 1 .. L + Len(t)
        /\ DOMAIN s = 1 .. L /\ DOMAIN t = 1 .. Len(t)
        /\ \A i \in 1 .. L : both[i] = s[i]
        /\ \A i \in 1 .. Len(t) : both[L + i] = t[i]
    OBVIOUS
  <1>2. IsSequence(s) /\ IsSequence(t) /\ IsSequence(both)
    <2>1. IsSequence(s)
      BY DEF IsSequence, Range
    <2>2. IsSequence(t)
      BY DEF IsSequence, Range
    <2> HIDE DEF both
    <2>3. IsSequence(both)
      BY <1>1 DEF IsSequence, Range
    <2>4. QED BY <2>1, <2>2, <2>3
  <1> HIDE DEF both, L
  <1>3. HasTarget(both, m) <=> HasTarget(s, m) \/ HasTarget(t, m)
    <2>1. HasTarget(s, m) => HasTarget(both, m)
      BY <1>1 DEF HasTarget
    <2>2. ASSUME NEW i \in DOMAIN t, Names(t[i], m) PROVE HasTarget(both, m)
      <3>1. L + i \in DOMAIN both /\ Names(both[L + i], m)
        BY <1>1, <2>2
      <3>2. QED BY <3>1 DEF HasTarget
    <2>3. ASSUME NEW i \in DOMAIN both, Names(both[i], m)
          PROVE  HasTarget(s, m) \/ HasTarget(t, m)
      <3>1. CASE i <= L
        BY <1>1, <2>3, <3>1 DEF HasTarget
      <3>2. CASE ~(i <= L)
        <4>1. i - L \in DOMAIN t /\ L + (i - L) = i
          BY <1>1, <3>2
        <4>2. t[i - L] = both[i]
          BY <1>1, <4>1
        <4>3. QED BY <2>3, <4>1, <4>2 DEF HasTarget
      <3>3. QED BY <3>1, <3>2
    <2>4. QED BY <2>1, <2>2, <2>3 DEF HasTarget
  <1>4. ASSUME HasTarget(s, m) PROVE BestTarget(m, both) = BestTarget(m, s)
    <2>1. PICK i : IsFirst(i, s, m)
      BY <1>2, <1>4, TargetIsFirst
    <2>2. IsFirst(i, both, m)
      <3>1. i \in 1 .. L /\ both[i] = s[i] /\ i \in DOMAIN both
        BY <1>1, <2>1 DEF IsFirst
      <3>2. ASSUME NEW j \in DOMAIN both, j < i PROVE ~Names(both[j], m)
        <4>1. j \in DOMAIN s /\ both[j] = s[j]
          BY <1>1, <3>1, <3>2
        <4>2. QED BY <2>1, <3>2, <4>1 DEF IsFirst
      <3>3. QED BY <2>1, <3>1, <3>2 DEF IsFirst
    <2>3. both[i] = s[i]
      BY <1>1, <2>1 DEF IsFirst
    <2>4. QED BY <1>2, <2>1, <2>2, <2>3, TargetIsFirst
  <1>5. ASSUME ~HasTarget(s, m) PROVE BestTarget(m, both) = BestTarget(m, t)
    <2>1. CASE HasTarget(t, m)
      <3>1. PICK i : IsFirst(i, t, m)
        BY <1>2, <2>1, TargetIsFirst
      <3>2. i \in 1 .. Len(t) /\ both[L + i] = t[i] /\ L + i \in DOMAIN both
        BY <1>1, <3>1 DEF IsFirst
      <3>3. ASSUME NEW j \in DOMAIN both, j < L + i PROVE ~Names(both[j], m)
        <4>1. CASE j <= L
          <5>1. j \in DOMAIN s /\ both[j] = s[j]
            BY <1>1, <4>1
          <5>2. QED BY <1>5, <5>1 DEF HasTarget
        <4>2. CASE ~(j <= L)
          <5>1. j - L \in DOMAIN t /\ j - L < i /\ L + (j - L) = j
            BY <1>1, <3>2, <3>3, <4>2
          <5>2. t[j - L] = both[j]
            BY <1>1, <5>1
          <5>3. QED BY <3>1, <5>1, <5>2 DEF IsFirst
        <4>3. QED BY <4>1, <4>2
      <3>4. IsFirst(L + i, both, m)
        BY <3>1, <3>2, <3>3 DEF IsFirst
      <3>5. QED BY <1>2, <3>1, <3>2, <3>4, TargetIsFirst
    <2>2. CASE ~HasTarget(t, m)
      BY <1>2, <1>3, <1>5, <2>2, TargetIsFirst
    <2>3. QED BY <2>1, <2>2
  <1>6. QED BY <1>3, <1>4, <1>5 DEF both

(* Clusters of unknown names do not change what is named.                  *)
LEMMA TargetWithClusters ==
    ASSUME NEW s, IsSequence(s), NEW m, \A f \in Range(s) : DOMAIN f = FactFields
    PROVE  BestTarget(m, WithClusters(s)) = BestTarget(m, s)
  <1> DEFINE made == WithClusters(s)
  <1>1. /\ DOMAIN made = DOMAIN s
        /\ made = [i \in DOMAIN s |-> made[i]]
        /\ \A i \in DOMAIN s : \/ made[i] = s[i]
                               \/ /\ s[i].entity = Unresolved
                                  /\ \E c : made[i] = [s[i] EXCEPT !.cluster = c]
    BY DEF WithClusters
  <1> HIDE DEF made
  <1>2. IsSequence(made)
    BY <1>1 DEF IsSequence, Range
  <1>3. \A i \in DOMAIN s : made[i].mention = s[i].mention /\ made[i].entity = s[i].entity
    <2> SUFFICES ASSUME NEW i \in DOMAIN s
                 PROVE  made[i].mention = s[i].mention /\ made[i].entity = s[i].entity
      OBVIOUS
    <2>1. DOMAIN s[i] = FactFields
      BY DEF Range
    <2>2. ASSUME NEW c, made[i] = [s[i] EXCEPT !.cluster = c]
          PROVE  made[i].mention = s[i].mention /\ made[i].entity = s[i].entity
      BY <2>1, <2>2 DEF FactFields
    <2>3. QED BY <1>1, <2>2
  <1>4. \A i \in DOMAIN s : Names(made[i], m) <=> Names(s[i], m)
    BY <1>3 DEF Names
  <1>5. HasTarget(made, m) <=> HasTarget(s, m)
    BY <1>1, <1>4 DEF HasTarget
  <1>6. \A i : IsFirst(i, made, m) <=> IsFirst(i, s, m)
    BY <1>1, <1>4 DEF IsFirst
  <1>7. CASE HasTarget(s, m)
    <2>1. PICK i : IsFirst(i, s, m)
      BY <1>7, TargetIsFirst
    <2>2. BestTarget(m, s) = s[i].entity /\ BestTarget(m, made) = made[i].entity
      BY <1>2, <1>6, <2>1, TargetIsFirst
    <2>3. QED BY <1>3, <2>1, <2>2 DEF IsFirst, made
  <1>8. CASE ~HasTarget(s, m)
    BY <1>2, <1>5, <1>8, TargetIsFirst DEF made
  <1>9. QED BY <1>7, <1>8

(* A mention's target is the one it has alone: what other mentions name    *)
(* does not count, and copies of it name the same.                         *)
(* [entity_enricher.py:enrich, semantic_enricher.py:_best_target]          *)
LEMMA OwnTarget ==
    ASSUME NEW ms, ms \in Seq(Range(ms)), NEW o, OntologyType(o),
           \A x \in Range(ms) : x.text \in DOMAIN Words,
           NEW m \in Range(ms), \A x \in Range(ms) : x.id = m.id => x.text = m.text
    PROVE  BestTarget(m, EntityFacts(ms, o)) = BestTarget(m, EntityFactsOf(m, o))
  <1> DEFINE N == Len(ms)
             own == EntityFactsOf(m, o)
             of(n) == EntityFactsOf(ms[n], o)
             F == FoundIn(ms, o)
             Met(n) == \E k \in 1 .. n : ms[k].id = m.id
  <1>1. PICK upTo : InTurn(upTo, ms, o)
    BY EntitiesGathered
  <1>2. /\ N \in Nat /\ DOMAIN ms = 1 .. N
        /\ \A n \in 1 .. N : ms[n] \in Range(ms)
    BY DEF Range
  <1>3. \A n \in 1 .. N : /\ of(n) \in Seq(F)
                          /\ \A f \in Range(of(n)) : OfMention(f, ms[n])
    <2> SUFFICES ASSUME NEW n \in 1 .. N
                 PROVE  of(n) \in Seq(F) /\ \A f \in Range(of(n)) : OfMention(f, ms[n])
      OBVIOUS
    <2> HIDE DEF N
    <2>1. /\ of(n) \in Seq(Range(of(n)))
          /\ \A f \in Range(of(n)) : OfMention(f, ms[n])
      BY <1>2, FactsOfMention
    <2>2. Range(of(n)) \in SUBSET F
      BY DEF FoundIn, N
    <2> HIDE DEF of, F
    <2>3. QED BY <2>1, <2>2
  <1>4. \A n \in 1 .. N : ms[n].id = m.id => of(n) = own
    BY <1>2 DEF EntityFactsOf
  <1>5. \A n \in 1 .. N : ms[n].id # m.id => ~HasTarget(of(n), m)
    <2> SUFFICES ASSUME NEW n \in 1 .. N, ms[n].id # m.id,
                        NEW i \in DOMAIN of(n), Names(of(n)[i], m)
                 PROVE  FALSE
      BY DEF HasTarget
    <2> HIDE DEF of
    <2>1. OfMention(of(n)[i], ms[n])
      BY <1>3 DEF Range
    <2>2. QED BY <2>1 DEF OfMention, Names
  <1>6. /\ upTo[0] = <<>> /\ EntityFacts(ms, o) = WithClusters(upTo[N])
        /\ \A n \in 0 .. N : upTo[n] \in Seq(F)
        /\ \A n \in 1 .. N : upTo[n] = upTo[n - 1] \o of(n)
    BY <1>1 DEF InTurn
  <1> HIDE DEF N, own, of, F
  <1> DEFINE Right(n) == /\ HasTarget(upTo[n], m) <=> Met(n) /\ HasTarget(own, m)
                         /\ HasTarget(upTo[n], m) => BestTarget(m, upTo[n]) = BestTarget(m, own)
             S == {n \in 0 .. N : Right(n)}
  <1>7. 0 \in S
    <2>1. ~HasTarget(<<>>, m)
      BY DEF HasTarget
    <2>2. ~Met(0) /\ 0 \in 0 .. N
      BY <1>2
    <2> HIDE DEF Met
    <2>3. QED BY <1>6, <2>1, <2>2
  <1>8. ASSUME NEW n \in 1 .. N, n - 1 \in S PROVE n \in S
    <2>1. n \in 0 .. N /\ n - 1 \in 0 .. N /\ Right(n - 1)
      BY <1>2, <1>8
    <2>2. Met(n) <=> Met(n - 1) \/ ms[n].id = m.id
      <3>1. \A k : k \in 1 .. n <=> k \in 1 .. n - 1 \/ k = n
        BY <1>2
      <3>2. QED BY <3>1
    <2> DEFINE s == upTo[n - 1]
               t == of(n)
    <2>3. s \in Seq(F) /\ t \in Seq(F) /\ upTo[n] = s \o t
      BY <1>3, <1>6, <2>1
    <2>4. Right(n - 1) <=> /\ HasTarget(s, m) <=> Met(n - 1) /\ HasTarget(own, m)
                           /\ HasTarget(s, m) => BestTarget(m, s) = BestTarget(m, own)
      OBVIOUS
    <2> HIDE DEF s, t, Met
    <2>5. /\ HasTarget(s \o t, m) <=> HasTarget(s, m) \/ HasTarget(t, m)
          /\ HasTarget(s, m) => BestTarget(m, s \o t) = BestTarget(m, s)
          /\ ~HasTarget(s, m) => BestTarget(m, s \o t) = BestTarget(m, t)
      BY <2>3, TargetOfTwo
    <2>6. CASE ms[n].id = m.id
      <3>1. t = own
        BY <1>4, <2>6 DEF t
      <3>2. Right(n)
        BY <2>1, <2>2, <2>3, <2>4, <2>5, <2>6, <3>1
      <3>3. QED BY <2>1, <3>2
    <2>7. CASE ms[n].id # m.id
      <3>1. ~HasTarget(t, m)
        BY <1>5, <2>7 DEF t
      <3>2. Right(n)
        BY <2>1, <2>2, <2>3, <2>4, <2>5, <2>7, <3>1
      <3>3. QED BY <2>1, <3>2
    <2>8. QED BY <2>6, <2>7
  <1>9. Right(N)
    <2>1. \A n \in 0 .. N : n \in S
      <3> HIDE DEF S
      <3>1. QED BY <1>2, <1>7, <1>8, StepByStep
    <2>2. N \in 0 .. N
      BY <1>2
    <2> HIDE DEF Right
    <2>3. QED BY <2>1, <2>2
  <1>10. Met(N)
    BY <1>2 DEF Range
  <1>11. IsSequence(own) /\ IsSequence(upTo[N])
    <2>1. N \in 0 .. N
      BY <1>2
    <2>2. upTo[N] \in Seq(F)
      BY <1>6, <2>1
    <2>3. IsSequence(upTo[N])
      BY <2>2 DEF IsSequence, Range
    <2>4. own \in Seq(Range(own))
      BY FactsOfMention DEF own
    <2>5. QED BY <2>3, <2>4 DEF IsSequence
  <1> HIDE DEF Met
  <1>12. BestTarget(m, upTo[N]) = BestTarget(m, own)
    BY <1>9, <1>10, <1>11, TargetIsFirst
  <1>13. \A f \in Range(upTo[N]) : DOMAIN f = FactFields
    <2>1. N \in 0 .. N
      BY <1>2
    <2>2. upTo[N] \in Seq(F)
      BY <1>6, <2>1
    <2>3. \A f \in F : DOMAIN f = FactFields
      BY <1>3 DEF F, FoundIn, N, of, OfMention
    <2>4. QED BY <2>2, <2>3 DEF Range
  <1>14. BestTarget(m, WithClusters(upTo[N])) = BestTarget(m, upTo[N])
    BY <1>11, <1>13, TargetWithClusters
  <1>15. QED BY <1>6, <1>12, <1>14 DEF own
-----------------------------------------------------------------------------
\* A thread on its own.

\* Its mentions, the other way round: at which places of the batch they are.
Turned(at, root, ms, thread) ==
    /\ IsSequence(thread)
    /\ DOMAIN at = DOMAIN thread
    /\ {at[j] : j \in DOMAIN thread} = {i \in DOMAIN ms : ms[i].root = root}
    /\ \A i, j \in DOMAIN thread : at[i] = at[j] => i = j
    /\ \A j \in DOMAIN thread : thread[j] = ms[at[j]]

(* A thread turned round has each of its mentions at one place.            *)
(* [build_threads.py:build_threads]                                        *)
LEMMA ThreadTurned ==
    ASSUME NEW ms, IsSequence(ms), NEW root
    PROVE  \E at : Turned(at, root, ms, Reverse(ThreadOf(root, ms)))
  <1> DEFINE S == {i \in DOMAIN ms : ms[i].root = root}
             T == At(ms, S)
             N == Cardinality(S)
             thread == Reverse(T)
             at == [j \in 1 .. N |-> Nth(S, N - j + 1)]
  <1>1. S \in SUBSET (DOMAIN ms) /\ ThreadOf(root, ms) = T
    BY DEF ThreadOf
  <1>2. ms \in Seq(Range(ms)) /\ S \in SUBSET Nat /\ IsFiniteSet(S)
    <2>1. ms \in Seq(Range(ms))
      BY DEF IsSequence
    <2> HIDE DEF S
    <2>2. QED BY <1>1, <2>1, PlacesFinite
  <1> HIDE DEF S
  <1>3. /\ T \in Seq(Range(ms)) /\ Len(T) = N /\ DOMAIN T = 1 .. N
        /\ \A n \in 1 .. N : T[n] = ms[Nth(S, n)]
    BY <1>1, <1>2, AtPlaces
  <1>4. /\ N \in Nat
        /\ \A n \in 1 .. N : Nth(S, n) \in S
        /\ \A i \in S : \E n \in 1 .. N : Nth(S, n) = i
        /\ \A m, n \in 1 .. N : m < n => Nth(S, m) < Nth(S, n)
    BY <1>2, PlacesInOrder
  <1> HIDE DEF T, N
  <1>5. thread = [j \in 1 .. N |-> T[(N - j) + 1]]
    BY <1>3 DEF Reverse
  <1>6. \A j \in 1 .. N : N - j + 1 \in 1 .. N
    BY <1>4
  <1>7. \A j \in 1 .. N : at[j] \in S /\ thread[j] = ms[at[j]]
    BY <1>3, <1>4, <1>5, <1>6
  <1>8. DOMAIN thread = 1 .. N /\ DOMAIN at = 1 .. N
    BY <1>5
  <1>9. thread \in Seq(Range(thread))
    <2>1. \A j \in 1 .. N : thread[j] \in Range(thread)
      BY <1>8 DEF Range
    <2>2. thread = [j \in 1 .. N |-> thread[j]]
      BY <1>5
    <2> HIDE DEF thread
    <2>3. QED BY <1>4, <2>1, <2>2
  <1>10. \A i \in S : \E j \in 1 .. N : at[j] = i
    <2> SUFFICES ASSUME NEW i \in S PROVE \E j \in 1 .. N : at[j] = i
      OBVIOUS
    <2>1. PICK n \in 1 .. N : Nth(S, n) = i
      BY <1>4
    <2>2. N - n + 1 \in 1 .. N /\ N - (N - n + 1) + 1 = n
      BY <1>4
    <2>3. at[N - n + 1] = Nth(S, N - (N - n + 1) + 1)
      BY <2>2
    <2>4. QED BY <2>1, <2>2, <2>3
  <1>11. \A i, j \in 1 .. N : at[i] = at[j] => i = j
    <2> SUFFICES ASSUME NEW i \in 1 .. N, NEW j \in 1 .. N, i < j PROVE at[i] # at[j]
      <3>1. \A i, j \in 1 .. N : i = j \/ i < j \/ j < i
        BY <1>4
      <3> HIDE DEF at
      <3>2. QED BY <3>1
    <2>1. N - j + 1 < N - i + 1 /\ N - j + 1 \in 1 .. N /\ N - i + 1 \in 1 .. N
      BY <1>4
    <2>2. Nth(S, N - j + 1) < Nth(S, N - i + 1)
      BY <1>4, <2>1
    <2>3. Nth(S, N - i + 1) \in Nat
      BY <1>2, <1>4, <2>1
    <2>4. at[i] = Nth(S, N - i + 1) /\ at[j] = Nth(S, N - j + 1)
      OBVIOUS
    <2> HIDE DEF at
    <2>5. QED BY <2>2, <2>3, <2>4
  <1>12. {at[j] : j \in 1 .. N} = S
    <2> HIDE DEF at
    <2>1. QED BY <1>7, <1>10
  <1> HIDE DEF at, thread
  <1>13. Turned(at, root, ms, thread)
    BY <1>7, <1>8, <1>9, <1>11, <1>12 DEF Turned, IsSequence, S
  <1>14. QED BY <1>1, <1>13 DEF thread

-----------------------------------------------------------------------------
\* Hypotheses of other places.

\* re takes rows to rows that differ in their place, one to one.
Moves(re, rows, moved) ==
    /\ DOMAIN re = rows
    /\ moved = {re[h] : h \in rows}
    /\ \A g, h \in rows : re[g] = re[h] => g = h
    /\ \A h \in rows : \E n : re[h] = [h EXCEPT !.place = n]

\* Rows as they are at a place, and at another.
Placed(rows, F, j) ==
    \A h \in rows : DOMAIN h = F /\ h = [k \in F |-> h[k]] /\ h.place = j
Replaced(rows, i) == {[h EXCEPT !.place = i] : h \in rows}

\* The rows of the places in D have the fields F, and A has them at others.
Rowed(D, at, F, A, B) ==
    /\ \A i, j \in D : at[i] = at[j] => i = j
    /\ "place" \in F
    /\ \A j \in D : Placed(B[j], F, j) /\ A[at[j]] = Replaced(B[j], at[j])
AllOf(D, B) == UNION {B[j] : j \in D}
AllAt(D, at, A) == UNION {A[at[j]] : j \in D}

(* Rows of places that are renamed one to one are renamed one to one.      *)
LEMMA RowsMove ==
    ASSUME NEW D, NEW at, NEW F, NEW A, NEW B, Rowed(D, at, F, A, B),
           NEW rows, rows = AllOf(D, B), NEW moved, moved = AllAt(D, at, A)
    PROVE  \E re : Moves(re, rows, moved)
  <1> DEFINE re == [h \in rows |-> [h EXCEPT !.place = at[h.place]]]
  <1>0. /\ \A i, j \in D : at[i] = at[j] => i = j
        /\ "place" \in F
        /\ \A j \in D : \A h \in B[j] :
              DOMAIN h = F /\ h = [k \in F |-> h[k]] /\ h.place = j
        /\ \A j \in D : A[at[j]] = {[h EXCEPT !.place = at[j]] : h \in B[j]}
    BY DEF Rowed, Placed, Replaced
  <1> USE DEF AllOf, AllAt
  <1>1. \A h \in rows : h.place \in D /\ h \in B[h.place] /\ DOMAIN h = F /\ h = [k \in F |-> h[k]]
    BY <1>0
  <1>2. \A h \in rows : re[h] = [h EXCEPT !.place = at[h.place]]
    OBVIOUS
  <1>3. \A h \in rows : /\ re[h].place = at[h.place]
                        /\ \A k \in F \ {"place"} : re[h][k] = h[k]
    BY <1>0, <1>1
  <1>4. DOMAIN re = rows
    OBVIOUS
  <1>5. ASSUME NEW x \in moved PROVE \E h \in rows : x = re[h]
    <2>1. PICK j \in D : x \in A[at[j]]
      OBVIOUS
    <2>2. PICK h \in B[j] : x = [h EXCEPT !.place = at[j]]
      BY <1>0, <2>1
    <2>3. h \in rows /\ h.place = j
      BY <1>0, <2>2
    <2>4. QED BY <1>2, <2>2, <2>3
  <1>6. ASSUME NEW h \in rows PROVE re[h] \in moved
    <2>1. [h EXCEPT !.place = at[h.place]] \in A[at[h.place]]
      BY <1>0, <1>1
    <2>2. QED BY <1>1, <1>2, <2>1
  <1> HIDE DEF re
  <1>7. moved = {re[h] : h \in rows}
    BY <1>5, <1>6
  <1>8. ASSUME NEW g \in rows, NEW h \in rows, re[g] = re[h] PROVE g = h
    <2>1. g.place = h.place
      BY <1>0, <1>1, <1>3, <1>8
    <2>2. \A k \in F : g[k] = h[k]
      BY <1>3, <1>8, <2>1
    <2>3. g = [k \in F |-> g[k]] /\ h = [k \in F |-> h[k]]
      BY <1>1
    <2>4. [k \in F |-> g[k]] = [k \in F |-> h[k]]
      BY <2>2
    <2>5. QED BY <2>3, <2>4
  <1>9. Moves(re, rows, moved)
    BY <1>2, <1>4, <1>7, <1>8 DEF Moves
  <1>10. QED BY <1>9

-----------------------------------------------------------------------------
\* Echoes of hypotheses that moved.

(* What echoes a hypothesis is as much after a renaming that keeps the     *)
(* evidence.  [_anchors.py:_pairwise_token_jaccard]                        *)
LEMMA EqualEchoes ==
    ASSUME NEW G, IsFiniteSet(G), NEW b, DOMAIN b = G, NEW G2, G2 = {b[g] : g \in G},
           \A g, h \in G : b[g] = b[h] => g = h,
           \A g \in G : b[g].evidence = g.evidence,
           NEW h, NEW k, k.evidence = h.evidence
    PROVE  Echoes(k, G2) = Echoes(h, G)
  <1>1. Cardinality(G2) = Cardinality(G)
    BY FiniteImage
  <1>2. ASSUME NEW P, NEW P2, P \in SUBSET G, P2 = {b[g] : g \in P}
        PROVE  Cardinality(P2) = Cardinality(P)
    <2> DEFINE c == [g \in P |-> b[g]]
    <2>1. /\ DOMAIN c = P /\ P2 = {c[g] : g \in P}
          /\ \A x, y \in P : c[x] = c[y] => x = y
      BY <1>2
    <2>2. IsFiniteSet(P)
      BY <1>2, FS_Subset
    <2> HIDE DEF c
    <2>3. QED BY <2>1, <2>2, FiniteImage
  <1>3. Cardinality({g \in G2 : g.evidence = k.evidence})
            = Cardinality({g \in G : g.evidence = h.evidence})
    <2> DEFINE P == {g \in G : g.evidence = h.evidence}
               P2 == {g \in G2 : g.evidence = k.evidence}
    <2>1. P \in SUBSET G /\ P2 = {b[g] : g \in P}
      OBVIOUS
    <2> HIDE DEF P, P2
    <2>2. Cardinality(P2) = Cardinality(P)
      BY <1>2, <2>1
    <2>3. QED BY <2>2 DEF P, P2
  <1>4. Cardinality({g \in G2 : Similar(WordsOf(g.evidence), WordsOf(k.evidence))})
            = Cardinality({g \in G : Similar(WordsOf(g.evidence), WordsOf(h.evidence))})
    <2> DEFINE Like(g) == Similar(WordsOf(g.evidence), WordsOf(h.evidence))
               P == {g \in G : Like(g)}
               P2 == {g \in G2 : Like(g)}
    <2>1. \A g \in G : Like(b[g]) <=> Like(g)
      OBVIOUS
    <2> HIDE DEF Like
    <2>2. P \in SUBSET G /\ P2 = {b[g] : g \in P}
      BY <2>1
    <2> HIDE DEF P, P2
    <2>3. Cardinality(P2) = Cardinality(P)
      BY <1>2, <2>2
    <2>4. Cardinality({g \in G2 : Like(g)}) = Cardinality({g \in G : Like(g)})
      BY <2>3 DEF P, P2
    <2>5. QED BY <2>4 DEF Like
  <1>5. QED BY <1>1, <1>3, <1>4 DEF Echoes

\* Rows with all the fields of F.
Fielded(rows, F) == \A h \in rows : DOMAIN h = F

(* Echoes of the rows of a thread that moved, among those of all threads:  *)
(* given that two rows agree just when those they moved to do.             *)
LEMMA GroupsMove ==
    ASSUME NEW F, "evidence" \in F, NEW rows, Fielded(rows, F), IsFiniteSet(rows),
           NEW re, NEW moved, Moves(re, rows, moved),
           NEW h \in rows, NEW P, P \in SUBSET rows,
           NEW P2, P2 = {re[g] : g \in P}
    PROVE  Echoes(re[h], P2) = Echoes(h, P)
  <1> DEFINE b == [g \in P |-> re[g]]
  <1>1. \A g \in rows : re[g].evidence = g.evidence
    <2> SUFFICES ASSUME NEW g \in rows PROVE re[g].evidence = g.evidence
      OBVIOUS
    <2>1. PICK n : re[g] = [g EXCEPT !.place = n]
      BY DEF Moves
    <2>2. DOMAIN g = F
      BY DEF Fielded
    <2>3. QED BY <2>1, <2>2
  <1>2. /\ DOMAIN b = P /\ P2 = {b[g] : g \in P}
        /\ \A x, y \in P : b[x] = b[y] => x = y
        /\ \A g \in P : b[g].evidence = g.evidence
    BY <1>1 DEF Moves
  <1>3. IsFiniteSet(P)
    BY FS_Subset
  <1>4. re[h].evidence = h.evidence
    BY <1>1
  <1> HIDE DEF b
  <1>5. QED BY ONLY <1>2, <1>3, <1>4, EqualEchoes

IssueFields == {"place", "mention", "root", "issue", "target", "mode", "uncertain",
                "evidence", "anchor"}
AspectFields == {"place", "mention", "root", "aspect", "target", "sentiment", "evidence"}

OfRoot(rows, root) == \A h \in rows : h.root = root
Rooted(all, root) == {h \in all : h.root = root}

(* Issues of a thread are echoed by its own.                               *)
(* [semantic_enricher.py:_apply_thread_corroboration]                      *)
LEMMA IssuesMove ==
    ASSUME NEW rows, Fielded(rows, IssueFields), IsFiniteSet(rows),
           NEW root, OfRoot(rows, root), NEW all,
           NEW re, Moves(re, rows, Rooted(all, root)), NEW h \in rows
    PROVE  Echoes(re[h], SameIssue(re[h], all)) = Echoes(h, SameIssue(h, rows))
  <1> DEFINE moved == Rooted(all, root)
             P == SameIssue(h, rows)
             P2 == SameIssue(re[h], all)
  <1>1. \A g \in rows : /\ re[g].issue = g.issue /\ re[g].target = g.target
                        /\ re[g].root = root
    <2> SUFFICES ASSUME NEW g \in rows
                 PROVE  re[g].issue = g.issue /\ re[g].target = g.target /\ re[g].root = root
      OBVIOUS
    <2>1. PICK n : re[g] = [g EXCEPT !.place = n]
      BY DEF Moves
    <2>2. DOMAIN g = IssueFields /\ g.root = root
      BY DEF Fielded, OfRoot
    <2>3. QED BY <2>1, <2>2 DEF IssueFields
  <1>2. \A x : x \in all /\ x.root = root <=> \E g \in rows : x = re[g]
    <2>1. moved = {re[g] : g \in rows}
      BY DEF Moves
    <2>2. QED BY <2>1 DEF Rooted
  <1>3. P \in SUBSET rows
    BY DEF SameIssue
  <1>4. P2 = {re[g] : g \in P}
    <2>1. \A x : x \in P2 <=> \E g \in rows : /\ x = re[g] /\ g.issue = h.issue
                                             /\ g.target = h.target
      BY <1>1, <1>2 DEF SameIssue
    <2>2. \A g : g \in P <=> g \in rows /\ g.issue = h.issue /\ g.target = h.target
      BY DEF SameIssue, OfRoot
    <2> HIDE DEF P, P2
    <2>3. QED BY <2>1, <2>2
  <1>5. "evidence" \in IssueFields
    BY DEF IssueFields
  <1> HIDE DEF P, P2, moved
  <1>6. Moves(re, rows, moved)
    BY DEF moved
  <1>7. Echoes(re[h], P2) = Echoes(h, P)
    BY <1>3, <1>4, <1>5, <1>6, GroupsMove
  <1>8. QED BY <1>7 DEF P, P2

(* Aspects likewise.  [semantic_enricher.py:_apply_aspect_corroboration]   *)
LEMMA AspectsMove ==
    ASSUME NEW rows, Fielded(rows, AspectFields), IsFiniteSet(rows),
           NEW root, OfRoot(rows, root), NEW all,
           NEW re, Moves(re, rows, Rooted(all, root)), NEW h \in rows
    PROVE  Echoes(re[h], SameAspect(re[h], all)) = Echoes(h, SameAspect(h, rows))
  <1> DEFINE moved == Rooted(all, root)
             P == SameAspect(h, rows)
             P2 == SameAspect(re[h], all)
  <1>1. \A g \in rows : /\ re[g].aspect = g.aspect /\ re[g].target = g.target
                        /\ re[g].sentiment = g.sentiment /\ re[g].root = root
    <2> SUFFICES ASSUME NEW g \in rows
                 PROVE  /\ re[g].aspect = g.aspect /\ re[g].target = g.target
                        /\ re[g].sentiment = g.sentiment /\ re[g].root = root
      OBVIOUS
    <2>1. PICK n : re[g] = [g EXCEPT !.place = n]
      BY DEF Moves
    <2>2. DOMAIN g = AspectFields /\ g.root = root
      BY DEF Fielded, OfRoot
    <2>3. QED BY <2>1, <2>2 DEF AspectFields
  <1>2. \A x : x \in all /\ x.root = root <=> \E g \in rows : x = re[g]
    <2>1. moved = {re[g] : g \in rows}
      BY DEF Moves
    <2>2. QED BY <2>1 DEF Rooted
  <1>3. P \in SUBSET rows
    BY DEF SameAspect
  <1>4. P2 = {re[g] : g \in P}
    <2>1. \A x : x \in P2 <=> \E g \in rows : /\ x = re[g] /\ g.aspect = h.aspect
                                             /\ g.target = h.target
                                             /\ g.sentiment = h.sentiment
      BY <1>1, <1>2 DEF SameAspect
    <2>2. \A g : g \in P <=> /\ g \in rows /\ g.aspect = h.aspect
                            /\ g.target = h.target /\ g.sentiment = h.sentiment
      BY DEF SameAspect, OfRoot
    <2> HIDE DEF P, P2
    <2>3. QED BY <2>1, <2>2
  <1>5. "evidence" \in AspectFields
    BY DEF AspectFields
  <1> HIDE DEF P, P2, moved
  <1>6. Moves(re, rows, moved)
    BY DEF moved
  <1>7. Echoes(re[h], P2) = Echoes(h, P)
    BY <1>3, <1>4, <1>5, <1>6, GroupsMove
  <1>8. QED BY <1>7 DEF P, P2

\* B has rows of a thread's mentions by their places in it, and A the same
\* rows by their places in the batch.
Spread(F, root, ms, thread, A, B, at) ==
    /\ DOMAIN A = DOMAIN ms /\ DOMAIN B = DOMAIN thread /\ "place" \in F
    /\ \A j \in DOMAIN thread : /\ Placed(B[j], F, j)
                                /\ A[at[j]] = Replaced(B[j], at[j])
                                /\ IsFiniteSet(B[j])
    /\ \A i \in DOMAIN ms : \A h \in A[i] : h.root = ms[i].root /\ h.mention = ms[i].id
    /\ \A j \in DOMAIN thread : \A h \in B[j] : h.root = root

(* What is said of a thread's mentions, at the places of the batch, is     *)
(* what is said of them alone, moved.  [semantic_enricher.py:enrich]       *)
LEMMA ThreadRows ==
    ASSUME NEW ms, IsSequence(ms), NEW root, NEW thread, NEW at,
           Turned(at, root, ms, thread),
           NEW F, NEW A, NEW B, Spread(F, root, ms, thread, A, B, at),
           NEW rows, rows = AllOf(DOMAIN thread, B), NEW all, all = AllOf(DOMAIN ms, A)
    PROVE  /\ IsFiniteSet(rows) /\ Fielded(rows, F) /\ OfRoot(rows, root)
           /\ \E re : Moves(re, rows, Rooted(all, root))
  <1> DEFINE D == DOMAIN thread
             moved == Rooted(all, root)
  <1>1. /\ {at[j] : j \in D} = {i \in DOMAIN ms : ms[i].root = root}
        /\ \A i, j \in D : at[i] = at[j] => i = j
        /\ IsSequence(thread)
    BY DEF Turned
  <1>2. IsFiniteSet(rows)
    <2>1. IsFiniteSet(D)
      BY <1>1, FiniteRange
    <2>2. rows = UNION {B[j] : j \in D} /\ DOMAIN B = D /\ \A j \in D : IsFiniteSet(B[j])
      BY DEF AllOf, Spread
    <2> HIDE DEF D
    <2>3. QED BY ONLY <2>1, <2>2, FiniteUnionOf
  <1>3. Fielded(rows, F) /\ OfRoot(rows, root)
    BY DEF Fielded, OfRoot, AllOf, Spread, Placed
  <1>4. moved = AllAt(D, at, A)
    <2>1. ASSUME NEW h \in moved PROVE \E j \in D : h \in A[at[j]]
      <3>1. PICK i \in DOMAIN ms : h \in A[i]
        BY DEF AllOf, Rooted
      <3>2. ms[i].root = root
        BY <3>1 DEF Spread, Rooted
      <3>3. QED BY <1>1, <3>1, <3>2
    <2>2. ASSUME NEW j \in D, NEW h \in A[at[j]] PROVE h \in moved
      <3>1. at[j] \in DOMAIN ms /\ ms[at[j]].root = root
        BY <1>1
      <3>2. QED BY <3>1 DEF AllOf, Spread, Rooted
    <2> HIDE DEF moved
    <2>3. QED BY <2>1, <2>2 DEF AllAt
  <1>5. Rowed(D, at, F, A, B)
    <2>1. \A i, j \in D : at[i] = at[j] => i = j
      BY <1>1
    <2>2. "place" \in F /\ \A j \in D : Placed(B[j], F, j) /\ A[at[j]] = Replaced(B[j], at[j])
      BY DEF Spread
    <2> HIDE DEF D
    <2>3. QED BY <2>1, <2>2 DEF Rowed
  <1> HIDE DEF moved, D
  <1>6. rows = AllOf(D, B)
    BY DEF D
  <1>7. \E re : Moves(re, rows, moved)
    BY ONLY <1>4, <1>5, <1>6, RowsMove
  <1>8. QED BY <1>2, <1>3, <1>7 DEF moved

\* A finding without the place of its mention in the batch.
Unplaced(fs) == {[f EXCEPT !.place = 0] : f \in fs}
Within(fs, ids) == {f \in fs : f.mention \in ids}

\* Findings of rows are of their mentions, and ids are those of a root.
Found(of, all, ids, root) ==
    /\ DOMAIN of = all
    /\ \A h \in all : /\ "mention" \in DOMAIN of[h] /\ of[h].mention = h.mention
                      /\ h.mention \in ids <=> h.root = root
SameFindings(of, own, re, rows) ==
    /\ DOMAIN own = rows
    /\ \A h \in rows : [of[re[h]] EXCEPT !.place = 0] = [own[h] EXCEPT !.place = 0]
Findings(of) == {of[h] : h \in DOMAIN of}

(* If what was moved means the same but for its place, a thread's findings *)
(* are those it has alone.                                                 *)
LEMMA ThreadFindings ==
    ASSUME NEW root, NEW rows, NEW all, NEW re, Moves(re, rows, Rooted(all, root)),
           NEW ids, NEW of, Found(of, all, ids, root),
           NEW own, SameFindings(of, own, re, rows)
    PROVE  Within(Unplaced(Findings(of)), ids) = Unplaced(Findings(own))
  <1> DEFINE bare(h) == [of[h] EXCEPT !.place = 0]
             bareOwn(h) == [own[h] EXCEPT !.place = 0]
             moved == Rooted(all, root)
             found == Findings(of)
             alone == Findings(own)
  <1>0. found = {of[h] : h \in all} /\ alone = {own[h] : h \in rows}
    BY DEF Findings, Found, SameFindings
  <1>1. \A h \in all : bare(h).mention = h.mention /\ (h.mention \in ids <=> h.root = root)
    BY DEF Found
  <1>2. \A h \in rows : bare(re[h]) = bareOwn(h)
    BY DEF SameFindings
  <1> HIDE DEF found, alone
  <1>3. Unplaced(found) = {bare(h) : h \in all}
    <2>1. \A h \in all : [of[h] EXCEPT !.place = 0] = bare(h)
      OBVIOUS
    <2> HIDE DEF bare
    <2>2. QED BY <1>0, <2>1 DEF Unplaced
  <1>4. Unplaced(alone) = {bareOwn(h) : h \in rows}
    <2>1. \A h \in rows : [own[h] EXCEPT !.place = 0] = bareOwn(h)
      OBVIOUS
    <2> HIDE DEF bareOwn
    <2>2. QED BY <1>0, <2>1 DEF Unplaced
  <1>5. moved = {re[h] : h \in rows}
    BY DEF Moves
  <1> HIDE DEF bare, bareOwn
  <1>6. Within(Unplaced(found), ids) = {bare(h) : h \in moved}
    BY <1>1, <1>3 DEF Within, Rooted
  <1> HIDE DEF moved
  <1>7. {bare(h) : h \in moved} = {bareOwn(h) : h \in rows}
    BY <1>2, <1>5
  <1>8. QED BY <1>4, <1>6, <1>7 DEF found, alone

-----------------------------------------------------------------------------
\* What is said of one mention.

(* The issues of a mention: the place it is at shows in no other field.    *)
(* [semantic_enricher.py:_issue_hypotheses]                                *)
LEMMA IssueRows ==
    ASSUME NEW m, m.text \in DOMAIN Words, NEW o, OntologyType(o),
           NEW es, NEW es2, BestTarget(m, es) = BestTarget(m, es2), NEW i, NEW j
    PROVE  /\ Placed(IssueHypotheses(j, m, es2, o), IssueFields, j)
           /\ \A h \in IssueHypotheses(j, m, es2, o) : h.root = m.root /\ h.mention = m.id
           /\ IssueHypotheses(i, m, es, o) = Replaced(IssueHypotheses(j, m, es2, o), i)
           /\ IsFiniteSet(IssueHypotheses(j, m, es2, o))
  <1> DEFINE target == BestTarget(m, es)
             pairs == Pairs(m, o, "ISSUE")
             row(p, x) == [place     |-> p,
                           mention   |-> m.id,
                           root      |-> m.root,
                           issue     |-> x[2].label,
                           target    |-> target,
                           mode      |-> EvidenceMode(x[1]),
                           uncertain |-> Uncertain(x[1]),
                           evidence  |-> {x[2].phrase},
                           anchor    |-> <<x[1].at, x[2].at, x[2].source>>]
  <1>1. IssueHypotheses(i, m, es, o) = {row(i, x) : x \in pairs}
    BY DEF IssueHypotheses, Pairs
  <1>2. IssueHypotheses(j, m, es2, o) = {row(j, x) : x \in pairs}
    <2>1. BestTarget(m, es2) = target
      OBVIOUS
    <2> HIDE DEF target
    <2>2. QED BY <2>1 DEF IssueHypotheses, Pairs
  <1>3. \A x : row(i, x) = [row(j, x) EXCEPT !.place = i]
    OBVIOUS
  <1>4. \A x : /\ DOMAIN row(j, x) = IssueFields
               /\ row(j, x).place = j /\ row(j, x).root = m.root /\ row(j, x).mention = m.id
    BY DEF IssueFields
  <1>5. \A x : row(j, x) = [k \in IssueFields |-> row(j, x)[k]]
    <2>1. \A x : row(j, x) = [k \in DOMAIN row(j, x) |-> row(j, x)[k]]
      OBVIOUS
    <2> HIDE DEF row
    <2>2. QED BY <1>4, <2>1
  <1>6. IsFiniteSet({row(j, x) : x \in pairs})
    <2> DEFINE g == [x \in pairs |-> row(j, x)]
    <2>1. DOMAIN g = pairs /\ {row(j, x) : x \in pairs} = {g[x] : x \in pairs}
      OBVIOUS
    <2>2. IsFiniteSet(pairs)
      BY FinitePairs
    <2> HIDE DEF g, row, pairs
    <2>3. QED BY <2>1, <2>2, FiniteImage
  <1> HIDE DEF row, pairs
  <1>7. IssueHypotheses(i, m, es, o) = Replaced(IssueHypotheses(j, m, es2, o), i)
    BY <1>1, <1>2, <1>3 DEF Replaced
  <1>8. QED BY <1>2, <1>4, <1>5, <1>6, <1>7 DEF Placed

(* The aspects of a mention likewise.                                      *)
(* [semantic_enricher.py:_merge_aspect_hypotheses]                         *)
LEMMA AspectRows ==
    ASSUME NEW m, m.text \in DOMAIN Words, NEW o, OntologyType(o),
           NEW es, NEW es2, BestTarget(m, es) = BestTarget(m, es2), NEW i, NEW j
    PROVE  /\ Placed(AspectHypotheses(j, m, es2, o), AspectFields, j)
           /\ \A h \in AspectHypotheses(j, m, es2, o) : h.root = m.root /\ h.mention = m.id
           /\ AspectHypotheses(i, m, es, o) = Replaced(AspectHypotheses(j, m, es2, o), i)
           /\ IsFiniteSet(AspectHypotheses(j, m, es2, o))
  <1> DEFINE target == BestTarget(m, es)
             pairs == Pairs(m, o, "ASPECT")
             labels == {x[2].label : x \in pairs}
             row(p, a) == AspectHypothesis(p, m, target, a, {x \in pairs : x[2].label = a})
  <1>1. AspectHypotheses(i, m, es, o) = {row(i, a) : a \in labels}
    BY DEF AspectHypotheses, Pairs
  <1>2. AspectHypotheses(j, m, es2, o) = {row(j, a) : a \in labels}
    <2>1. BestTarget(m, es2) = target
      OBVIOUS
    <2> HIDE DEF target
    <2>2. QED BY <2>1 DEF AspectHypotheses, Pairs
  <1>3. ASSUME NEW a, NEW found
        PROVE  LET at(p) == AspectHypothesis(p, m, target, a, found)
               IN  /\ at(i) = [at(j) EXCEPT !.place = i]
                   /\ DOMAIN at(j) = AspectFields
                   /\ at(j).place = j /\ at(j).root = m.root /\ at(j).mention = m.id
                   /\ at(j) = [k \in DOMAIN at(j) |-> at(j)[k]]
    <2> DEFINE mood == MergedLabel({Label(SegmentScore(x[1])) : x \in found})
               told == {x[2].phrase : x \in found}
               at(p) == [place     |-> p,
                         mention   |-> m.id,
                         root      |-> m.root,
                         aspect    |-> a,
                         target    |-> target,
                         sentiment |-> mood,
                         evidence  |-> told]
    <2>1. \A p : AspectHypothesis(p, m, target, a, found) = at(p)
      BY DEF AspectHypothesis
    <2> HIDE DEF mood, told, target
    <2>2. at(i) = [at(j) EXCEPT !.place = i]
      OBVIOUS
    <2>3. DOMAIN at(j) = AspectFields
      BY DEF AspectFields
    <2>4. at(j).place = j /\ at(j).root = m.root /\ at(j).mention = m.id
      OBVIOUS
    <2>5. at(j) = [k \in DOMAIN at(j) |-> at(j)[k]]
      OBVIOUS
    <2> HIDE DEF at
    <2>6. QED BY <2>1, <2>2, <2>3, <2>4, <2>5
  <1>4. \A a : /\ row(i, a) = [row(j, a) EXCEPT !.place = i]
               /\ DOMAIN row(j, a) = AspectFields
               /\ row(j, a).place = j /\ row(j, a).root = m.root /\ row(j, a).mention = m.id
               /\ row(j, a) = [k \in DOMAIN row(j, a) |-> row(j, a)[k]]
    BY <1>3
  <1>5. IsFiniteSet(labels)
    <2> DEFINE g == [x \in pairs |-> x[2].label]
    <2>1. DOMAIN g = pairs /\ labels = {g[x] : x \in pairs}
      OBVIOUS
    <2>2. IsFiniteSet(pairs)
      BY FinitePairs
    <2> HIDE DEF g, labels, pairs
    <2>3. QED BY <2>1, <2>2, FiniteImage
  <1>6. IsFiniteSet({row(j, a) : a \in labels})
    <2> DEFINE g == [a \in labels |-> row(j, a)]
               T == {row(j, a) : a \in labels}
    <2> HIDE DEF row, labels
    <2>1. DOMAIN g = labels /\ T = {g[a] : a \in labels}
      OBVIOUS
    <2> HIDE DEF g, T
    <2>2. IsFiniteSet(T)
      BY <1>5, <2>1, FiniteImage
    <2>3. QED BY <2>2 DEF T
  <1> HIDE DEF row, labels
  <1>7. AspectHypotheses(i, m, es, o) = Replaced(AspectHypotheses(j, m, es2, o), i)
    BY <1>1, <1>2, <1>4 DEF Replaced
  <1>8. QED BY <1>2, <1>4, <1>6, <1>7 DEF Placed

-----------------------------------------------------------------------------
\* A thread judged alone.

\* Mentions of one id are copies of each other.
Batch(ms) ==
    /\ IsSequence(ms)
    /\ \A m \in Range(ms) : m.text \in DOMAIN Words
    /\ \A m, x \in Range(ms) : x.id = m.id => x.text = m.text /\ x.root = m.root

(* What a mention names is the same in its thread as in the batch.         *)
LEMMA ThreadAlone ==
    ASSUME NEW ms, Batch(ms), NEW o, OntologyType(o), NEW root, NEW thread, NEW at,
           Turned(at, root, ms, thread)
    PROVE  /\ Range(thread) = {m \in Range(ms) : m.root = root}
           /\ \A m \in Range(ms) : m.id \in Ids(thread) <=> m.root = root
           /\ \A m \in Range(thread) :
                 BestTarget(m, EntityFacts(ms, o)) = BestTarget(m, EntityFacts(thread, o))
  <1>1. /\ IsSequence(thread)
        /\ {at[j] : j \in DOMAIN thread} = {i \in DOMAIN ms : ms[i].root = root}
        /\ \A j \in DOMAIN thread : thread[j] = ms[at[j]]
    BY DEF Turned
  <1>2. Range(thread) = {m \in Range(ms) : m.root = root}
    <2>1. \A j \in DOMAIN thread : at[j] \in DOMAIN ms /\ thread[j] = ms[at[j]]
                                   /\ thread[j].root = root
      BY <1>1
    <2>2. \A i \in DOMAIN ms : ms[i].root = root =>
              \E j \in DOMAIN thread : thread[j] = ms[i]
      BY <1>1
    <2>3. QED BY <2>1, <2>2 DEF Range
  <1>3. \A m \in Range(ms) : m.id \in Ids(thread) <=> m.root = root
    BY <1>2 DEF Batch, Ids
  <1>4. ASSUME NEW m \in Range(thread)
        PROVE  BestTarget(m, EntityFacts(ms, o)) = BestTarget(m, EntityFacts(thread, o))
    <2>1. m \in Range(ms) /\ ms \in Seq(Range(ms)) /\ thread \in Seq(Range(thread))
      BY <1>1, <1>2 DEF Batch, IsSequence
    <2>2. /\ \A x \in Range(ms) : x.text \in DOMAIN Words
          /\ \A x \in Range(ms) : x.id = m.id => x.text = m.text
      BY <2>1 DEF Batch
    <2>3. /\ \A x \in Range(thread) : x.text \in DOMAIN Words
          /\ \A x \in Range(thread) : x.id = m.id => x.text = m.text
      BY <1>2, <2>2
    <2>4. BestTarget(m, EntityFacts(ms, o)) = BestTarget(m, EntityFactsOf(m, o))
      BY <2>1, <2>2, OwnTarget
    <2>5. BestTarget(m, EntityFacts(thread, o)) = BestTarget(m, EntityFactsOf(m, o))
      BY <1>4, <2>1, <2>3, OwnTarget
    <2>6. QED BY <2>4, <2>5
  <1>5. QED BY <1>2, <1>3, <1>4

(* The issues of a thread are those it has alone.                          *)
(* [semantic_enricher.py:enrich, _apply_thread_corroboration]              *)
LEMMA IssuesAlone ==
    ASSUME NEW ms, Batch(ms), NEW o, OntologyType(o), NEW root, NEW thread, NEW at,
           Turned(at, root, ms, thread)
    PROVE  Within(Unplaced(IssueFacts(ms, EntityFacts(ms, o), o)), Ids(thread))
               = Unplaced(IssueFacts(thread, EntityFacts(thread, o), o))
  <1> DEFINE es == EntityFacts(ms, o)
             es2 == EntityFacts(thread, o)
             A == [i \in DOMAIN ms |-> IssueHypotheses(i, ms[i], es, o)]
             B == [j \in DOMAIN thread |-> IssueHypotheses(j, thread[j], es2, o)]
             all == AllOf(DOMAIN ms, A)
             rows == AllOf(DOMAIN thread, B)
             of == [h \in all |-> IssueFact(h, Echoes(h, SameIssue(h, all)))]
             own == [h \in rows |-> IssueFact(h, Echoes(h, SameIssue(h, rows)))]
             ids == Ids(thread)
  <1>1. /\ IsSequence(ms)
        /\ DOMAIN at = DOMAIN thread
        /\ \A j \in DOMAIN thread : at[j] \in DOMAIN ms /\ thread[j] = ms[at[j]]
        /\ \A j \in DOMAIN thread : thread[j].root = root
    BY DEF Turned, Batch
  <1>2. /\ \A i \in DOMAIN ms : ms[i].text \in DOMAIN Words /\ ms[i] \in Range(ms)
        /\ \A j \in DOMAIN thread : /\ thread[j].text \in DOMAIN Words
                                    /\ BestTarget(thread[j], es) = BestTarget(thread[j], es2)
    <2>1. \A i \in DOMAIN ms : ms[i].text \in DOMAIN Words /\ ms[i] \in Range(ms)
      BY DEF Batch, Range
    <2>2. \A j \in DOMAIN thread : thread[j] \in Range(thread)
      BY DEF Range
    <2>3. \A j \in DOMAIN thread : BestTarget(thread[j], es) = BestTarget(thread[j], es2)
      BY <2>2, ThreadAlone
    <2>4. QED BY <1>1, <2>1, <2>3
  <1>3. \A m \in Range(ms) : m.id \in ids <=> m.root = root
    BY ThreadAlone
  <1>4. /\ DOMAIN A = DOMAIN ms /\ DOMAIN B = DOMAIN thread
        /\ \A i \in DOMAIN ms : A[i] = IssueHypotheses(i, ms[i], es, o)
        /\ \A j \in DOMAIN thread : B[j] = IssueHypotheses(j, thread[j], es2, o)
    OBVIOUS
  <1> HIDE DEF es, es2, ids, A, B
  <1>5. Spread(IssueFields, root, ms, thread, A, B, at)
    <2>1. ASSUME NEW j \in DOMAIN thread
          PROVE  /\ Placed(B[j], IssueFields, j)
                 /\ A[at[j]] = Replaced(B[j], at[j])
                 /\ IsFiniteSet(B[j])
                 /\ \A h \in B[j] : h.root = root
      <3> DEFINE m == thread[j]
      <3>1. /\ m.text \in DOMAIN Words /\ BestTarget(m, es) = BestTarget(m, es2)
            /\ A[at[j]] = IssueHypotheses(at[j], m, es, o)
            /\ B[j] = IssueHypotheses(j, m, es2, o) /\ m.root = root
        BY <1>1, <1>2, <1>4
      <3> HIDE DEF m
      <3>2. QED BY <3>1, IssueRows
    <2>2. ASSUME NEW i \in DOMAIN ms, NEW h \in A[i]
          PROVE  h.root = ms[i].root /\ h.mention = ms[i].id
      <3> DEFINE m == ms[i]
      <3>1. /\ m.text \in DOMAIN Words /\ h \in IssueHypotheses(i, m, es, o)
            /\ BestTarget(m, es) = BestTarget(m, es)
        BY <1>2, <1>4, <2>2
      <3> HIDE DEF m
      <3>2. h.root = m.root /\ h.mention = m.id
        BY <3>1, IssueRows
      <3>3. QED BY <3>2 DEF m
    <2>3. "place" \in IssueFields
      BY DEF IssueFields
    <2>4. QED BY <1>4, <2>1, <2>2, <2>3 DEF Spread
  <1> HIDE DEF all, rows
  <1>6. all = AllOf(DOMAIN ms, A) /\ rows = AllOf(DOMAIN thread, B)
    BY DEF all, rows
  <1>7. PICK re : Moves(re, rows, Rooted(all, root))
    BY ONLY <1>1, <1>5, <1>6, Turned(at, root, ms, thread), ThreadRows
  <1>8. IsFiniteSet(rows) /\ Fielded(rows, IssueFields) /\ OfRoot(rows, root)
    BY ONLY <1>1, <1>5, <1>6, Turned(at, root, ms, thread), ThreadRows
  <1>9. SameFindings(of, own, re, rows)
    <2> SUFFICES ASSUME NEW h \in rows
                 PROVE  [of[re[h]] EXCEPT !.place = 0] = [own[h] EXCEPT !.place = 0]
      BY DEF SameFindings
    <2>0. Echoes(re[h], SameIssue(re[h], all)) = Echoes(h, SameIssue(h, rows))
      <3>1. /\ Moves(re, rows, Rooted(all, root)) /\ IsFiniteSet(rows)
            /\ Fielded(rows, IssueFields) /\ OfRoot(rows, root)
            /\ h \in rows
        BY <1>7, <1>8
      <3>2. QED BY ONLY <3>1, IssuesMove
    <2> DEFINE g == re[h]
               n == Echoes(h, SameIssue(h, rows))
    <2>1. g \in all
      BY <1>7 DEF Moves, Rooted
    <2>2. of[g] = IssueFact(g, Echoes(g, SameIssue(g, all))) /\ own[h] = IssueFact(h, n)
      BY <2>1
    <2>3. PICK p : g = [h EXCEPT !.place = p]
      BY <1>7 DEF Moves
    <2>5. DOMAIN h = IssueFields
      BY <1>8 DEF Fielded
    <2> HIDE DEF g, n, of, own
    <2>6. /\ g.anchor = h.anchor /\ g.mention = h.mention /\ g.issue = h.issue
          /\ g.target = h.target /\ g.mode = h.mode /\ g.uncertain = h.uncertain
      BY <2>3, <2>5 DEF IssueFields
    <2>7. Confidence(g, n) = Confidence(h, n)
      BY <2>6 DEF Confidence
    <2>8. [IssueFact(g, n) EXCEPT !.place = 0] = [IssueFact(h, n) EXCEPT !.place = 0]
      BY <2>6, <2>7 DEF IssueFact
    <2>9. QED BY <2>0, <2>2, <2>8 DEF g, n
  <1>10. Found(of, all, ids, root)
    <2>1. ASSUME NEW h \in all, NEW n
          PROVE  /\ "mention" \in DOMAIN IssueFact(h, n)
                 /\ IssueFact(h, n).mention = h.mention
      BY DEF IssueFact
    <2>2. \A h \in all : h.mention \in ids <=> h.root = root
      BY <1>2, <1>3, <1>5, <1>6 DEF Spread, AllOf
    <2>3. QED BY <2>1, <2>2 DEF Found
  <1>11. /\ IssueFacts(ms, es, o) = Findings(of)
         /\ IssueFacts(thread, es2, o) = Findings(own)
    <2>1. /\ all = UNION {IssueHypotheses(i, ms[i], es, o) : i \in DOMAIN ms}
          /\ rows = UNION {IssueHypotheses(j, thread[j], es2, o) : j \in DOMAIN thread}
      BY <1>6 DEF AllOf, A, B
    <2>2. IssueFacts(ms, es, o) = Findings(of)
      BY <2>1 DEF IssueFacts, Findings
    <2>3. IssueFacts(thread, es2, o) = Findings(own)
      BY <2>1 DEF IssueFacts, Findings
    <2>4. QED BY <2>2, <2>3
  <1> HIDE DEF of, own
  <1>12. Within(Unplaced(Findings(of)), ids) = Unplaced(Findings(own))
    BY ONLY <1>7, <1>9, <1>10, ThreadFindings
  <1>13. QED BY <1>11, <1>12 DEF es, es2, ids

\* What AspectFacts makes of a hypothesis.
AspectFact(h, echoes) ==
    [place     |-> h.place,
     mention   |-> h.mention,
     aspect    |-> h.aspect,
     target    |-> h.target,
     sentiment |-> h.sentiment,
     echoes    |-> echoes]

(* So are its aspects.                                                     *)
(* [semantic_enricher.py:enrich, _apply_aspect_corroboration]              *)
LEMMA AspectsAlone ==
    ASSUME NEW ms, Batch(ms), NEW o, OntologyType(o), NEW root, NEW thread, NEW at,
           Turned(at, root, ms, thread)
    PROVE  Within(Unplaced(AspectFacts(ms, EntityFacts(ms, o), o)), Ids(thread))
               = Unplaced(AspectFacts(thread, EntityFacts(thread, o), o))
  <1> DEFINE es == EntityFacts(ms, o)
             es2 == EntityFacts(thread, o)
             A == [i \in DOMAIN ms |-> AspectHypotheses(i, ms[i], es, o)]
             B == [j \in DOMAIN thread |-> AspectHypotheses(j, thread[j], es2, o)]
             all == AllOf(DOMAIN ms, A)
             rows == AllOf(DOMAIN thread, B)
             of == [h \in all |-> AspectFact(h, Echoes(h, SameAspect(h, all)))]
             own == [h \in rows |-> AspectFact(h, Echoes(h, SameAspect(h, rows)))]
             ids == Ids(thread)
  <1>1. /\ IsSequence(ms)
        /\ DOMAIN at = DOMAIN thread
        /\ \A j \in DOMAIN thread : at[j] \in DOMAIN ms /\ thread[j] = ms[at[j]]
        /\ \A j \in DOMAIN thread : thread[j].root = root
    BY DEF Turned, Batch
  <1>2. /\ \A i \in DOMAIN ms : ms[i].text \in DOMAIN Words /\ ms[i] \in Range(ms)
        /\ \A j \in DOMAIN thread : /\ thread[j].text \in DOMAIN Words
                                    /\ BestTarget(thread[j], es) = BestTarget(thread[j], es2)
    <2>1. \A i \in DOMAIN ms : ms[i].text \in DOMAIN Words /\ ms[i] \in Range(ms)
      BY DEF Batch, Range
    <2>2. \A j \in DOMAIN thread : thread[j] \in Range(thread)
      BY DEF Range
    <2>3. \A j \in DOMAIN thread : BestTarget(thread[j], es) = BestTarget(thread[j], es2)
      BY <2>2, ThreadAlone
    <2>4. QED BY <1>1, <2>1, <2>3
  <1>3. \A m \in Range(ms) : m.id \in ids <=> m.root = root
    BY ThreadAlone
  <1>4. /\ DOMAIN A = DOMAIN ms /\ DOMAIN B = DOMAIN thread
        /\ \A i \in DOMAIN ms : A[i] = AspectHypotheses(i, ms[i], es, o)
        /\ \A j \in DOMAIN thread : B[j] = AspectHypotheses(j, thread[j], es2, o)
    OBVIOUS
  <1> HIDE DEF es, es2, ids, A, B
  <1>5. Spread(AspectFields, root, ms, thread, A, B, at)
    <2>1. ASSUME NEW j \in DOMAIN thread
          PROVE  /\ Placed(B[j], AspectFields, j)
                 /\ A[at[j]] = Replaced(B[j], at[j])
                 /\ IsFiniteSet(B[j])
                 /\ \A h \in B[j] : h.root = root
      <3> DEFINE m == thread[j]
      <3>1. /\ m.text \in DOMAIN Words /\ BestTarget(m, es) = BestTarget(m, es2)
            /\ A[at[j]] = AspectHypotheses(at[j], m, es, o)
            /\ B[j] = AspectHypotheses(j, m, es2, o) /\ m.root = root
        BY <1>1, <1>2, <1>4
      <3> HIDE DEF m
      <3>2. QED BY <3>1, AspectRows
    <2>2. ASSUME NEW i \in DOMAIN ms, NEW h \in A[i]
          PROVE  h.root = ms[i].root /\ h.mention = ms[i].id
      <3> DEFINE m == ms[i]
      <3>1. /\ m.text \in DOMAIN Words /\ h \in AspectHypotheses(i, m, es, o)
            /\ BestTarget(m, es) = BestTarget(m, es)
        BY <1>2, <1>4, <2>2
      <3> HIDE DEF m
      <3>2. h.root = m.root /\ h.mention = m.id
        BY <3>1, AspectRows
      <3>3. QED BY <3>2 DEF m
    <2>3. "place" \in AspectFields
      BY DEF AspectFields
    <2>4. QED BY <1>4, <2>1, <2>2, <2>3 DEF Spread
  <1> HIDE DEF all, rows
  <1>6. all = AllOf(DOMAIN ms, A) /\ rows = AllOf(DOMAIN thread, B)
    BY DEF all, rows
  <1>7. PICK re : Moves(re, rows, Rooted(all, root))
    BY ONLY <1>1, <1>5, <1>6, Turned(at, root, ms, thread), ThreadRows
  <1>8. IsFiniteSet(rows) /\ Fielded(rows, AspectFields) /\ OfRoot(rows, root)
    BY ONLY <1>1, <1>5, <1>6, Turned(at, root, ms, thread), ThreadRows
  <1>9. SameFindings(of, own, re, rows)
    <2> SUFFICES ASSUME NEW h \in rows
                 PROVE  [of[re[h]] EXCEPT !.place = 0] = [own[h] EXCEPT !.place = 0]
      BY DEF SameFindings
    <2>0. Echoes(re[h], SameAspect(re[h], all)) = Echoes(h, SameAspect(h, rows))
      <3>1. /\ Moves(re, rows, Rooted(all, root)) /\ IsFiniteSet(rows)
            /\ Fielded(rows, AspectFields) /\ OfRoot(rows, root)
            /\ h \in rows
        BY <1>7, <1>8
      <3>2. QED BY ONLY <3>1, AspectsMove
    <2> DEFINE g == re[h]
               n == Echoes(h, SameAspect(h, rows))
    <2>1. g \in all
      BY <1>7 DEF Moves, Rooted
    <2>2. of[g] = AspectFact(g, Echoes(g, SameAspect(g, all))) /\ own[h] = AspectFact(h, n)
      BY <2>1
    <2>3. PICK p : g = [h EXCEPT !.place = p]
      BY <1>7 DEF Moves
    <2>5. DOMAIN h = AspectFields
      BY <1>8 DEF Fielded
    <2> HIDE DEF g, n, of, own
    <2>6. /\ g.mention = h.mention /\ g.aspect = h.aspect
          /\ g.target = h.target /\ g.sentiment = h.sentiment
      BY <2>3, <2>5 DEF AspectFields
    <2>7. [AspectFact(g, n) EXCEPT !.place = 0] = [AspectFact(h, n) EXCEPT !.place = 0]
      BY <2>6 DEF AspectFact
    <2>8. QED BY <2>0, <2>2, <2>7 DEF g, n
  <1>10. Found(of, all, ids, root)
    <2>1. ASSUME NEW h \in all, NEW n
          PROVE  /\ "mention" \in DOMAIN AspectFact(h, n)
                 /\ AspectFact(h, n).mention = h.mention
      BY DEF AspectFact
    <2>2. \A h \in all : h.mention \in ids <=> h.root = root
      BY <1>2, <1>3, <1>5, <1>6 DEF Spread, AllOf
    <2>3. QED BY <2>1, <2>2 DEF Found
  <1>11. /\ AspectFacts(ms, es, o) = Findings(of)
         /\ AspectFacts(thread, es2, o) = Findings(own)
    <2>1. /\ all = UNION {AspectHypotheses(i, ms[i], es, o) : i \in DOMAIN ms}
          /\ rows = UNION {AspectHypotheses(j, thread[j], es2, o) : j \in DOMAIN thread}
      BY <1>6 DEF AllOf, A, B
    <2>2. AspectFacts(ms, es, o) = Findings(of)
      BY <2>1 DEF AspectFacts, AspectFact, Findings
    <2>3. AspectFacts(thread, es2, o) = Findings(own)
      BY <2>1 DEF AspectFacts, AspectFact, Findings
    <2>4. QED BY <2>2, <2>3
  <1> HIDE DEF of, own
  <1>12. Within(Unplaced(Findings(of)), ids) = Unplaced(Findings(own))
    BY ONLY <1>7, <1>9, <1>10, ThreadFindings
  <1>13. QED BY <1>11, <1>12 DEF es, es2, ids

(* So are its sentiments.  [semantic_enricher.py:enrich]                   *)
LEMMA SentimentsAlone ==
    ASSUME NEW ms, Batch(ms), NEW o, OntologyType(o), NEW root, NEW thread, NEW at,
           Turned(at, root, ms, thread)
    PROVE  Within(Range(SentimentFacts(ms)), Ids(thread)) = Range(SentimentFacts(thread))
  <1> DEFINE Telling(s) == {m \in Range(s) : Words[m.text] # <<>>}
  <1>1. ASSUME NEW s, IsSequence(s)
        PROVE  Range(SentimentFacts(s)) = {SentimentFact(m) : m \in Telling(s)}
    <2> DEFINE S == {i \in DOMAIN s : Words[s[i].text] # <<>>}
               said == At(s, S)
    <2>1. SentimentFacts(s) = [i \in DOMAIN said |-> SentimentFact(said[i])]
      BY DEF SentimentFacts
    <2>2. Range(SentimentFacts(s)) = {SentimentFact(m) : m \in Range(said)}
      <3> HIDE DEF said
      <3>1. QED BY <2>1 DEF Range
    <2>3. Range(said) = Telling(s)
      <3>1. S \in SUBSET (DOMAIN s) /\ s \in Seq(Range(s))
        BY <1>1 DEF IsSequence
      <3>2. \A i \in S : s[i] \in Telling(s)
        BY DEF Range
      <3>3. \A m \in Telling(s) : \E i \in S : m = s[i]
        BY DEF Range
      <3> HIDE DEF S, said, Telling
      <3>4. /\ \A n \in DOMAIN At(s, S) : Nth(S, n) \in S /\ At(s, S)[n] = s[Nth(S, n)]
            /\ \A i \in S : \E n \in DOMAIN At(s, S) : Nth(S, n) = i
        <4> DEFINE R == Range(s)
        <4>1. s \in Seq(R)
          BY ONLY <3>1
        <4> HIDE DEF R
        <4>2. /\ DOMAIN At(s, S) = 1 .. Cardinality(S)
              /\ \A n \in DOMAIN At(s, S) : Nth(S, n) \in S /\ At(s, S)[n] = s[Nth(S, n)]
          BY ONLY <3>1, <4>1, AtPlaces
        <4>3. S \in SUBSET Nat /\ IsFiniteSet(S)
          BY ONLY <3>1, <4>1, PlacesFinite
        <4>4. \A i \in S : \E n \in 1 .. Cardinality(S) : Nth(S, n) = i
          BY ONLY <4>3, PlacesInOrder
        <4>5. QED BY ONLY <4>2, <4>4
      <3>5. /\ \A n \in DOMAIN said : Nth(S, n) \in S /\ said[n] = s[Nth(S, n)]
            /\ \A i \in S : \E n \in DOMAIN said : Nth(S, n) = i
        BY ONLY <3>4 DEF said
      <3>6. \A x : x \in Range(said) <=> \E n \in DOMAIN said : x = said[n]
        BY ONLY DEF Range
      <3>7. \A x \in Range(said) : x \in Telling(s)
        BY ONLY <3>2, <3>5, <3>6
      <3>8. \A x \in Telling(s) : x \in Range(said)
        BY ONLY <3>3, <3>5, <3>6
      <3>9. QED BY ONLY <3>7, <3>8
    <2> HIDE DEF said, Telling
    <2>4. QED BY <2>2, <2>3
  <1>2. IsSequence(ms) /\ IsSequence(thread)
    BY DEF Batch, Turned
  <1>3. \A m \in Range(ms) : m.id \in Ids(thread) <=> m.root = root
    BY ThreadAlone
  <1>4. Telling(thread) = {m \in Telling(ms) : m.root = root}
    BY ThreadAlone
  <1>5. \A m \in Telling(ms) : SentimentFact(m).mention \in Ids(thread) <=> m.root = root
    <2>1. \A m : SentimentFact(m).mention = m.id
      BY DEF SentimentFact
    <2>2. QED BY <1>3, <2>1
  <1> HIDE DEF Telling
  <1>6. /\ Range(SentimentFacts(ms)) = {SentimentFact(m) : m \in Telling(ms)}
        /\ Range(SentimentFacts(thread)) = {SentimentFact(m) : m \in Telling(thread)}
    BY <1>1, <1>2
  <1>7. QED BY <1>4, <1>5, <1>6 DEF Within

(* Mentions of one id have one text and one root, if documents come in one *)
(* version: records alone tell them.  [normalization/usecase/usecase.py]   *)
LEMMA OneVersionBatch ==
    ASSUME MentionsOfRecords, OneVersion
    PROVE  Batch(facts.mentions)
  <1> DEFINE ms == facts.mentions
  <1>1. /\ ms \in Seq(Range(ms))
        /\ \A m \in Range(ms) : \E r \in Range(run.records) : Stems(m, r)
        /\ \A r \in Range(run.records) : r \in Records
    BY DEF MentionsOfRecords, ScenarioType, Range
  <1> HIDE DEF ms
  <1>2. ASSUME NEW m \in Range(ms) PROVE m.text \in DOMAIN Words
    <2>1. PICK r \in Range(run.records) : Stems(m, r)
      BY <1>1
    <2>2. r.text \in DOMAIN Opinions
      BY <1>1 DEF Records
    <2>3. QED BY <2>1, <2>2, PipelineAssumption DEF Stems
  <1>3. ASSUME NEW m \in Range(ms), NEW x \in Range(ms), x.id = m.id
        PROVE  x.text = m.text /\ x.root = m.root
    <2>1. PICK r \in Range(run.records) : Stems(m, r)
      BY <1>1
    <2>2. PICK s \in Range(run.records) : Stems(x, s)
      BY <1>1
    <2>3. r.doc \in {"doc"} \X Nat /\ s.doc \in {"doc"} \X Nat
      BY <1>1, <2>1, <2>2, RecordTypes
    <2>4. MentionId(r.doc) = MentionId(s.doc)
      BY <1>3, <2>1, <2>2 DEF Stems
    <2>5. r.doc = s.doc
      <3>1. r.doc[2] = s.doc[2]
        BY <2>4 DEF MentionId
      <3>2. r.doc = <<"doc", r.doc[2]>> /\ s.doc = <<"doc", s.doc[2]>>
        BY <2>3
      <3>3. QED BY <3>1, <3>2
    <2>6. r = s
      BY <2>5 DEF OneVersion
    <2>7. QED BY <2>1, <2>2, <2>6 DEF Stems
  <1>4. QED BY <1>1, <1>2, <1>3 DEF Batch, IsSequence, ms

(***************************************************************************)
(* In every run a thread is judged by what is said in it: its issues,      *)
(* aspects and sentiments, and how much echoes each, are those it would    *)
(* have alone, with its mentions the other way round.  What other threads  *)
(* name, say or repeat does not count.                                     *)
(***************************************************************************)
THEOREM ThreadsJudgedAlone == Spec => []SemanticLocal
  <1>1. MentionsOfRecords /\ ReportOfFacts => SemanticLocal
    <2> DEFINE ms == facts.mentions
               o == run.ontology
               made == EnrichMentions(ms, o)
    <2> SUFFICES ASSUME MentionsOfRecords, ReportOfFacts,
                        facts.enrichment # <<>>, OneVersion
                 PROVE  SemanticLocal
      BY DEF SemanticLocal
    <2>1. Batch(ms) /\ OntologyType(o)
      BY OneVersionBatch DEF MentionsOfRecords, ScenarioType
    <2>2. facts.enrichment[1] = made
      BY DEF ReportOfFacts
    <2>3. /\ made.issues = IssueFacts(ms, EntityFacts(ms, o), o)
          /\ made.aspects = AspectFacts(ms, EntityFacts(ms, o), o)
          /\ made.sentiments = SentimentFacts(ms)
      BY DEF EnrichMentions, Bundle
    <2> HIDE DEF ms, o, made
    <2>4. ASSUME NEW root, NEW thread, thread = Reverse(ThreadOf(root, ms))
          PROVE  /\ Within(Unplaced(made.issues), Ids(thread))
                       = Unplaced(IssueFacts(thread, EntityFacts(thread, o), o))
                 /\ Within(Unplaced(made.aspects), Ids(thread))
                       = Unplaced(AspectFacts(thread, EntityFacts(thread, o), o))
                 /\ Within(Range(made.sentiments), Ids(thread)) = Range(SentimentFacts(thread))
      <3>1. PICK at : Turned(at, root, ms, thread)
        BY <2>1, <2>4, ThreadTurned DEF Batch
      <3>2. QED BY <2>1, <2>3, <3>1, IssuesAlone, AspectsAlone, SentimentsAlone
    <2>5. QED BY <2>2, <2>4 DEF SemanticLocal, Unplaced, Within, ms, o
  <1>2. QED BY <1>1, MentionsStay, ReportStays, PTL
=============================================================================
