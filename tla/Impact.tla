-------------------------------- MODULE Impact -------------------------------
(***************************************************************************)
(* The impact and the risk of a post (internal/impact_calculation), with   *)
(* the default weights.  Engagement is in hundredths, reach, platforms and *)
(* sentiments in tenths, risk in hundredths.  reach: counts of a post are  *)
(* not negative, and the logarithm is that of a power of ten, at most 9.   *)
(***************************************************************************)
EXTENDS Integers, FiniteSetsExt

Labels == {"NEGATIVE", "NEUTRAL", "POSITIVE"}
RiskLevels == <<"LOW", "MEDIUM", "HIGH", "CRITICAL">>

\* SCORE_RATING_2, SCORE_RATING_3, SCORE_RATING_4: the model has three classes.
ScoreOf(label) == CASE label = "NEGATIVE" -> -50
                    [] label = "NEUTRAL"  -> 0
                    [] label = "POSITIVE" -> 50

\* calculate_engagement_score
Engagement(c) ==
    LET weighted == c.likes + 2 * c.comments + 3 * c.shares
    IN  Min({10000, IF c.views >= 100 THEN (10000 * weighted) \div c.views
                    ELSE 100 * weighted})

\* calculate_reach
Decades(n) == Cardinality({k \in 1 .. 9 : 10 ^ k <= n})
Reach(c) == Decades(c.followers + 1) * (IF c.verified THEN 12 ELSE 10)

Platforms == {"TIKTOK", "FACEBOOK", "YOUTUBE", "INSTAGRAM", "UNKNOWN"}
PlatformMultiplier(platform) ==
    CASE platform = "FACEBOOK" -> 12 [] platform = "YOUTUBE" -> 15
      [] platform = "INSTAGRAM" -> 11 [] OTHER -> 10

\* Mutant: the amplifiers of neutral and positive are swapped.
SentimentAmplifierSwapped(label) ==
    CASE label = "NEGATIVE" -> 15 [] label = "NEUTRAL" -> 11 [] OTHER -> 10

SentimentAmplifier(label) ==
    CASE label = "NEGATIVE" -> 15 [] label = "POSITIVE" -> 11 [] OTHER -> 10

\* The impact score is this, divided by ten to the eighth, and at most 100.
RawImpact(c, label) ==
    Engagement(c) * Reach(c) * PlatformMultiplier(c.platform) * SentimentAmplifier(label)

ViralThreshold == 70
KolThreshold == 50000
IsViral(c, label) == RawImpact(c, label) \div (10 ^ 8) >= ViralThreshold
IsKol(c) == c.followers >= KolThreshold

\* calculate_risk: shares weigh against likes and comments, and amplify what
\* sentiment and words of crisis say.
RiskBase(label, alarm) ==
    (IF ScoreOf(label) < -30 THEN 30 ELSE 0)
      + (IF ScoreOf(label) < -70 THEN 20 ELSE 0)
      + (IF alarm THEN 40 ELSE 0)
Others(c) == c.likes + c.comments + 1
Boost(c, base) == IF base >= 30 /\ 10 * c.shares > Others(c) THEN c.shares ELSE 0
Reaches(c, base, n) == base * (Others(c) + Boost(c, base)) >= n * Others(c)
LevelOf(c, base) ==
    CASE Reaches(c, base, 80) -> "CRITICAL"
      [] ~Reaches(c, base, 80) /\ Reaches(c, base, 60) -> "HIGH"
      [] ~Reaches(c, base, 60) /\ Reaches(c, base, 30) -> "MEDIUM"
      [] OTHER -> "LOW"
RiskLevel(c, label, alarm) == LevelOf(c, RiskBase(label, alarm))
RiskRank(level) == CHOOSE k \in DOMAIN RiskLevels : RiskLevels[k] = level
==============================================================================
