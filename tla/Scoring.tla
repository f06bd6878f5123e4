-------------------------------- MODULE Scoring --------------------------------
(***************************************************************************)
(* scoring/hidden_gem_v1.py and preliminary.py: the score of a light       *)
(* analysis (see LightAnalysis) with, in the end, a deep one: ok,          *)
(* relevance and originality (the model's suggestions or NoSuggestion),    *)
(* confidence, bonus (quality points for deep evidence).                   *)
(***************************************************************************)
EXTENDS Configuration, LightAnalysis

CONSTANT Config    \* the loaded configuration

ASSUME ScoringAssumption == Accepted(Config)

Scored == Config.scoring

NoSuggestion == -1

(* score_visibility, score_novelty: the first band the value falls in.        *)
BandPoints(bands, value) ==
    IF \E i \in DOMAIN bands : value <= bands[i].upto
    THEN bands[CHOOSE i \in DOMAIN bands :
                 value <= bands[i].upto /\ \A k \in 1..(i - 1) : value > bands[k].upto].points
    ELSE 0

(* score_activity, with the age of the same activity.                         *)
ActivityPoints(level, age) ==
    LET rules == Scored.activity
    IN IF level = "UNKNOWN" THEN rules.none
       ELSE IF level = "WEAK" /\ age <= GreaterOf(rules.strongDays, rules.moderateDays) THEN rules.weak
       ELSE IF level = "STRONG" /\ age <= rules.strongDays THEN rules.strong
       ELSE IF level = "MEDIUM" /\ age <= rules.strongDays THEN rules.medium
       ELSE IF level \in {"STRONG", "MEDIUM"} /\ age <= rules.moderateDays THEN rules.moderate
       ELSE rules.stale

(* score_quality: points and cap per prefix, the bonus of a confident deep    *)
(* analysis, the penalties; never more than the configured total.             *)
QualityRaw(signals) ==
    LesserOf(6, 3 * signals.implementation) + LesserOf(4, 2 * signals.structure)
      + LesserOf(4, signals.docs) + LesserOf(3, signals.tests)
      + LesserOf(2, signals.usability) + LesserOf(1, signals.hygiene)

QualityUnclamped(light, bonus) ==    \* mutant
    LesserOf(QualityTotal(Scored.quality), QualityRaw(light.signals) + LesserOf(4, bonus) - light.penalty)
QualityPoints(light, bonus) ==
    GreaterOf(0, LesserOf(QualityTotal(Scored.quality),
                          QualityRaw(light.signals) + LesserOf(4, bonus) - light.penalty))

RelevanceCap(areas)  == <<0, 12, 15, 18, 20>>[areas + 1]
RelevanceBase(areas) == LesserOf(<<0, 8, 11, 13, 14>>[areas + 1], Scored.relevanceMax)

IntersectionPoints(areas) == IF areas = 0 THEN 0 ELSE Scored.intersection[areas]

(* What both scores share: the candidate m has stars and an age in days.      *)
Fixed(m, light) ==
    ActivityPoints(light.level, light.age) + BandPoints(Scored.visibility, m.stars)
      + BandPoints(Scored.novelty, m.age) + IntersectionPoints(light.areas)

(* compute_preliminary_score and maximum_possible_score                       *)
Achieved(m, light) ==
    LesserOf(100, RelevanceBase(light.areas) + QualityPoints(light, 0) + Fixed(m, light))

PendingNothing(light) == 0    \* mutant
Pending(light) == GreaterOf(0, RelevanceCap(light.areas) - RelevanceBase(light.areas)) + Maxima.originality

MaximumPossible(m, light) == LesserOf(100, Achieved(m, light) + Pending(light))
CanReachNotification(m, light) == MaximumPossible(m, light) >= Scored.notification

(* compute_final_score.  The orchestrator passes no originality evidence, so  *)
(* a suggestion is worth two points at most, and without one there are none.  *)
Relevance(light, deep) ==
    IF deep.ok /\ deep.relevance # NoSuggestion
    THEN LesserOf(RelevanceCap(light.areas), GreaterOf(RelevanceBase(light.areas), deep.relevance))
    ELSE LesserOf(RelevanceCap(light.areas), RelevanceBase(light.areas))

Originality(deep) ==
    IF deep.ok /\ deep.originality # NoSuggestion THEN LesserOf(2, deep.originality) ELSE 0

DeepBonus(deep) == IF deep.ok /\ deep.confidence = "HIGH" THEN deep.bonus ELSE 0

Score(m, light, deep) ==
    [relevance    |-> Relevance(light, deep),
     quality      |-> QualityPoints(light, DeepBonus(deep)),
     activity     |-> ActivityPoints(light.level, light.age),
     visibility   |-> BandPoints(Scored.visibility, m.stars),
     novelty      |-> BandPoints(Scored.novelty, m.age),
     originality  |-> Originality(deep),
     intersection |-> IntersectionPoints(light.areas)]

Total(score) ==
    score.relevance + score.quality + score.activity + score.visibility + score.novelty
      + score.originality + score.intersection

(* HiddenGemScore.__post_init__: a score outside its range raises.            *)
Constructible(score) ==
    \A dimension \in DOMAIN Maxima : score[dimension] >= 0 /\ score[dimension] <= Maxima[dimension]

SignalCount(light) ==
    light.signals.implementation + light.signals.structure + light.signals.docs
      + light.signals.tests + light.signals.usability + light.signals.hygiene

Confidence(light, deep) ==
    LET strong == light.areas >= 2 \/ (light.areas = 1 /\ SignalCount(light) >= 3)
        deepConfidence == IF deep.ok THEN deep.confidence ELSE "NONE"
    IN IF deepConfidence = "HIGH" /\ strong THEN "HIGH"
       ELSE IF strong \/ (deepConfidence \in {"HIGH", "MEDIUM"} /\ light.areas >= 1) THEN "MEDIUM"
       ELSE "LOW"
==============================================================================
