--------------------------- MODULE ScreeningProofs ---------------------------
(***************************************************************************)
(* The screening of the candidates, for every accepted configuration and   *)
(* all inputs: pruning is safe, because the bound the orchestrator prunes  *)
(* by is at least every final score the candidate can still get; a read    *)
(* that fails rejects nothing, because evidence only adds to what the      *)
(* filter rejects for; chores make nothing strongly active; and the report *)
(* is the best of what was collected, one finding per gem.                 *)
(***************************************************************************)
EXTENDS Screening, NotificationRulesProofs

(* score_visibility and score_novelty give the points of a band, or none.     *)
LEMMA BandPointsType ==
    ASSUME NEW bands, AreBands(bands), NEW value \in Int
    PROVE  /\ BandPoints(bands, value) \in Nat
           /\ BandPoints(bands, value) = 0 \/ \E i \in DOMAIN bands : BandPoints(bands, value) = bands[i].points
<1> DEFINE n == Len(bands)
<1> DEFINE T == {i \in 1..n : value <= bands[i].upto}
<1>1. n \in Nat /\ DOMAIN bands = 1..n /\ \A i \in 1..n : bands[i].upto \in Int /\ bands[i].points \in Nat
  <2>1. \A r \in [upto : Nat, points : Nat] : r.upto \in Int /\ r.points \in Nat
    OBVIOUS
  <2> DEFINE B == [upto : Nat, points : Nat]
  <2>2. bands \in Seq(B)
    BY DEF AreBands
  <2> HIDE DEF B
  <2>3. n \in Nat /\ DOMAIN bands = 1..n /\ \A i \in 1..n : bands[i] \in B
    BY <2>2
  <2> QED BY <2>1, <2>3 DEF B
<1>2. CASE T = {}
  BY <1>1, <1>2 DEF BandPoints
<1>3. CASE T # {}
  <2>1. PICK x \in T : \A y \in T : x <= y
    BY <1>3, LeastNatural, T \subseteq Nat
  <2>2. \A k \in 1..(x - 1) : k \in 1..n /\ k \notin T
    BY <1>1, <2>1
  <2>3. x \in 1..n /\ value <= bands[x].upto /\ \A k \in 1..(x - 1) : value > bands[k].upto
    BY <2>1, <2>2, <1>1
  <2>4. BandPoints(bands, value) =
          bands[CHOOSE i \in DOMAIN bands :
                  value <= bands[i].upto /\ \A k \in 1..(i - 1) : value > bands[k].upto].points
    BY <1>1, <2>3 DEF BandPoints
  <2>5. (CHOOSE i \in DOMAIN bands :
           value <= bands[i].upto /\ \A k \in 1..(i - 1) : value > bands[k].upto) \in 1..n
    BY <1>1, <2>3
  <2> QED BY <2>4, <2>5, <1>1
<1> QED BY <1>2, <1>3

-----------------------------------------------------------------------------
(* classify_activity: the higher of two levels is STRONG when one of them is. *)
LEMMA StrongIsHighest ==
    ASSUME NEW a \in ToSet(Levels), NEW b \in ToSet(Levels)
    PROVE  /\ AtLeastLevel(a, b) \in ToSet(Levels)
           /\ AtLeastLevel(a, b) = "STRONG" <=> a = "STRONG" \/ b = "STRONG"
<1>1. /\ DOMAIN Levels = 1..5 /\ Levels[1] = "UNKNOWN" /\ Levels[2] = "STALE" /\ Levels[3] = "WEAK"
      /\ Levels[4] = "MEDIUM" /\ Levels[5] = "STRONG"
  BY DEF Levels
<1>2. ToSet(Levels) = {"UNKNOWN", "STALE", "WEAK", "MEDIUM", "STRONG"}
  BY DEF ToSet, Levels
<1>3. ASSUME NEW l \in ToSet(Levels)
      PROVE  LET i == CHOOSE i \in DOMAIN Levels : Levels[i] = l
             IN i \in 1..5 /\ Levels[i] = l /\ (i = 5 <=> l = "STRONG")
  <2>1. \E i \in DOMAIN Levels : Levels[i] = l
    BY <1>1, <1>2
  <2> DEFINE i == CHOOSE i \in DOMAIN Levels : Levels[i] = l
  <2>2. i \in DOMAIN Levels /\ Levels[i] = l
    BY <2>1
  <2> HIDE DEF i
  <2>3. i \in 1..5 /\ Levels[i] = l /\ (i = 5 <=> l = "STRONG")
    BY <1>1, <2>2
  <2> QED
    BY <2>3 DEF i
<1> DEFINE ia == CHOOSE i \in DOMAIN Levels : Levels[i] = a
           ib == CHOOSE i \in DOMAIN Levels : Levels[i] = b
<1>4. ia \in 1..5 /\ (ia = 5 <=> a = "STRONG") /\ ib \in 1..5 /\ (ib = 5 <=> b = "STRONG")
  BY <1>3
<1>5. AtLeastLevel(a, b) = Levels[GreaterOf(ia, ib)]
  BY DEF AtLeastLevel
<1> HIDE DEF ia, ib
<1>6. GreaterOf(ia, ib) \in 1..5 /\ (GreaterOf(ia, ib) = 5 <=> ia = 5 \/ ib = 5)
  BY <1>4 DEF GreaterOf
<1> QED
  BY <1>1, <1>2, <1>4, <1>5, <1>6

(* A repository is strongly active by a recent release or by its substantive  *)
(* commits, and by nothing else.                                              *)
LEMMA StrongBecause ==
    ASSUME NEW c
    PROVE  /\ ActivityLevel(c) \in ToSet(Levels)
           /\ ActivityLevel(c) = "STRONG" <=> Released(c, RecentDays) \/ CommitLevel(c.commits) = "STRONG"
<1> DEFINE release == IF Released(c, RecentDays) THEN "STRONG" ELSE "UNKNOWN"
           commits == CommitLevel(c.commits)
           level   == AtLeastLevel(release, commits)
<1>1. ToSet(Levels) = {"UNKNOWN", "STALE", "WEAK", "MEDIUM", "STRONG"}
  BY DEF ToSet, Levels
<1>2. commits \in {"UNKNOWN", "WEAK", "MEDIUM", "STRONG"}
  BY DEF CommitLevel
<1>3. ActivityLevel(c) \in {level, AtLeastLevel(level, "MEDIUM"), AtLeastLevel(level, "STALE")}
  <2> HIDE DEF level
  <2>1. ActivityLevel(c) = IF RelevantAge(c) = Never THEN level
                           ELSE AtLeastLevel(level, IF RelevantAge(c) <= ModerateDays THEN "MEDIUM" ELSE "STALE")
    BY DEF ActivityLevel, level
  <2> QED
    BY <2>1
<1>4. release \in ToSet(Levels) /\ (release = "STRONG" <=> Released(c, RecentDays))
  BY <1>1
<1> HIDE DEF release, commits
<1>5. level \in ToSet(Levels) /\ (level = "STRONG" <=> release = "STRONG" \/ commits = "STRONG")
  BY <1>1, <1>2, <1>4, StrongIsHighest
<1> HIDE DEF level
<1>6. /\ AtLeastLevel(level, "MEDIUM") \in ToSet(Levels) /\ AtLeastLevel(level, "STALE") \in ToSet(Levels)
      /\ AtLeastLevel(level, "MEDIUM") = "STRONG" <=> level = "STRONG"
      /\ AtLeastLevel(level, "STALE") = "STRONG" <=> level = "STRONG"
  BY <1>1, <1>5, StrongIsHighest
<1> QED
  BY <1>3, <1>4, <1>5, <1>6 DEF commits

-----------------------------------------------------------------------------
(* What every light analysis is.                                              *)
SignalNames == {"implementation", "structure", "docs", "tests", "usability", "hygiene"}

Typed(l) ==
    /\ l.areas \in 0..4
    /\ l.penalty \in 0..9
    /\ l.level \in ToSet(Levels)
    /\ \A name \in SignalNames : l.signals[name] \in Int

(* At most the four areas are detected.                                       *)
LEMMA AreaCountRange ==
    ASSUME NEW m, NEW c, m.areas \subseteq AreaIds, c.readme.areas \subseteq AreaIds,
           c.tree.areas \subseteq AreaIds
    PROVE  AreaCount(m, c) \in 0..4
<1>1. DetectedAreas(m, c) \subseteq AreaIds
  BY DEF DetectedAreas
<1>2. IsFiniteSet(AreaIds) /\ Cardinality(AreaIds) <= 4
  <2>1. AreaIds = (({"ai_agents"} \union {"automation"}) \union {"data"}) \union {"trading"}
    BY DEF AreaIds
  <2>2. IsFiniteSet({"ai_agents"}) /\ Cardinality({"ai_agents"}) = 1
    BY FS_Singleton
  <2>3. ASSUME NEW S, IsFiniteSet(S), NEW x
        PROVE  IsFiniteSet(S \union {x}) /\ Cardinality(S \union {x}) <= Cardinality(S) + 1
    <3>1. IsFiniteSet(S \union {x}) /\ Cardinality(S) \in Nat
      BY <2>3, FS_AddElement, FS_CardinalityType
    <3>2. Cardinality(S \union {x}) = IF x \in S THEN Cardinality(S) ELSE Cardinality(S) + 1
      BY <2>3, FS_AddElement
    <3> QED BY <3>1, <3>2
  <2> DEFINE two == {"ai_agents"} \union {"automation"}
  <2> DEFINE three == two \union {"data"}
  <2> DEFINE four == three \union {"trading"}
  <2> HIDE DEF two, three, four
  <2>4. IsFiniteSet(two) /\ Cardinality(two) <= 2
    BY <2>2, <2>3 DEF two
  <2>5. IsFiniteSet(three) /\ Cardinality(three) <= 3
    <3>1. Cardinality(two) \in Nat /\ Cardinality(three) \in Nat
      BY <2>3, <2>4, FS_CardinalityType DEF three
    <3>2. IsFiniteSet(three) /\ Cardinality(three) <= Cardinality(two) + 1
      BY <2>3, <2>4 DEF three
    <3> QED BY <2>4, <3>1, <3>2
  <2>6. IsFiniteSet(four) /\ Cardinality(four) <= 4
    <3>1. Cardinality(three) \in Nat /\ Cardinality(four) \in Nat
      BY <2>3, <2>5, FS_CardinalityType DEF four
    <3>2. IsFiniteSet(four) /\ Cardinality(four) <= Cardinality(three) + 1
      BY <2>3, <2>5 DEF four
    <3> QED BY <2>5, <3>1, <3>2
  <2> QED BY <2>1, <2>6 DEF two, three, four
<1>3. Cardinality(DetectedAreas(m, c)) \in Nat /\ Cardinality(DetectedAreas(m, c)) <= 4
  BY <1>1, <1>2, FS_Subset, FS_CardinalityType
<1> QED BY <1>3 DEF AreaCount

(* Whatever could be read, the analysis is typed.                             *)
LEMMA AnalysisTyped ==
    ASSUME NEW m, NEW c, NEW reads_, m.areas \subseteq AreaIds,
           c.readme.areas \subseteq AreaIds, c.tree.areas \subseteq AreaIds
    PROVE  Typed(Analysis(m, ReadOf(c, reads_)))
<1> DEFINE read == ReadOf(c, reads_)
<1>1. read.readme.areas \subseteq AreaIds
  BY DEF ReadOf, NoReadme
<1>2. read.tree.areas \subseteq AreaIds
  BY DEF ReadOf, NoTree
<1>3. AreaCount(m, read) \in 0..4
  BY <1>1, <1>2, AreaCountRange
<1>4. \A b : Points(b) \in 0..1
  BY DEF Points
<1>5. Penalty(m, read) \in 0..9
  <2>1. \A a, b, d, e, f \in 0..1 : 2 * a + b + d + 2 * e + 3 * f \in 0..9
    OBVIOUS
  <2> HIDE DEF read
  <2> QED
    BY <1>4, <2>1 DEF Penalty
<1>6. \A name \in SignalNames : QualitySignals(m, read)[name] \in Int
  BY <1>4 DEF QualitySignals, SignalNames
<1>7. ActivityLevel(read) \in ToSet(Levels)
  BY StrongBecause
<1> HIDE DEF read
<1>8. Typed(Analysis(m, read))
  BY <1>3, <1>5, <1>6, <1>7 DEF Typed, Analysis
<1> QED BY <1>8 DEF read

LEMMA AnalysisOfInputs ==
    ASSUME NEW g \in Gems, NEW m \in Inputs[g].metas, NEW c \in Inputs[g].contents, NEW reads_
    PROVE  Typed(Analysis(m, ReadOf(c, reads_)))
<1>1. IsMeta(m) /\ IsContents(c)
  BY ScreeningAssumption
<1>2. m.areas \subseteq AreaIds
  BY <1>1 DEF IsMeta
<1>3. c.readme.areas \subseteq AreaIds /\ c.tree.areas \subseteq AreaIds
  BY <1>1, Zenon DEF IsContents
<1> QED BY <1>2, <1>3, AnalysisTyped

-----------------------------------------------------------------------------
(* What the accepted configurations guarantee the score.                      *)
LEMMA ConfigTyped ==
    /\ AreBands(Scored.visibility) /\ AreBands(Scored.novelty)
    /\ \A k \in ActivityKeys : Scored.activity[k] \in Int
    /\ \A k \in QualityKeys : Scored.quality[k] \in Int
    /\ \A k \in 1..4 : Scored.intersection[k] \in Int
    /\ Scored.relevanceMax \in Int /\ Scored.notification \in Int
    /\ Scored.notification < 100
<1>1. ScoringParsed(Scored) /\ ScoringValid(Scored)
  BY ScoringAssumption DEF Scored, Accepted
<1>2. Scored.relevanceMax \in Int /\ Scored.notification \in Int /\ Scored.exceptional \in Int
  BY <1>1 DEF ScoringParsed, AtLeast
<1>3. Scored.notification < 100
  <2>1. Scored.notification < Scored.exceptional /\ Scored.exceptional <= 100
    BY <1>1 DEF ScoringValid
  <2> QED BY <1>2, <2>1
<1>4. \A k \in ActivityKeys : Scored.activity[k] \in Int
  BY <1>1 DEF ScoringParsed, AtLeast
<1>5. \A k \in QualityKeys : Scored.quality[k] \in Int
  BY <1>1 DEF ScoringParsed, AtLeast
<1>6. \A k \in 1..4 : Scored.intersection[k] \in Int
  BY <1>1 DEF ScoringParsed, AtLeast
<1>7. AreBands(Scored.visibility) /\ AreBands(Scored.novelty)
  BY <1>1 DEF ScoringParsed
<1> QED BY <1>2, <1>3, <1>4, <1>5, <1>6, <1>7

(* The points both scores share are a whole number.                           *)
LEMMA FixedType ==
    ASSUME NEW m, NEW l, m.stars \in Int, m.age \in Int, Typed(l)
    PROVE  /\ ActivityPoints(l.level, l.age) \in Int
           /\ BandPoints(Scored.visibility, m.stars) \in Int
           /\ BandPoints(Scored.novelty, m.age) \in Int
           /\ IntersectionPoints(l.areas) \in Int
<1>1. ActivityPoints(l.level, l.age) \in Int
  BY ConfigTyped, Zenon DEF ActivityPoints, ActivityKeys
<1>2. BandPoints(Scored.visibility, m.stars) \in Int /\ BandPoints(Scored.novelty, m.age) \in Int
  BY ConfigTyped, BandPointsType
<1>3. IntersectionPoints(l.areas) \in Int
  <2>1. l.areas \in 0..4
    BY DEF Typed
  <2>2. l.areas # 0 => l.areas \in 1..4
    BY <2>1
  <2> QED BY <2>2, ConfigTyped DEF IntersectionPoints
<1> QED BY <1>1, <1>2, <1>3

(* A bonus is worth four points of quality at most.                           *)
LEMMA QualityBounded ==
    ASSUME NEW l, Typed(l), NEW bonus \in Int
    PROVE  /\ QualityPoints(l, 0) \in Int /\ QualityPoints(l, bonus) \in Int
           /\ QualityPoints(l, bonus) <= QualityPoints(l, 0) + 4
<1>1. QualityTotal(Scored.quality) \in Int
  BY ConfigTyped DEF QualityTotal, QualityKeys
<1>2. l.penalty \in Int
  BY DEF Typed
<1>3. QualityRaw(l.signals) \in Int
  <2>1. /\ l.signals.implementation \in Int /\ l.signals.structure \in Int /\ l.signals.docs \in Int
        /\ l.signals.tests \in Int /\ l.signals.usability \in Int /\ l.signals.hygiene \in Int
    BY DEF Typed, SignalNames
  <2>2. 3 * l.signals.implementation \in Int /\ 2 * l.signals.structure \in Int
    BY <2>1
  <2>3. LesserOf(6, 3 * l.signals.implementation) \in Int
    BY <2>2 DEF LesserOf
  <2>4. LesserOf(4, 2 * l.signals.structure) \in Int
    BY <2>2 DEF LesserOf
  <2>5. LesserOf(4, l.signals.docs) \in Int /\ LesserOf(3, l.signals.tests) \in Int
    BY <2>1 DEF LesserOf
  <2>6. LesserOf(2, l.signals.usability) \in Int /\ LesserOf(1, l.signals.hygiene) \in Int
    BY <2>1 DEF LesserOf
  <2> QED BY <2>3, <2>4, <2>5, <2>6 DEF QualityRaw
<1>4. \A q, r, p, b \in Int :
        LET points(x) == GreaterOf(0, LesserOf(q, r + LesserOf(4, x) - p))
        IN points(0) \in Int /\ points(b) \in Int /\ points(b) <= points(0) + 4
  BY DEF LesserOf, GreaterOf
<1> QED BY <1>1, <1>2, <1>3, <1>4 DEF QualityPoints

(* The model's relevance stays below the cap of the areas, and its            *)
(* originality is worth two points at most.                                   *)
LEMMA SuggestionsBounded ==
    ASSUME NEW l, Typed(l), NEW deep, deep.relevance \in Int, deep.originality \in Int
    PROVE  /\ RelevanceCap(l.areas) \in Int /\ RelevanceBase(l.areas) \in Int
           /\ Relevance(l, deep) \in Int /\ Relevance(l, deep) <= RelevanceCap(l.areas)
           /\ Originality(deep) \in Int /\ Originality(deep) <= 2
<1>1. RelevanceCap(l.areas) \in Int
  BY DEF Typed, RelevanceCap
<1>2. RelevanceBase(l.areas) \in Int
  <2>1. <<0, 8, 11, 13, 14>>[l.areas + 1] \in Int
    BY DEF Typed
  <2> QED BY <2>1, ConfigTyped DEF RelevanceBase, LesserOf
<1>3. Relevance(l, deep) \in Int /\ Relevance(l, deep) <= RelevanceCap(l.areas)
  BY <1>1, <1>2 DEF Relevance, LesserOf, GreaterOf
<1>4. Originality(deep) \in Int /\ Originality(deep) <= 2
  BY DEF Originality, LesserOf
<1> QED BY <1>1, <1>2, <1>3, <1>4

(* The bound is arithmetic: what is pending covers relevance up to its cap    *)
(* and, with the ten points of originality, the six that can really come.     *)
LEMMA BoundCovers ==
    ASSUME NEW base \in Int, NEW cap \in Int, NEW fixed \in Int, NEW q0 \in Int, NEW q1 \in Int,
           NEW r \in Int, NEW o \in Int, NEW threshold \in Int,
           threshold < 100, q1 <= q0 + 4, r <= cap, o <= 2,
           LesserOf(100, LesserOf(100, base + q0 + fixed) + (GreaterOf(0, cap - base) + 10)) < threshold
    PROVE  r + q1 + fixed + o < threshold
BY DEF LesserOf, GreaterOf

(* maximum_possible_score bounds the final score, for every configuration     *)
(* that load_config accepts, any analysis and any answer of the model.        *)
LEMMA PruningIsSafe ==
    ASSUME NEW m, NEW l, NEW deep, m.stars \in Int, m.age \in Int, Typed(l),
           AtLeast(NoSuggestion, deep, {"relevance", "originality"}), AtLeast(0, deep, {"bonus"}),
           ~CanReachNotification(m, l)
    PROVE  /\ Total(Score(m, l, deep)) \in Int
           /\ Total(Score(m, l, deep)) < Scored.notification
<1>1. deep.relevance \in Int /\ deep.originality \in Int /\ deep.bonus \in Int
  BY DEF AtLeast
<1>2. DeepBonus(deep) \in Int
  BY <1>1 DEF DeepBonus
<1> DEFINE base == RelevanceBase(l.areas)
<1> DEFINE cap == RelevanceCap(l.areas)
<1> DEFINE a == ActivityPoints(l.level, l.age)
<1> DEFINE v == BandPoints(Scored.visibility, m.stars)
<1> DEFINE n == BandPoints(Scored.novelty, m.age)
<1> DEFINE i == IntersectionPoints(l.areas)
<1> DEFINE q0 == QualityPoints(l, 0)
<1> DEFINE q1 == QualityPoints(l, DeepBonus(deep))
<1> DEFINE r == Relevance(l, deep)
<1> DEFINE o == Originality(deep)
<1> DEFINE threshold == Scored.notification
<1>3. a \in Int /\ v \in Int /\ n \in Int /\ i \in Int
  BY FixedType
<1>4. q0 \in Int /\ q1 \in Int /\ q1 <= q0 + 4
  BY <1>2, QualityBounded
<1>5. cap \in Int /\ base \in Int /\ r \in Int /\ r <= cap /\ o \in Int /\ o <= 2
  BY <1>1, SuggestionsBounded
<1>6. threshold \in Int /\ threshold < 100
  BY ConfigTyped
<1>7. Total(Score(m, l, deep)) = r + q1 + a + v + n + o + i
  BY DEF Total, Score
<1>8. MaximumPossible(m, l) =
        LesserOf(100, LesserOf(100, base + q0 + (a + v + n + i)) + (GreaterOf(0, cap - base) + 10))
  BY DEF MaximumPossible, Achieved, Pending, Fixed, Maxima
<1>9. ~(MaximumPossible(m, l) >= threshold)
  BY DEF CanReachNotification
<1> HIDE DEF base, cap, a, v, n, i, q0, q1, r, o, threshold
<1>10. LesserOf(100, LesserOf(100, base + q0 + (a + v + n + i)) + (GreaterOf(0, cap - base) + 10)) < threshold
  BY <1>3, <1>4, <1>5, <1>6, <1>8, <1>9 DEF LesserOf, GreaterOf
<1>11. a + v + n + i \in Int
  BY <1>3
<1>12. r + q1 + (a + v + n + i) + o < threshold
  BY <1>4, <1>5, <1>6, <1>10, <1>11, BoundCovers
<1>13. /\ r + q1 + a + v + n + o + i \in Int
       /\ r + q1 + a + v + n + o + i < threshold
  BY <1>3, <1>4, <1>5, <1>6, <1>12
<1> QED BY <1>7, <1>13 DEF threshold

-----------------------------------------------------------------------------
(* The filter.  What it rejects for, and how evidence adds to it.             *)
LEMMA PassesWhen ==
    ASSUME NEW m, NEW e
    PROVE  Passes(m, e) <=> /\ ~m.fork /\ ~m.archived /\ ~EmptyRejects(m, e) /\ ~m.template /\ ~Irrelevant(e)
                            /\ Condemned(m, e) = {}
<1> DEFINE first == CHOOSE i \in Condemned(m, e) : \A k \in Condemned(m, e) : i <= k
<1>1. ASSUME Condemned(m, e) # {}
      PROVE  Rejections[first] # "PASS"
  <2>1. Condemned(m, e) \subseteq {1, 2, 3, 4}
    BY DEF Condemned, Kinds
  <2>2. PICK x \in Condemned(m, e) : \A k \in Condemned(m, e) : x <= k
    <3> HIDE DEF first
    <3> QED
      BY <1>1, <2>1, LeastNatural, Condemned(m, e) \subseteq Nat
  <2>3. first \in Condemned(m, e)
    BY <2>2
  <2> HIDE DEF first
  <2>4. first \in {1, 2, 3, 4}
    BY <2>1, <2>3
  <2> QED
    BY <2>4 DEF Rejections
<1>2. Verdict(m, e) =
        IF m.fork THEN "REJECT_FORK"
        ELSE IF m.archived THEN "REJECT_ARCHIVED"
        ELSE IF EmptyRejects(m, e) THEN "REJECT_EMPTY"
        ELSE IF m.template THEN "REJECT_TEMPLATE"
        ELSE IF Irrelevant(e) THEN "REJECT_IRRELEVANT"
        ELSE IF Condemned(m, e) = {} THEN "PASS"
        ELSE Rejections[first]
  BY DEF Verdict
<1> HIDE DEF first
<1> QED
  BY <1>1, <1>2 DEF Passes

(* Evidence that says no less: wording is only added, the topics are known,   *)
(* and the tree was not read or is the same.                                  *)
Adds(e, f) ==
    /\ e.wording \subseteq f.wording /\ IsFiniteSet(f.wording)
    /\ <<"template", "template topic">> \in f.wording => <<"template", "template topic">> \in e.wording
    /\ \/ ~e.paths /\ ~e.placeholders
       \/ /\ e.paths = f.paths /\ e.sources = f.sources /\ e.hasTests = f.hasTests
          /\ e.placeholders = f.placeholders

LEMMA WordingGrows ==
    ASSUME NEW e, NEW f, Adds(e, f), NEW kind
    PROVE  Wording(e, kind) \subseteq Wording(f, kind) /\ IsFiniteSet(Wording(f, kind))
<1>1. Wording(e, kind) \subseteq Wording(f, kind)
  BY DEF Wording, Adds
<1> DEFINE places == {w[2] : w \in f.wording}
<1>2. IsFiniteSet(places)
  <2> DEFINE place == [w \in f.wording |-> w[2]]
  <2>1. place \in Surjection(f.wording, places)
    BY Fun_IsSurj
  <2> QED
    BY <2>1, FS_Surjection DEF Adds
<1>3. IsFiniteSet(Wording(f, kind))
  BY <1>2, FS_Subset DEF Wording
<1> QED
  BY <1>1, <1>3

LEMMA SignalsGrow ==
    ASSUME NEW m, NEW e, NEW f, Adds(e, f), NEW i \in DOMAIN Kinds
    PROVE  Signals(m, e, Kinds[i]) \subseteq Signals(m, f, Kinds[i]) /\ IsFiniteSet(Signals(m, f, Kinds[i]))
<1> DEFINE kind == Kinds[i]
           w(x)  == Wording(x, kind)
           t1(x) == TreeSignal(kind = "tutorial" /\ Minimal(x), "tree")
           t2(x) == TreeSignal(kind = "template" /\ x.placeholders, "placeholders")
           t3(x) == TreeSignal(kind \in {"template", "demo"} /\ Minimal(x) /\ ~x.hasTests, "tree")
           t4(x) == TreeSignal(kind = "spam" /\ x.paths /\ x.sources = 0, "tree")
<1>1. TemplateMetadata(m, e) <=> TemplateMetadata(m, f)
  BY DEF Adds, TemplateMetadata
<1>2. w(e) \subseteq w(f) /\ IsFiniteSet(w(f))
  BY WordingGrows
<1>3. t1(e) \subseteq t1(f) /\ t2(e) \subseteq t2(f) /\ t3(e) \subseteq t3(f) /\ t4(e) \subseteq t4(f)
  BY DEF TreeSignal, Minimal, Adds
<1>4. IsFiniteSet(t1(f)) /\ IsFiniteSet(t2(f)) /\ IsFiniteSet(t3(f)) /\ IsFiniteSet(t4(f)) /\ IsFiniteSet({"metadata"})
  BY FS_EmptySet, FS_Singleton DEF TreeSignal
<1>5. \A x : Signals(m, x, kind) = IF kind = "template" /\ TemplateMetadata(m, x) THEN {"metadata"}
                                  ELSE w(x) \union t1(x) \union t2(x) \union t3(x) \union t4(x)
  BY Zenon DEF Signals
<1> HIDE DEF kind, w, t1, t2, t3, t4
<1>6. IsFiniteSet(w(f) \union t1(f) \union t2(f) \union t3(f) \union t4(f))
  <2>1. IsFiniteSet(w(f) \union t1(f))
    BY <1>2, <1>4, FS_Union
  <2>2. IsFiniteSet(w(f) \union t1(f) \union t2(f))
    BY <2>1, <1>4, FS_Union
  <2>3. IsFiniteSet(w(f) \union t1(f) \union t2(f) \union t3(f))
    BY <2>2, <1>4, FS_Union
  <2> QED
    BY <2>3, <1>4, FS_Union
<1>7. Signals(m, e, kind) \subseteq Signals(m, f, kind) /\ IsFiniteSet(Signals(m, f, kind))
  <2>1. CASE kind = "template" /\ TemplateMetadata(m, f)
    BY <2>1, <1>1, <1>4, <1>5
  <2>2. CASE ~ (kind = "template" /\ TemplateMetadata(m, f))
    <3>1. /\ Signals(m, e, kind) = w(e) \union t1(e) \union t2(e) \union t3(e) \union t4(e)
          /\ Signals(m, f, kind) = w(f) \union t1(f) \union t2(f) \union t3(f) \union t4(f)
      BY <2>2, <1>1, <1>5
    <3> QED
      BY <3>1, <1>2, <1>3, <1>6
  <2> QED
    BY <2>1, <2>2
<1> QED
  BY <1>7 DEF kind

LEMMA CondemnedGrows ==
    ASSUME NEW m, NEW e, NEW f, Adds(e, f)
    PROVE  Condemned(m, e) \subseteq Condemned(m, f)
<1> SUFFICES ASSUME NEW i \in DOMAIN Kinds, Cardinality(Signals(m, e, Kinds[i])) >= 2
             PROVE  Cardinality(Signals(m, f, Kinds[i])) >= 2
  BY DEF Condemned
<1> DEFINE S == Signals(m, e, Kinds[i])
           T == Signals(m, f, Kinds[i])
<1>1. S \in SUBSET T /\ IsFiniteSet(T)
  BY SignalsGrow
<1> HIDE DEF S, T
<1>2. IsFiniteSet(S) /\ Cardinality(S) <= Cardinality(T) /\ Cardinality(S) \in Nat /\ Cardinality(T) \in Nat
  BY <1>1, FS_Subset, FS_CardinalityType
<1> QED
  BY <1>2 DEF S, T

(* evaluate_candidate: what the metadata and everything read let pass also    *)
(* passes when some of the reads failed.                                      *)
LEMMA FailedReadsPass ==
    ASSUME NEW m, NEW c, NEW some, IsMeta(m), IsContents(c), some \subseteq AllReads,
           Passes(m, Evidence(m, Unread)), Passes(m, Evidence(m, ReadOf(c, AllReads)))
    PROVE  Passes(m, Evidence(m, ReadOf(c, some)))
<1> DEFINE none == Evidence(m, Unread)
           all  == Evidence(m, ReadOf(c, AllReads))
           e    == Evidence(m, ReadOf(c, some))
           t    == ReadOf(c, some).tree
           r    == ReadOf(c, some).readme
<1>1. /\ ReadOf(c, AllReads).tree = c.tree /\ ReadOf(c, AllReads).readme = c.readme
      /\ Unread.readme = NoReadme /\ Unread.tree = NoTree
  BY DEF ReadOf, AllReads, Unread
<1>2. r = IF "readme" \in some THEN c.readme ELSE NoReadme
  BY DEF ReadOf
<1>3. IF "tree" \in some
      THEN /\ t.paths = c.tree.paths /\ t.meaningful = c.tree.meaningful /\ t.sources = c.tree.sources
           /\ t.hasTests = c.tree.hasTests /\ t.placeholders = c.tree.placeholders
      ELSE t.paths = FALSE /\ t.placeholders = FALSE
  <2>1. CASE "tree" \notin some
    BY <2>1 DEF ReadOf, NoTree
  <2>2. CASE "tree" \in some
    <3>1. t \in {c.tree, [c.tree EXCEPT !.manifests = FALSE, !.areas = {}]}
      BY <2>2 DEF ReadOf
    <3>2. c.tree = [name \in DOMAIN NoTree |-> c.tree[name]]
      BY DEF IsContents
    <3>3. /\ DOMAIN NoTree = {"paths", "meaningful", "code", "sources", "hasTests", "placeholders", "known",
                              "spread", "sourceDirectory", "testHint", "license", "ci", "examples", "topDocs",
                              "small", "manifests", "areas"}
      BY DEF NoTree
    <3> HIDE DEF t
    <3> QED
      BY <2>2, <3>1, <3>2, <3>3
  <2> QED
    BY <2>1, <2>2
<1>4. /\ e.area = (IF m.area >= r.area THEN m.area ELSE r.area) /\ e.wording = m.wording \union r.wording
      /\ e.paths = t.paths /\ e.meaningful = t.meaningful /\ e.sources = t.sources /\ e.hasTests = t.hasTests
      /\ e.placeholders = t.placeholders
  BY DEF Evidence
<1>5. /\ all.wording = m.wording \union c.readme.wording /\ all.paths = c.tree.paths
      /\ all.meaningful = c.tree.meaningful /\ all.sources = c.tree.sources /\ all.hasTests = c.tree.hasTests
      /\ all.placeholders = c.tree.placeholders
  BY <1>1 DEF Evidence
<1>6. none.paths = FALSE /\ none.area = (IF m.area >= 0 THEN m.area ELSE 0)
  BY <1>1 DEF Evidence, NoTree, NoReadme
<1>7. m.area \in Nat /\ r.area \in Nat
  <2>1. m.area \in Nat /\ c.readme.area \in Nat
    BY DEF IsMeta, IsContents
  <2> HIDE DEF r
  <2> QED
    BY <1>2, <2>1 DEF NoReadme
<1> HIDE DEF none, all, e, t, r
<1>8. /\ ~m.fork /\ ~m.archived /\ ~m.template
      /\ ~EmptyRejects(m, none) /\ ~EmptyRejects(m, all) /\ ~Irrelevant(none) /\ Condemned(m, all) = {}
  BY PassesWhen DEF none, all
<1>9. ~EmptyRejects(m, e)
  BY <1>3, <1>4, <1>5, <1>6, <1>8 DEF EmptyRejects
<1>10. ~Irrelevant(e)
  BY <1>4, <1>6, <1>7, <1>8 DEF Irrelevant
<1>11. Adds(e, all)
  <2>1. r.wording \subseteq c.readme.wording
    BY <1>2 DEF NoReadme
  <2>2. IsFiniteSet(m.wording) /\ IsFiniteSet(c.readme.wording)
    BY DEF IsMeta, IsContents
  <2>5. IsFiniteSet(all.wording)
    BY <1>5, <2>2, FS_Union
  <2>3. <<"template", "template topic">> \notin c.readme.wording
    BY DEF IsContents
  <2>4. \/ ~e.paths /\ ~e.placeholders
        \/ /\ e.paths = all.paths /\ e.sources = all.sources /\ e.hasTests = all.hasTests
           /\ e.placeholders = all.placeholders
    BY <1>3, <1>4, <1>5
  <2> QED
    BY <1>4, <1>5, <2>1, <2>5, <2>3, <2>4 DEF Adds
<1>12. Condemned(m, e) = {}
  BY <1>8, <1>11, CondemnedGrows
<1> QED
  BY <1>8, <1>9, <1>10, <1>12, PassesWhen DEF e

-----------------------------------------------------------------------------
(* Along the phases: the metadata and the contents are among those of the     *)
(* gem, and a pruned candidate has a typed analysis and a bound too small.    *)
Screened ==
    /\ stage \notin {"next", "aborted", "scored"} => gem \in Gems /\ meta \in Inputs[gem].metas
    /\ stage = "read" => contents \in Inputs[gem].contents
    /\ stage \in {"analysed", "kept", "pruned"} => Typed(light)
    /\ stage = "pruned" => ~CanReachNotification(meta, light)

LEMMA ScreenedInit == Init => Screened
BY DEF Init, Screened

LEMMA ScreenedNext == Screened /\ [Next]_vars => Screened'
<1> SUFFICES ASSUME Screened, [Next]_vars PROVE Screened'
  OBVIOUS
<1>1. CASE Discover
  BY <1>1 DEF Discover, Screened
<1>2. CASE Admit
  BY <1>2 DEF Admit, Screened
<1>3. CASE LightAnalyse
  BY <1>3 DEF LightAnalyse, Screened
<1>4. CASE AdmitAgain
  <2>1. stage = "read" /\ gem \in Gems /\ meta \in Inputs[gem].metas /\ contents \in Inputs[gem].contents
    BY <1>4 DEF AdmitAgain, Screened
  <2>2. Typed(Analysis(meta, ReadOf(contents, reads)))
    BY <2>1, AnalysisOfInputs
  <2>3. \/ stage' = "analysed" /\ light' = Analysis(meta, ReadOf(contents, reads))
        \/ stage' = "refused"
    BY <1>4 DEF AdmitAgain
  <2>4. gem' = gem /\ meta' = meta
    BY <1>4 DEF AdmitAgain
  <2> QED BY <2>1, <2>2, <2>3, <2>4 DEF Screened, Typed
<1>5. CASE Prune
  <2>1. stage = "analysed" /\ gem' = gem /\ meta' = meta /\ light' = light
    BY <1>5 DEF Prune
  <2>2. stage' = IF CanReachNotification(meta, light) THEN "kept" ELSE "pruned"
    BY <1>5 DEF Prune
  <2>3. gem \in Gems /\ meta \in Inputs[gem].metas /\ Typed(light)
    BY <2>1 DEF Screened
  <2>4. gem' \in Gems /\ meta' \in Inputs'[gem'].metas /\ Typed(light)'
    BY <2>1, <2>3 DEF Typed
  <2>5. stage' = "pruned" => ~CanReachNotification(meta, light)'
    BY <2>1, <2>2 DEF CanReachNotification, MaximumPossible, Achieved, Pending, Fixed
  <2> QED BY <2>2, <2>4, <2>5 DEF Screened
<1>6. CASE DeepAnalyse
  BY <1>6 DEF DeepAnalyse, Screened
<1>7. CASE DecideAndCollect
  BY <1>7 DEF DecideAndCollect, Forgotten, Screened
<1>8. CASE Drop
  BY <1>8 DEF Drop, Forgotten, Screened
<1>9. CASE UNCHANGED vars
  BY <1>9 DEF vars, Screened, Typed, CanReachNotification, MaximumPossible, Achieved, Pending, Fixed
<1> QED BY <1>1, <1>2, <1>3, <1>4, <1>5, <1>6, <1>7, <1>8, <1>9 DEF Next

LEMMA ScreenedIsEnough == Screened => NothingReportableIsPruned
<1> SUFFICES ASSUME Screened, stage = "pruned", NEW deep \in Inputs[gem].deeps
             PROVE  ~Qualifies(Observed(Outcome(deep)))
  BY DEF NothingReportableIsPruned
<1>1. gem \in Gems /\ meta \in Inputs[gem].metas /\ Typed(light) /\ ~CanReachNotification(meta, light)
  BY DEF Screened
<1>2. /\ meta.stars \in Int /\ meta.age \in Int
      /\ AtLeast(NoSuggestion, deep, {"relevance", "originality"}) /\ AtLeast(0, deep, {"bonus"})
  BY <1>1, ScreeningAssumption DEF IsMeta, IsAnswer
<1>3. Total(Score(meta, light, deep)) \in Int /\ Total(Score(meta, light, deep)) < Scored.notification
  BY <1>1, <1>2, PruningIsSafe
<1>4. Scored.notification \in Int /\ NotificationThreshold = Scored.notification
  BY ConfigTyped, ScreeningAssumption
<1>5. Observed(Outcome(deep)).score = Total(Score(meta, light, deep))
  BY DEF Observed, Outcome
<1>6. ~(Observed(Outcome(deep)).score >= NotificationThreshold)
  BY <1>3, <1>4, <1>5
<1> QED BY <1>6 DEF Qualifies

(* Whatever a deep analysis and the model would have said of it, a candidate  *)
(* that run_pipeline prunes would not have been reported: for every accepted  *)
(* configuration, all metadata, contents and answers.                         *)
THEOREM NothingReportableIsEverPruned == Spec => []NothingReportableIsPruned
<1>1. Spec => []Screened
  BY ScreenedInit, ScreenedNext, PTL DEF Spec
<1> QED BY <1>1, ScreenedIsEnough, PTL

-----------------------------------------------------------------------------
(* Between the two looks: what was admitted passed the first one, and of what *)
(* the second refuses the contents and the reads are still there.             *)
Filtered ==
    /\ stage \in {"admitted", "read", "refused"} => Passes(meta, Evidence(meta, Unread))
    /\ stage \in {"read", "refused"} => contents \in Inputs[gem].contents /\ reads \subseteq AllReads
    /\ stage = "refused" => ~Passes(meta, Evidence(meta, ReadOf(contents, reads)))

LEMMA FilteredInit == Init => Filtered
  BY DEF Init, Filtered

LEMMA FilteredNext == Filtered /\ [Next]_vars => Filtered'
<1> SUFFICES ASSUME Filtered, [Next]_vars PROVE Filtered'
  OBVIOUS
<1>1. CASE Discover
  BY <1>1 DEF Discover, Filtered
<1>2. CASE Admit
  BY <1>2 DEF Admit, Filtered
<1>3. CASE LightAnalyse
  BY <1>3 DEF LightAnalyse, Filtered
<1>4. CASE AdmitAgain
  BY <1>4 DEF AdmitAgain, Filtered
<1>5. CASE Prune
  BY <1>5 DEF Prune, Filtered
<1>6. CASE DeepAnalyse
  BY <1>6 DEF DeepAnalyse, Filtered
<1>7. CASE DecideAndCollect
  BY <1>7 DEF DecideAndCollect, Forgotten, Filtered
<1>8. CASE Drop
  BY <1>8 DEF Drop, Forgotten, Filtered
<1>9. CASE UNCHANGED vars
  BY <1>9 DEF vars, Filtered
<1> QED BY <1>1, <1>2, <1>3, <1>4, <1>5, <1>6, <1>7, <1>8, <1>9 DEF Next

LEMMA FilteredIsEnough == Screened /\ Filtered => FailedReadsRejectNothing
<1> SUFFICES ASSUME Screened, Filtered, stage = "refused",
                    Passes(meta, Evidence(meta, ReadOf(contents, AllReads)))
             PROVE  FALSE
  BY DEF FailedReadsRejectNothing
<1>1. gem \in Gems /\ meta \in Inputs[gem].metas /\ contents \in Inputs[gem].contents /\ reads \subseteq AllReads
  BY DEF Screened, Filtered
<1>2. IsMeta(meta) /\ IsContents(contents)
  BY <1>1, ScreeningAssumption
<1>3. Passes(meta, Evidence(meta, Unread)) /\ ~Passes(meta, Evidence(meta, ReadOf(contents, reads)))
  BY DEF Filtered
<1> QED
  BY <1>1, <1>2, <1>3, FailedReadsPass

(* "Missing evidence never triggers a rejection" (hard_filter.py:5): whatever *)
(* reads of the light analysis fail, a candidate that the second look of the  *)
(* filter refuses would have been refused with everything read as well.       *)
THEOREM FailedReadsNeverReject == Spec => []FailedReadsRejectNothing
<1>1. Spec => []Screened
  BY ScreenedInit, ScreenedNext, PTL DEF Spec
<1>2. Spec => []Filtered
  BY FilteredInit, FilteredNext, PTL DEF Spec
<1> QED BY <1>1, <1>2, FilteredIsEnough, PTL

-----------------------------------------------------------------------------
(* "badge edits, typos, README wording and bot dependency bumps ... can never *)
(* make a repository look strongly active" (light_analysis/activity.py:3):    *)
(* without its chores it is as strongly active.                               *)
THEOREM ChoresNeverMakeAnythingStrong == Spec => []ChoresNeverMakeItStrong
<1>1. Screened => ChoresNeverMakeItStrong
  <2> SUFFICES ASSUME Screened, stage = "read", ActivityLevel(contents) = "STRONG"
               PROVE  ActivityLevel([contents EXCEPT !.commits.chores = <<>>]) = "STRONG"
    BY DEF ChoresNeverMakeItStrong
  <2> DEFINE bare == [contents EXCEPT !.commits.chores = <<>>]
  <2>1. IsContents(contents)
    BY ScreeningAssumption DEF Screened
  <2>2. /\ contents = [readme |-> contents.readme, tree |-> contents.tree, release |-> contents.release,
                       commits |-> contents.commits]
        /\ contents.commits = [work |-> contents.commits.work, chores |-> contents.commits.chores]
    <3>1. contents = [readme |-> contents.readme, tree |-> contents.tree, release |-> contents.release,
                      commits |-> contents.commits]
      BY <2>1, Zenon DEF IsContents
    <3>2. contents.commits = [work |-> contents.commits.work, chores |-> contents.commits.chores]
      BY <2>1, Zenon DEF IsContents
    <3> QED
      BY <3>1, <3>2
  <2>3. bare.release = contents.release /\ bare.commits.work = contents.commits.work /\ bare.commits.chores = <<>>
    <3>1. PICK readme, tree, release, commits :
            contents = [readme |-> readme, tree |-> tree, release |-> release, commits |-> commits]
      BY <2>2
    <3>2. PICK work, chores : commits = [work |-> work, chores |-> chores]
      BY <2>2, <3>1
    <3>3. bare.release = release /\ bare.commits.work = work /\ bare.commits.chores = <<>>
      BY <3>1, <3>2
    <3> QED
      BY <3>1, <3>2, <3>3
  <2>4. CommitLevel(contents.commits) = "STRONG" => CommitLevel(bare.commits) = "STRONG"
    <3>1. ASSUME NEW x, CommitLevel(x) = "STRONG"
          PROVE  Cardinality(Within(x.work, RecentDays)) >= 2
      <4> SUFFICES ASSUME ~(Cardinality(Within(x.work, RecentDays)) >= 2)
                   PROVE  CommitLevel(x) # "STRONG"
        BY <3>1
      <4> QED
        BY DEF CommitLevel
    <3>2. ASSUME NEW x, x.chores = <<>>, Cardinality(Within(x.work, RecentDays)) >= 2
          PROVE  CommitLevel(x) = "STRONG"
      <4>1. Cardinality(Within(x.work, RecentDays)) # 1
        BY <3>2
      <4>2. Within(x.work, RecentDays) # {}
        BY <3>2, FS_EmptySet
      <4>3. Within(x.chores, RecentDays) = {}
        BY <3>2 DEF Within
      <4> QED
        BY <3>2, <4>1, <4>2, <4>3 DEF CommitLevel
    <3> HIDE DEF bare
    <3> QED
      BY <2>3, <3>1, <3>2
  <2>5. Released(contents, RecentDays) => Released(bare, RecentDays)
    <3> HIDE DEF bare
    <3> QED
      BY <2>3 DEF Released
  <2> QED
    BY <2>4, <2>5, StrongBecause
<1>2. Spec => []Screened
  BY ScreenedInit, ScreenedNext, PTL DEF Spec
<1> QED BY <1>1, <1>2, PTL

-----------------------------------------------------------------------------
(* A final score of a screened candidate: every dimension is a whole number.  *)
LEMMA ScoreType ==
    ASSUME NEW m, NEW l, NEW deep, m.stars \in Int, m.age \in Int, Typed(l), IsAnswer(deep)
    PROVE  \A dimension \in DOMAIN Maxima : Score(m, l, deep)[dimension] \in Int
<1>1. deep.relevance \in Int /\ deep.originality \in Int /\ deep.bonus \in Int
  BY DEF IsAnswer, AtLeast
<1>2. DeepBonus(deep) \in Int
  BY <1>1 DEF DeepBonus
<1>3. QualityPoints(l, DeepBonus(deep)) \in Int
  BY <1>2, QualityBounded
<1>4. Relevance(l, deep) \in Int /\ Originality(deep) \in Int
  BY <1>1, SuggestionsBounded
<1>5. /\ ActivityPoints(l.level, l.age) \in Int /\ BandPoints(Scored.visibility, m.stars) \in Int
      /\ BandPoints(Scored.novelty, m.age) \in Int /\ IntersectionPoints(l.areas) \in Int
  BY FixedType
<1>6. DOMAIN Maxima = {"relevance", "quality", "activity", "visibility", "novelty", "originality", "intersection"}
  BY DEF Maxima
<1> QED
  BY <1>3, <1>4, <1>5, <1>6 DEF Score

(* A score in its ranges is at most 100.                                      *)
LEMMA TotalRange ==
    ASSUME NEW score_, \A dimension \in DOMAIN Maxima : score_[dimension] \in Int, Constructible(score_)
    PROVE  Total(score_) \in 0..100
<1>1. /\ DOMAIN Maxima = {"relevance", "quality", "activity", "visibility", "novelty", "originality", "intersection"}
      /\ Maxima.relevance = 20 /\ Maxima.quality = 20 /\ Maxima.activity = 20 /\ Maxima.visibility = 15
      /\ Maxima.novelty = 10 /\ Maxima.originality = 10 /\ Maxima.intersection = 5
  BY DEF Maxima
<1>2. /\ score_.relevance \in 0..20 /\ score_.quality \in 0..20 /\ score_.activity \in 0..20
      /\ score_.visibility \in 0..15 /\ score_.novelty \in 0..10 /\ score_.originality \in 0..10
      /\ score_.intersection \in 0..5
  BY <1>1 DEF Constructible
<1> DEFINE r == score_.relevance
           q == score_.quality
           a == score_.activity
           v == score_.visibility
           n == score_.novelty
           o == score_.originality
           i == score_.intersection
<1>3. Total(score_) = r + q + a + v + n + o + i
  BY DEF Total
<1>4. r \in 0..20 /\ q \in 0..20 /\ a \in 0..20 /\ v \in 0..15 /\ n \in 0..10 /\ o \in 0..10 /\ i \in 0..5
  BY <1>2
<1> HIDE DEF r, q, a, v, n, o, i
<1>5. r + q + a + v + n + o + i \in 0..100
  BY <1>4
<1> QED
  BY <1>3, <1>5

(* make_notification_decision notifies of what qualifies only.                *)
LEMMA NotifiedQualifies ==
    ASSUME NEW notes, NEW g, NEW obs, Decide(notes, g, obs) # None
    PROVE  Qualifies(obs)
  BY DEF Decide

LEMMA NothingIsReportedOfNothing == InOrder(Selected({})) = <<>>
<1>1. Selected({}) = {}
  BY DEF Selected, Top, Exceptional
<1>2. InOrder({}) = [i \in 1..0 |-> CHOOSE f \in {} : Cardinality(Ahead({}, f)) = i - 1]
  BY FS_EmptySet DEF InOrder
<1> QED
  BY <1>1, <1>2

-----------------------------------------------------------------------------
(* What was collected: findings of the gems already done, one of each, and    *)
(* the report of exactly these.                                               *)
Reporting ==
    /\ TypeOK
    /\ stage = "scored" => gem \in Gems /\ Comparable({Finding})
    /\ Findings(findings)
    /\ chosen = InOrder(Selected(findings))

LEMMA ReportingInit == Init => Reporting
<1> SUFFICES ASSUME Init PROVE Reporting
  OBVIOUS
<1>1. Findings(findings)
  BY FS_EmptySet DEF Init, Findings, Comparable, OnePerGem
<1>2. chosen = InOrder(Selected(findings))
  BY NothingIsReportedOfNothing DEF Init
<1>3. TypeOK
  BY DEF Init, TypeOK
<1> QED
  BY <1>1, <1>2, <1>3 DEF Reporting, Init

(* What DecideAndCollect does to the report: nothing, or one more finding.    *)
LEMMA Collected ==
    ASSUME Reporting, DecideAndCollect
    PROVE  /\ gem \in Gems /\ gem' = gem + 1 /\ chosen' = InOrder(Selected(findings'))
           /\ \A f \in findings : f.gem # gem
           /\ \/ findings' = findings
              \/ /\ Comparable({Finding}) /\ Qualifies(Observed(score))
                 /\ findings' = findings \union {Finding}
<1>1. /\ stage = "scored" /\ gem' = gem + 1 /\ chosen' = InOrder(Selected(findings'))
      /\ findings' = findings \union {f \in {Finding} : Decide(<<>>, gem, Observed(score)) # None}
  BY DEF DecideAndCollect, Forgotten
<1>2. gem \in Gems /\ gem \in Nat /\ Comparable({Finding})
  BY <1>1 DEF Reporting, TypeOK
<1>3. \A f \in findings : f.gem # gem
  <2> SUFFICES ASSUME NEW f \in findings, f.gem = gem PROVE FALSE
    OBVIOUS
  <2>1. f.gem < gem
    BY DEF Reporting, TypeOK
  <2> QED
    BY <1>2, <2>1
<1>4. CASE Decide(<<>>, gem, Observed(score)) # None
  <2>1. Qualifies(Observed(score))
    BY <1>4, NotifiedQualifies
  <2> QED
    BY <1>1, <1>2, <1>3, <1>4, <2>1
<1>5. CASE Decide(<<>>, gem, Observed(score)) = None
  BY <1>1, <1>2, <1>3, <1>5
<1> QED
  BY <1>4, <1>5

LEMMA ReportingNext == Screened /\ Reporting /\ [Next]_vars => Reporting'
<1> SUFFICES ASSUME Screened, Reporting, [Next]_vars PROVE Reporting'
  OBVIOUS
<1> USE DEF Reporting, TypeOK
<1>1. CASE Discover
  BY <1>1 DEF Discover
<1>2. CASE Admit
  BY <1>2 DEF Admit
<1>3. CASE LightAnalyse
  BY <1>3 DEF LightAnalyse
<1>4. CASE AdmitAgain
  <2>1. stage = "read" /\ gem \in Gems /\ meta \in Inputs[gem].metas /\ contents \in Inputs[gem].contents
    BY <1>4 DEF AdmitAgain, Screened
  <2>2. Typed(Analysis(meta, ReadOf(contents, reads)))
    BY <2>1, AnalysisOfInputs
  <2>3. \/ stage' = "analysed" /\ light' = Analysis(meta, ReadOf(contents, reads)) /\ reads' = {}
        \/ stage' = "refused" /\ reads' = reads
    BY <1>4 DEF AdmitAgain
  <2>4. gem' = gem /\ findings' = findings /\ chosen' = chosen
    BY <1>4 DEF AdmitAgain
  <2> QED BY <2>1, <2>2, <2>3, <2>4 DEF Typed
<1>5. CASE Prune
  <2>1. stage = "analysed" /\ stage' \in {"kept", "pruned"}
    BY <1>5 DEF Prune
  <2> QED
    BY <1>5, <2>1 DEF Prune
<1>6. CASE DeepAnalyse
  <2>1. stage = "kept" /\ gem \in Gems /\ meta \in Inputs[gem].metas /\ Typed(light)
    BY <1>6 DEF DeepAnalyse, Screened
  <2>2. /\ gem' = gem /\ reads' = reads /\ light' = light /\ findings' = findings /\ chosen' = chosen
        /\ \/ stage' = "aborted"
           \/ /\ stage' = "scored"
              /\ \E deep \in Inputs[gem].deeps :
                   Constructible(Score(meta, light, deep)) /\ score' = Outcome(deep)
    BY <1>6 DEF DeepAnalyse
  <2>3. CASE stage' = "aborted"
    BY <2>2, <2>3
  <2>4. CASE stage' = "scored"
    <3>1. PICK deep \in Inputs[gem].deeps :
            Constructible(Score(meta, light, deep)) /\ score' = Outcome(deep)
      BY <2>2, <2>4
    <3>2. meta.stars \in Int /\ meta.age \in Int /\ IsAnswer(deep)
      BY <2>1, ScreeningAssumption DEF IsMeta
    <3>3. Total(Score(meta, light, deep)) \in 0..100
      BY <2>1, <3>1, <3>2, ScoreType, TotalRange
    <3>4. Confidence(light, deep) \in {"HIGH", "MEDIUM", "LOW"}
      <4> DEFINE strong == light.areas >= 2 \/ (light.areas = 1 /\ SignalCount(light) >= 3)
                 d == IF deep.ok THEN deep.confidence ELSE "NONE"
                 some == light.areas >= 1
      <4>1. Confidence(light, deep) =
              IF d = "HIGH" /\ strong THEN "HIGH"
              ELSE IF strong \/ (d \in {"HIGH", "MEDIUM"} /\ some) THEN "MEDIUM"
              ELSE "LOW"
        BY DEF Confidence
      <4> HIDE DEF strong, d, some
      <4> QED
        BY <4>1
    <3>5. score'.total \in 0..100 /\ score'.confidence \in {"HIGH", "MEDIUM", "LOW"}
      BY <3>1, <3>3, <3>4 DEF Outcome
    <3>6. Comparable({Finding})'
      <4> DEFINE s == Score(meta, light, deep)
      <4>1. s.novelty \in Int /\ s.visibility \in Int /\ s.activity \in Int
        BY <2>1, <3>2, ScoreType DEF Maxima
      <4>2. score'.parts = [novelty |-> s.novelty, visibility |-> s.visibility, activity |-> s.activity]
        BY <3>1 DEF Outcome
      <4> HIDE DEF s
      <4>3. gem' \in Int /\ score'.total \in Int
        BY <2>2, <3>5
      <4> QED
        BY <4>1, <4>2, <4>3 DEF Comparable, Finding
    <3> QED
      BY <2>1, <2>2, <2>4, <3>5, <3>6
  <2> QED
    BY <2>2, <2>3, <2>4
<1>7. CASE DecideAndCollect
  <2>1. /\ gem \in Gems /\ gem' = gem + 1 /\ chosen' = InOrder(Selected(findings'))
        /\ \A f \in findings : f.gem # gem
        /\ \/ findings' = findings
           \/ /\ Comparable({Finding})
              /\ findings' = findings \union {Finding}
    BY <1>7, Collected
  <2>2. stage' = "next" /\ reads' = {}
    BY <1>7 DEF DecideAndCollect, Forgotten, Cleared
  <2>3. gem \in Nat /\ gem \in Int /\ Findings(findings) /\ \A f \in findings : f.gem < gem /\ f.gem \in Int
    BY DEF Findings, Comparable
  <2>4. Findings(findings') /\ \A f \in findings' : f.gem < gem'
    <3>1. CASE findings' = findings
      BY <2>1, <2>3, <3>1
    <3>2. CASE Comparable({Finding}) /\ findings' = findings \union {Finding}
      <4> DEFINE new == Finding
      <4>1. new.gem = gem /\ Comparable({new})
        BY <3>2 DEF Finding
      <4>2. findings' = findings \union {new}
        BY <3>2
      <4> HIDE DEF new
      <4>3. IsFiniteSet(findings')
        BY <2>3, <4>2, FS_AddElement DEF Findings
      <4>4. Comparable(findings')
        BY <2>3, <4>1, <4>2 DEF Findings, Comparable
      <4>5. OnePerGem(findings')
        BY <2>1, <2>3, <4>1, <4>2 DEF Findings, OnePerGem
      <4> QED
        BY <2>1, <2>3, <4>1, <4>2, <4>3, <4>4, <4>5 DEF Findings
    <3> QED
      BY <2>1, <3>1, <3>2
  <2> QED
    BY <2>1, <2>2, <2>3, <2>4
<1>8. CASE Drop
  <2>1. gem' = gem + 1 /\ stage' = "next" /\ reads' = {} /\ findings' = findings /\ chosen' = chosen
    BY <1>8 DEF Drop, Forgotten, Cleared
  <2>2. gem \in Nat /\ \A f \in findings : f.gem < gem /\ f.gem \in Int
    BY DEF Findings, Comparable
  <2> QED
    BY <2>1, <2>2
<1>9. CASE UNCHANGED vars
  BY <1>9 DEF vars, Finding, Comparable
<1> QED BY <1>1, <1>2, <1>3, <1>4, <1>5, <1>6, <1>7, <1>8, <1>9 DEF Next

(* ReportSelection brings the order in by a name of its own; it is the same.  *)
LEMMA SameRules ==
    /\ \A f, g : Report!Before(f, g) <=> Before(f, g)
    /\ \A s : Report!Normals(s) = Normals(s) /\ Report!ToSet(s) = ToSet(s)
    /\ \A S : Report!Cardinality(S) = Cardinality(S)
<1>0. \A S : Report!Cardinality(S) = Cardinality(S)
  BY DEF Report!Cardinality, Cardinality
<1>1. \A f, g : Report!Before(f, g) <=> Before(f, g)
  <2>1. \A f : Report!Key(f) = Key(f)
    BY DEF Report!Key, Key, Report!Rank, Rank
  <2> QED
    BY <2>1, Zenon DEF Report!Before, Before
<1>3. \A s : Report!Normals(s) = Normals(s)
  BY DEF Report!Normals, Normals
<1>4. \A s : Report!ToSet(s) = ToSet(s)
  BY DEF Report!ToSet, ToSet
<1> QED BY <1>0, <1>1, <1>3, <1>4

LEMMA AlwaysReporting == Spec => []Reporting
<1>1. Spec => []Screened
  BY ScreenedInit, ScreenedNext, PTL DEF Spec
<1> QED
  BY <1>1, ReportingInit, ReportingNext, PTL DEF Spec

(* The stages, the light analysis and the final scores are what they should   *)
(* be, and findings are of gems already done.                                 *)
THEOREM TypeCorrect == Spec => []TypeOK
<1>1. Reporting => TypeOK
  BY DEF Reporting
<1> QED BY <1>1, AlwaysReporting, PTL

(* select_report_candidates: whatever findings a run collects, in whatever     *)
(* order, and however many ties it has to break: the report stays within both *)
(* limits, has only findings in it and the best first, and a finding it       *)
(* leaves out stands behind a full report, or full normal places.  The        *)
(* selection that sorts, splits, cuts and sorts again is shown to be one of   *)
(* those that the independent description allows.                             *)
THEOREM RefinesReportSelection == Spec => ImplementsReportSelection
<1>1. Init => Report!Init
  BY DEF Init, Report!Init
<1>2. Reporting => Report!Promised
  <2> SUFFICES ASSUME Reporting PROVE Report!Promised
    OBVIOUS
  <2>1. IsTheBest(chosen, findings)
    BY RulesAssumption, SelectionIsTheBest DEF Reporting
  <2>2. Report!WithinLimits /\ Report!NeverPadded
    BY <2>1, SameRules DEF IsTheBest, Report!WithinLimits, Report!NeverPadded
  <2>3. Report!BestFirst
    BY <2>1, SameRules, Zenon DEF IsTheBest, Report!BestFirst
  <2>4. Report!NoneForgotten
    BY <2>1, SameRules, Zenon DEF IsTheBest, Report!NoneForgotten
  <2> QED
    BY <2>2, <2>3, <2>4 DEF Report!Promised
<1>3. Reporting /\ Report!Promised' /\ [Next]_vars => [Report!Next]_<<findings, chosen>>
  <2> SUFFICES ASSUME Reporting, Report!Promised', [Next]_vars
               PROVE  Report!Next \/ UNCHANGED <<findings, chosen>>
    OBVIOUS
  <2>1. CASE DecideAndCollect
    <3>1. /\ gem \in Gems /\ chosen' = InOrder(Selected(findings')) /\ \A f \in findings : f.gem # gem
          /\ \/ findings' = findings
             \/ /\ Comparable({Finding}) /\ Qualifies(Observed(score))
                /\ findings' = findings \union {Finding}
      BY <2>1, Collected
    <3>2. CASE findings' = findings
      BY <3>1, <3>2 DEF Reporting
    <3>3. CASE findings' # findings
      <4>1. /\ findings' = findings \union {Finding} /\ Finding.gem = gem
            /\ Finding.score >= NotificationThreshold /\ Finding.confidence # "LOW"
        BY <3>1, <3>3 DEF Qualifies, Observed, Finding
      <4>2. Finding \in findings' \ findings
        BY <3>1, <4>1
      <4>3. Report!Collect(gem)
        BY <3>1, <4>1, <4>2, Zenon DEF Report!Collect
      <4> QED
        BY <3>1, <4>3 DEF Report!Next
    <3> QED
      BY <3>2, <3>3
  <2>2. CASE UNCHANGED <<findings, chosen>>
    BY <2>2
  <2> QED
    BY <2>1, <2>2 DEF Next, Discover, Admit, LightAnalyse, AdmitAgain, Prune, DeepAnalyse, Drop, vars
<1> QED
  BY <1>1, <1>2, <1>3, AlwaysReporting, PTL DEF Spec, ImplementsReportSelection, Report!Spec

-----------------------------------------------------------------------------
(* Configurations whose points stay within HiddenGemScore.MAXIMA.  load_config *)
(* sees to quality, intersection and the points for strong activity; the      *)
(* others are up to the author of scoring.yml.                                *)
ActivityPointKeys == {"strong", "medium", "moderate", "weak", "stale", "none"}

PointsFit ==
    /\ \A k \in ActivityPointKeys : Scored.activity[k] <= Maxima.activity
    /\ \A i \in DOMAIN Scored.visibility : Scored.visibility[i].points <= Maxima.visibility
    /\ \A i \in DOMAIN Scored.novelty : Scored.novelty[i].points <= Maxima.novelty

LEMMA ScoreFits ==
    ASSUME PointsFit, NEW m, NEW l, NEW deep, m.stars \in Int, m.age \in Int, Typed(l), IsAnswer(deep)
    PROVE  Constructible(Score(m, l, deep))
<1>1. ScoringParsed(Scored) /\ ScoringValid(Scored)
  BY ScoringAssumption DEF Scored, Accepted
<1>2. l.areas \in 0..4
  BY DEF Typed
<1>3. Relevance(l, deep) \in 0..20
  <2>1. RelevanceCap(l.areas) \in 0..20
    BY <1>2 DEF RelevanceCap
  <2>2. RelevanceBase(l.areas) \in Nat
    <3>1. <<0, 8, 11, 13, 14>>[l.areas + 1] \in Nat
      BY <1>2
    <3>2. AtLeast(0, Scored, {"relevanceMax", "noLLMOriginality", "notification", "exceptional",
                              "exceptionStars", "prune"})
      BY <1>1, Zenon DEF ScoringParsed
    <3>3. Scored.relevanceMax \in Nat
      BY <3>2 DEF AtLeast
    <3> QED BY <3>1, <3>3 DEF RelevanceBase, LesserOf
  <2>3. deep.relevance \in Int
    BY DEF IsAnswer, AtLeast
  <2> QED BY <2>1, <2>2, <2>3 DEF Relevance, LesserOf, GreaterOf
<1>4. QualityPoints(l, DeepBonus(deep)) \in 0..20
  <2>1. DeepBonus(deep) \in Int
    BY DEF IsAnswer, AtLeast, DeepBonus
  <2>2. QualityPoints(l, DeepBonus(deep)) \in Int
    BY <2>1, QualityBounded
  <2>3. QualityTotal(Scored.quality) = 20
    BY <1>1 DEF ScoringValid, Maxima
  <2> DEFINE x == QualityRaw(l.signals) + LesserOf(4, DeepBonus(deep)) - l.penalty
  <2>4. QualityPoints(l, DeepBonus(deep)) = GreaterOf(0, LesserOf(20, x))
    BY <2>3 DEF QualityPoints
  <2> HIDE DEF x
  <2>5. GreaterOf(0, LesserOf(20, x)) \in Int => GreaterOf(0, LesserOf(20, x)) \in 0..20
    BY DEF GreaterOf, LesserOf
  <2> QED BY <2>2, <2>4, <2>5
<1>5. ActivityPoints(l.level, l.age) \in 0..20
  <2>1. \A k \in ActivityPointKeys : Scored.activity[k] \in 0..20
    <3>1. \A k \in ActivityPointKeys : Scored.activity[k] \in Int /\ Scored.activity[k] >= 0
      BY <1>1 DEF ScoringParsed, AtLeast, ActivityKeys, ActivityPointKeys
    <3> QED BY <3>1 DEF PointsFit, Maxima
  <2> DEFINE ok(p) == p \in 0..20
  <2>2. LET a == Scored.activity IN ok(a.none) /\ ok(a.weak) /\ ok(a.strong) /\ ok(a.medium) /\ ok(a.moderate) /\ ok(a.stale)
    BY <2>1 DEF ActivityPointKeys
  <2> HIDE DEF ok
  <2>3. ok(ActivityPoints(l.level, l.age))
    BY <2>2, Zenon DEF ActivityPoints
  <2> QED BY <2>3 DEF ok
<1>6. BandPoints(Scored.visibility, m.stars) \in 0..15
  <2>1. /\ BandPoints(Scored.visibility, m.stars) \in Nat
        /\ \/ BandPoints(Scored.visibility, m.stars) = 0
           \/ \E i \in DOMAIN Scored.visibility : BandPoints(Scored.visibility, m.stars) = Scored.visibility[i].points
    BY ConfigTyped, BandPointsType, Zenon
  <2>2. \A i \in DOMAIN Scored.visibility : Scored.visibility[i].points <= 15
    BY DEF PointsFit, Maxima
  <2> QED BY <2>1, <2>2
<1>7. BandPoints(Scored.novelty, m.age) \in 0..10
  <2>1. /\ BandPoints(Scored.novelty, m.age) \in Nat
        /\ \/ BandPoints(Scored.novelty, m.age) = 0
           \/ \E i \in DOMAIN Scored.novelty : BandPoints(Scored.novelty, m.age) = Scored.novelty[i].points
    BY ConfigTyped, BandPointsType, Zenon
  <2>2. \A i \in DOMAIN Scored.novelty : Scored.novelty[i].points <= 10
    BY DEF PointsFit, Maxima
  <2> QED BY <2>1, <2>2
<1>8. Originality(deep) \in 0..10
  BY DEF Originality, LesserOf, IsAnswer, AtLeast, NoSuggestion
<1>9. IntersectionPoints(l.areas) \in 0..5
  <2>1. Scored.intersection = <<0, 2, 4, 5>>
    BY <1>1 DEF ScoringValid
  <2> QED BY <1>2, <2>1 DEF IntersectionPoints
<1>10. /\ DOMAIN Maxima = {"relevance", "quality", "activity", "visibility", "novelty", "originality", "intersection"}
       /\ Maxima.relevance = 20 /\ Maxima.quality = 20 /\ Maxima.activity = 20 /\ Maxima.visibility = 15
       /\ Maxima.novelty = 10 /\ Maxima.originality = 10 /\ Maxima.intersection = 5
  BY DEF Maxima
<1>11. /\ Score(m, l, deep).relevance = Relevance(l, deep)
       /\ Score(m, l, deep).quality = QualityPoints(l, DeepBonus(deep))
       /\ Score(m, l, deep).activity = ActivityPoints(l.level, l.age)
       /\ Score(m, l, deep).visibility = BandPoints(Scored.visibility, m.stars)
       /\ Score(m, l, deep).novelty = BandPoints(Scored.novelty, m.age)
       /\ Score(m, l, deep).originality = Originality(deep)
       /\ Score(m, l, deep).intersection = IntersectionPoints(l.areas)
  BY DEF Score
<1> QED
  BY <1>3, <1>4, <1>5, <1>6, <1>7, <1>8, <1>9, <1>10, <1>11 DEF Constructible

(* No final score raises in its constructor and ends the run, whatever was    *)
(* read and whatever the model suggests: with a configuration whose points    *)
(* fit, no answer can bring a dimension out of its range.                     *)
THEOREM NoScoreEverAborts ==
    ASSUME PointsFit
    PROVE  Spec => []NoScoreAborts
<1>1. Init => NoScoreAborts
  BY DEF Init, NoScoreAborts
<1>2. Screened /\ NoScoreAborts /\ [Next]_vars => NoScoreAborts'
  <2> SUFFICES ASSUME Screened, stage # "aborted", [Next]_vars PROVE stage' # "aborted"
    BY DEF NoScoreAborts
  <2>1. CASE DeepAnalyse
    <3>1. stage = "kept" /\ gem \in Gems /\ meta \in Inputs[gem].metas /\ Typed(light)
      BY <2>1 DEF DeepAnalyse, Screened
    <3>2. PICK deep \in Inputs[gem].deeps : Constructible(Score(meta, light, deep)) => stage' = "scored"
      BY <2>1 DEF DeepAnalyse
    <3>3. meta.stars \in Int /\ meta.age \in Int /\ IsAnswer(deep)
      BY <3>1, ScreeningAssumption DEF IsMeta
    <3> QED
      BY <3>1, <3>2, <3>3, ScoreFits
  <2>2. CASE Discover \/ Admit \/ LightAnalyse
    BY <2>2 DEF Discover, Admit, LightAnalyse
  <2>3. CASE AdmitAgain \/ Prune
    BY <2>3 DEF AdmitAgain, Prune
  <2>4. CASE DecideAndCollect \/ Drop \/ UNCHANGED vars
    BY <2>4 DEF DecideAndCollect, Drop, Forgotten, vars
  <2> QED
    BY <2>1, <2>2, <2>3, <2>4 DEF Next
<1>3. Spec => []Screened
  BY ScreenedInit, ScreenedNext, PTL DEF Spec
<1> QED BY <1>1, <1>2, <1>3, PTL DEF Spec
=============================================================================
