----------------------------- MODULE Configuration -----------------------------
(***************************************************************************)
(* config.py: which configurations load_config accepts.  A configuration   *)
(* is a record of records, one per file or section; only what the other    *)
(* modules depend on is kept of it.  Bands are sequences of records with   *)
(* an upper bound `upto` and `points`.                                     *)
(***************************************************************************)
EXTENDS Integers, Sequences, FiniteSets

AreaIds == {"ai_agents", "automation", "data", "trading"}

(* HiddenGemScore.MAXIMA: the seven dimensions of a score.                    *)
Maxima == [relevance |-> 20, quality |-> 20, activity |-> 20, visibility |-> 15,
           novelty |-> 10, originality |-> 10, intersection |-> 5]

AtLeast(minimum, section, keys) == \A k \in keys : section[k] \in Int /\ section[k] >= minimum
AreBands(bands) == bands \in Seq([upto : Nat, points : Nat])

ActivityKeys == {"strongDays", "strong", "medium", "moderateDays", "moderate", "weak", "stale", "none"}
QualityKeys  == {"implementation", "structure", "docs", "tests", "usability", "hygiene"}

ScoringParsed(s) ==
    /\ s.visibility # <<>> /\ AreBands(s.visibility)
    /\ s.novelty # <<>> /\ AreBands(s.novelty)
    /\ AtLeast(0, s.intersection, 1..4)
    /\ AtLeast(0, s.activity, ActivityKeys)
    /\ AtLeast(0, s.quality, QualityKeys)
    /\ AtLeast(0, s, {"relevanceMax", "noLLMOriginality", "notification", "exceptional",
                      "exceptionStars", "prune"})
    /\ AtLeast(1, s, {"delta"})

DiscoveryParsed(d) ==
    /\ d.queryBands # <<>> /\ d.groups # <<>>
    /\ \A i \in DOMAIN d.groups : d.groups[i] # {} /\ \A pair \in d.groups[i] : Cardinality(pair) = 2
    /\ AtLeast(1, d, {"depth", "maxSeeds", "primaryStars"})

LimitsParsed(l) ==
    /\ AtLeast(1, l, {"maxRaw", "maxLight", "maxSeeds", "maxDeep"})
    /\ AtLeast(0, l, {"maxRetries", "yellowFloor", "redFloor", "searchYellowFloor", "searchRedFloor"})

LLMParsed(l) ==
    /\ AtLeast(0, l, {"candidates", "calls", "budget", "retries", "inputCost", "outputCost"})
    /\ AtLeast(1, l, {"inputTokens", "outputTokens"})

ReportingParsed(r) == AtLeast(1, r, {"normalMax", "absoluteMax", "maxBackups"}) /\ AtLeast(0, r, {"extraMinScore"})

Increasing(bands) == \A i, k \in DOMAIN bands : i < k => bands[i].upto < bands[k].upto

QualityTotal(q) == q.implementation + q.structure + q.docs + q.tests + q.usability + q.hygiene

(* validate_config, on what the score and the decisions are made of ...       *)
ScoringValid(s) ==
    /\ Increasing(s.visibility) /\ Increasing(s.novelty)
    /\ s.visibility[1].points > s.visibility[Len(s.visibility)].points
    /\ s.intersection = <<0, 2, 4, 5>>
    /\ 0 < s.notification /\ s.notification < s.exceptional /\ s.exceptional <= 100
    /\ s.notification <= s.exceptionStars
    /\ s.prune <= s.notification
    /\ QualityTotal(s.quality) = Maxima.quality
    /\ s.activity.strong <= Maxima.activity

(* ... and on everything else.                                                *)
RestValid(c) ==
    /\ c.discovery.depth = 1 /\ c.discovery.primaryStars = 499
    /\ c.reporting.normalMax = 5 /\ c.reporting.absoluteMax = 10 /\ c.reporting.extraMinScore = 85
    /\ c.areas = AreaIds
    /\ \A i \in DOMAIN c.discovery.groups : \A pair \in c.discovery.groups[i] : pair \subseteq AreaIds
    /\ c.limits.maxDeep <= c.limits.maxLight
    /\ c.llm.candidates <= c.llm.calls

(* load_config: the files parse and validate_config finds nothing.            *)
Accepted(c) ==
    /\ ScoringParsed(c.scoring) /\ DiscoveryParsed(c.discovery) /\ LimitsParsed(c.limits)
    /\ LLMParsed(c.llm) /\ ReportingParsed(c.reporting)
    /\ ScoringValid(c.scoring) /\ RestValid(c)
==============================================================================
