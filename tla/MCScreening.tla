------------------------------ MODULE MCScreening ------------------------------
EXTENDS Screening

MCGems == 1..4

Band(upto, points) == [upto |-> upto, points |-> points]

(* The shipped configuration: config/scoring.yml, discovery.yml, limits.yml.  *)
MCConfig ==
    [scoring |->
       [visibility |-> <<Band(24, 15), Band(99, 13), Band(249, 10), Band(499, 7),
                         Band(999, 4), Band(1499, 3), Band(2000, 1)>>,
        novelty |-> <<Band(15, 10), Band(30, 9), Band(60, 7), Band(90, 5), Band(180, 2)>>,
        intersection |-> <<0, 2, 4, 5>>,
        activity |-> [strongDays |-> 15, strong |-> 20, medium |-> 16, moderateDays |-> 30,
                      moderate |-> 12, weak |-> 7, stale |-> 2, none |-> 0],
        quality |-> [implementation |-> 6, structure |-> 4, docs |-> 4, tests |-> 3,
                     usability |-> 2, hygiene |-> 1],
        relevanceMax |-> 14, noLLMOriginality |-> 4, notification |-> 70, exceptional |-> 85,
        exceptionStars |-> 80, prune |-> 70, delta |-> 10],
     discovery |-> [queryBands |-> <<0, 25, 100>>,
                    groups |-> << {{"ai_agents", "automation"}, {"data", "trading"}},
                                  {{"ai_agents", "data"}, {"automation", "trading"}},
                                  {{"ai_agents", "trading"}, {"automation", "data"}} >>,
                    depth |-> 1, maxSeeds |-> 20, primaryStars |-> 499],
     limits |-> [maxRaw |-> 1000, maxLight |-> 200, maxSeeds |-> 20, maxDeep |-> 25, maxRetries |-> 3,
                 yellowFloor |-> 200, redFloor |-> 50, searchYellowFloor |-> 10, searchRedFloor |-> 5],
     llm |-> [candidates |-> 25, calls |-> 30, budget |-> 1, retries |-> 1, inputCost |-> 0,
              outputCost |-> 0, inputTokens |-> 12000, outputTokens |-> 2200],
     reporting |-> [normalMax |-> 5, absoluteMax |-> 10, extraMinScore |-> 85, maxBackups |-> 3],
     areas |-> AreaIds]

(* As accepted, with a medium activity worth more than an activity may be.    *)
MCGenerousConfig == [MCConfig EXCEPT !.scoring.activity.medium = 30]

Plain == [fork |-> FALSE, archived |-> FALSE, template |-> FALSE, size |-> "some", described |-> TRUE,
          area |-> 2, wording |-> {}, areas |-> {"ai_agents"}, license |-> TRUE, claims |-> FALSE,
          stars |-> 10, age |-> 5]

Worded == {w \in Wordings : w[2] # "readme"}
Pairs  == {w \in SUBSET {<<"tutorial", "name">>, <<"tutorial", "description">>, <<"template", "topic">>,
                         <<"template", "template topic">>, <<"demo", "name">>, <<"demo", "topic">>,
                         <<"spam", "caps">>, <<"spam", "promotion">>} : Cardinality(w) = 2}

(* Gem 1: what the filter looks at.                                           *)
FilterMetas ==
    {[Plain EXCEPT !.fork = TRUE], [Plain EXCEPT !.archived = TRUE], [Plain EXCEPT !.template = TRUE],
     [Plain EXCEPT !.area = 1], [Plain EXCEPT !.area = 0, !.areas = {}],
     [Plain EXCEPT !.size = "zero"], [Plain EXCEPT !.size = "none"],
     [Plain EXCEPT !.size = "none", !.described = FALSE]}
    \union {[Plain EXCEPT !.wording = w] : w \in {{}} \union {{x} : x \in Worded} \union Pairs}

Readme == [size |-> 3, says |-> {"install", "usage"}, wording |-> {}, area |-> 2,
           areas |-> {"automation", "data", "trading"}]
Readmes ==
    {Readme} \union
    {[Readme EXCEPT !.wording = {w}] :
       w \in {<<"tutorial", "readme">>, <<"template", "readme">>, <<"demo", "readme">>, <<"spam", "links">>}}

Tree == [paths |-> TRUE, meaningful |-> TRUE, code |-> 6, sources |-> 6, hasTests |-> TRUE,
         placeholders |-> FALSE, known |-> 6, spread |-> TRUE, sourceDirectory |-> TRUE,
         testHint |-> TRUE, license |-> TRUE, ci |-> TRUE, examples |-> TRUE, topDocs |-> TRUE,
         small |-> FALSE, manifests |-> TRUE, areas |-> {"data"}]
Boilerplate == [NoTree EXCEPT !.paths = TRUE, !.license = TRUE, !.topDocs = TRUE, !.small = TRUE]
Unlisted    == [Boilerplate EXCEPT !.meaningful = TRUE, !.code = 6, !.small = FALSE]
Two         == [Boilerplate EXCEPT !.meaningful = TRUE, !.code = 2, !.sources = 2, !.known = 2]
TwoTested   == [Two EXCEPT !.hasTests = TRUE, !.testHint = TRUE]
Placeholder == [Tree EXCEPT !.placeholders = TRUE]

Content(readme, tree, release, work, chores) ==
    [readme |-> readme, tree |-> tree, release |-> release,
     commits |-> [work |-> work, chores |-> chores]]

FilterContents ==
    {Content(r, t, 3, <<3>>, <<>>) :
       r \in Readmes, t \in {Tree, Boilerplate, Unlisted, Two, TwoTested, Placeholder}}

(* Gem 2: what the score looks at.                                            *)
ScoreMetas ==
    {[Plain EXCEPT !.stars = s, !.age = a] : s \in {10, 499, 500, 2001}, a \in {5, 200}}
    \union {[Plain EXCEPT !.areas = {}], [Plain EXCEPT !.claims = TRUE, !.license = FALSE]}
Untested == [Tree EXCEPT !.known = 3, !.hasTests = FALSE, !.testHint = FALSE, !.examples = FALSE]
Tiny     == [Two EXCEPT !.code = 6, !.sources = 6, !.known = 1]
ScoreContents ==
    {Content(r, t, n, c[1], c[2]) :
       r \in {Readme, [Readme EXCEPT !.size = 2, !.says = {"generated", "claims"}]},
       t \in {Tree, Untested, Tiny}, n \in {Never, 5, 40},
       c \in {<< <<>>, <<>> >>, << <<>>, <<2, 3>> >>, << <<4>>, <<2>> >>, << <<4, 6>>, <<>> >>,
              << <<20>>, <<3>> >>, << <<>>, <<90>> >>}}

(* bonus is 0: nothing in the program records the evidence it is for.          *)
Answers ==
    {[ok |-> FALSE, relevance |-> NoSuggestion, originality |-> NoSuggestion, confidence |-> "LOW", bonus |-> 0]}
    \union {[ok |-> TRUE, relevance |-> r, originality |-> o, confidence |-> c, bonus |-> 0] :
              r \in {0, 20}, o \in {NoSuggestion, 10}, c \in {"HIGH", "LOW"}}

Best == [ok |-> TRUE, relevance |-> 20, originality |-> 10, confidence |-> "HIGH", bonus |-> 0]
Ordinary == Content(Readme, Untested, 20, <<>>, <<3>>)

(* Gems 3 and 4: of the same score, but the points that break the tie speak   *)
(* for the one with the higher id.                                            *)
Known == [Plain EXCEPT !.stars = 10, !.age = 45]
Newer == [Plain EXCEPT !.stars = 50, !.age = 20]

MCInputs ==
    << [metas |-> FilterMetas, contents |-> FilterContents, failing |-> {"readme", "tree"}, deeps |-> {Best}],
       [metas |-> ScoreMetas, contents |-> ScoreContents, failing |-> AllReads, deeps |-> Answers],
       [metas |-> {Known}, contents |-> {Content(Readme, Tree, 3, <<3>>, <<>>), Ordinary}, failing |-> {},
        deeps |-> {Best}],
       [metas |-> {Newer}, contents |-> {Content(Readme, Tree, 3, <<3>>, <<>>), Ordinary}, failing |-> {},
        deeps |-> {Best}] >>
==============================================================================
