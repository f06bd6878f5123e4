----------------------------- MODULE LightAnalysis -----------------------------
(***************************************************************************)
(* light_analysis/: what is read of a repository without cloning it, and   *)
(* what is concluded from it.                                              *)
(*                                                                         *)
(* The contents c of a repository, as GitHub would give them:              *)
(*   readme: size (0 none, 1 below 200 characters, 2, 3 from 800 on), says *)
(*     (the phrases found), wording and area (for the hard filter), areas  *)
(*     (those it names twice);                                             *)
(*   tree: paths, meaningful, code, sources, hasTests, placeholders (for   *)
(*     the hard filter), known (source files by this module's suffixes),   *)
(*     spread, sourceDirectory, testHint, license, ci, examples, topDocs,  *)
(*     small, manifests and areas (by the dependencies in them);           *)
(*   release: the age of the newest release in days, or Never;             *)
(*   commits: sequences of the ages of the dated commits, the substantive  *)
(*     ones (work) and the others (chores).                                *)
(***************************************************************************)
EXTENDS Integers, Sequences, FiniteSets, SequencesExt

Never == -1
LesserOf(a, b)  == IF a <= b THEN a ELSE b
GreaterOf(a, b) == IF a >= b THEN a ELSE b
Points(condition) == IF condition THEN 1 ELSE 0

(* Each read may fail on its own and then brings nothing; manifests are found *)
(* by the tree, and read one by one.                                          *)
AllReads == {"readme", "tree", "manifests", "releases", "commits"}

NoReadme == [size |-> 0, says |-> {}, wording |-> {}, area |-> 0, areas |-> {}]
NoTree ==
    [paths |-> FALSE, meaningful |-> FALSE, code |-> 0, sources |-> 0, hasTests |-> FALSE,
     placeholders |-> FALSE, known |-> 0, spread |-> FALSE, sourceDirectory |-> FALSE,
     testHint |-> FALSE, license |-> FALSE, ci |-> FALSE, examples |-> FALSE, topDocs |-> FALSE,
     small |-> FALSE, manifests |-> FALSE, areas |-> {}]
NoCommits == [work |-> <<>>, chores |-> <<>>]

ReadOf(c, reads) ==
    [readme  |-> IF "readme" \in reads THEN c.readme ELSE NoReadme,
     tree    |-> IF "tree" \notin reads THEN NoTree
                 ELSE IF "manifests" \in reads THEN c.tree
                 ELSE [c.tree EXCEPT !.manifests = FALSE, !.areas = {}],
     release |-> IF "releases" \in reads THEN c.release ELSE Never,
     commits |-> IF "commits" \in reads THEN c.commits ELSE NoCommits]

-----------------------------------------------------------------------------
(* classify_activity and _latest_activity                                     *)
RecentDays   == 15    \* RECENT_DAYS
ModerateDays == 30    \* MODERATE_DAYS

Within(ages, days) == {i \in DOMAIN ages : ages[i] <= days}

Levels == <<"UNKNOWN", "STALE", "WEAK", "MEDIUM", "STRONG">>
AtLeastLevel(level, atLeast) ==
    Levels[GreaterOf(CHOOSE i \in DOMAIN Levels : Levels[i] = level,
                     CHOOSE i \in DOMAIN Levels : Levels[i] = atLeast)]

(* Any dated commit counts here, whatever it did.                             *)
Ages(c) == ToSet(c.commits.work) \union ToSet(c.commits.chores) \union ({c.release} \ {Never})
RelevantAge(c) ==
    IF Ages(c) = {} THEN Never ELSE CHOOSE a \in Ages(c) : \A b \in Ages(c) : a <= b

Released(c, days) == c.release # Never /\ c.release <= days

CommitLevelAny(commits) ==    \* mutant
    IF Cardinality(Within(commits.work \o commits.chores, RecentDays)) >= 2 THEN "STRONG" ELSE "UNKNOWN"
CommitLevel(commits) ==
    IF Cardinality(Within(commits.work, RecentDays)) >= 2 THEN "STRONG"
    ELSE IF Within(commits.work, RecentDays) # {} \/ Within(commits.work, ModerateDays) # {} THEN "MEDIUM"
    ELSE IF Within(commits.chores, RecentDays) # {} THEN "WEAK" ELSE "UNKNOWN"

ActivityLevel(c) ==
    LET release == IF Released(c, RecentDays) THEN "STRONG" ELSE "UNKNOWN"
        level   == AtLeastLevel(release, CommitLevel(c.commits))
    IN IF RelevantAge(c) = Never THEN level
       ELSE AtLeastLevel(level, IF RelevantAge(c) <= ModerateDays THEN "MEDIUM" ELSE "STALE")

-----------------------------------------------------------------------------
(* detect_areas: the metadata m names areas too.                              *)
DetectedAreas(m, c) == m.areas \union c.readme.areas \union c.tree.areas

AreaCount(m, c) == Cardinality(DetectedAreas(m, c))

(* quality_signals: how many of each prefix.                                  *)
QualitySignals(m, c) ==
    LET t == c.tree
    IN [implementation |-> Points(t.known >= 2) + Points(t.known >= 6),
        structure      |-> Points(t.sourceDirectory) + Points(t.known >= 3 \/ t.spread),
        docs           |-> Points(c.readme.size = 3 \/ t.topDocs) + Points("install" \in c.readme.says),
        tests          |-> Points(t.testHint),
        usability      |-> Points(t.examples \/ "usage" \in c.readme.says),
        hygiene        |-> Points(m.license \/ t.license) + Points(t.ci) + Points(t.manifests)]

(* negative_signals, each with its QUALITY_PENALTIES.                         *)
Penalty(m, c) ==
    LET t == c.tree
    IN 2 * Points(t.paths /\ ~t.testHint)
         + Points(c.readme.size <= 1)
         + Points("generated" \in c.readme.says)
         + 2 * Points(t.paths /\ t.small /\ t.known <= 1)
         + 3 * Points((m.claims \/ "claims" \in c.readme.says) /\ t.known <= 1)

(* LightAnalysis, as far as the score depends on it.                          *)
Analysis(m, c) ==
    [areas   |-> AreaCount(m, c),
     signals |-> QualitySignals(m, c),
     penalty |-> Penalty(m, c),
     level   |-> ActivityLevel(c),
     age     |-> RelevantAge(c)]
==============================================================================
