------------------------------- MODULE Screening -------------------------------
(***************************************************************************)
(* What becomes of a discovered repository in the orchestrator: the hard   *)
(* filter, the light analysis, the filter again, the pruning by the best   *)
(* score it can still reach, the deep analysis with its optional LLM       *)
(* answer, the final score, the decision, and its place in the report.     *)
(*                                                                         *)
(* The phases treat the candidates one by one, so they follow each other   *)
(* here; budgets and limits are Pipeline's, the history is empty.          *)
(***************************************************************************)
EXTENDS HardFilter, Scoring, NotificationRules

CONSTANT Inputs    \* what each gem may turn out to be: metas, contents and deeps, and which reads
                   \* may be failing, as sets

(* A topic is metadata: no README has the wording of one (rules.py:505-507).  *)
IsMeta(m) ==
    /\ m.stars \in Int /\ m.age \in Int /\ m.area \in Nat
    /\ m.areas \subseteq AreaIds /\ IsFiniteSet(m.wording)
IsContents(c) ==
    /\ c = [readme |-> c.readme, tree |-> c.tree, release |-> c.release, commits |-> c.commits]
    /\ c.commits = [work |-> c.commits.work, chores |-> c.commits.chores]
    /\ c.tree = [name \in DOMAIN NoTree |-> c.tree[name]]
    /\ c.readme.area \in Nat /\ c.readme.areas \subseteq AreaIds /\ c.tree.areas \subseteq AreaIds
    /\ IsFiniteSet(c.readme.wording) /\ <<"template", "template topic">> \notin c.readme.wording
IsAnswer(deep) == AtLeast(NoSuggestion, deep, {"relevance", "originality"}) /\ AtLeast(0, deep, {"bonus"})

ASSUME ScreeningAssumption ==
    /\ NotificationThreshold = Scored.notification
    /\ ExceptionThreshold = Scored.exceptionStars
    /\ \A g \in Gems :
         /\ \A m \in Inputs[g].metas : IsMeta(m)
         /\ \A c \in Inputs[g].contents : IsContents(c)
         /\ \A deep \in Inputs[g].deeps : IsAnswer(deep)

Blank == [blank |-> TRUE]

VARIABLES gem,       \* the candidate being screened
          stage,     \* how far it got
          meta,      \* its metadata
          contents,  \* its contents
          reads,     \* which of them could be read
          light,     \* its light analysis
          score,     \* its final score
          findings, chosen    \* as in ReportSelection

vars == <<gem, stage, meta, contents, reads, light, score, findings, chosen>>

Report == INSTANCE ReportSelection

Init ==
    /\ gem = 1
    /\ stage = "next"
    /\ meta = Blank /\ contents = Blank /\ reads = {} /\ light = Blank /\ score = Blank
    /\ findings = {} /\ chosen = <<>>

Discover ==
    /\ stage = "next" /\ gem \in Gems
    /\ meta' \in Inputs[gem].metas
    /\ stage' = "discovered"
    /\ UNCHANGED <<gem, contents, reads, light, score, findings, chosen>>

(* The first look of the filter, with nothing read.                           *)
Unread == [readme |-> NoReadme, tree |-> NoTree]
Admit ==
    /\ stage = "discovered"
    /\ stage' = IF Passes(meta, Evidence(meta, Unread)) THEN "admitted" ELSE "rejected"
    /\ UNCHANGED <<gem, meta, contents, reads, light, score, findings, chosen>>

LightAnalyse ==
    /\ stage = "admitted"
    /\ contents' \in Inputs[gem].contents
    /\ reads' \in {AllReads \ failed : failed \in SUBSET Inputs[gem].failing}
    /\ stage' = "read"
    /\ UNCHANGED <<gem, meta, light, score, findings, chosen>>

(* The second look, with what was read.  From here on a candidate is its      *)
(* light analysis; of one that is refused the contents are kept to be judged. *)
AdmitAgain ==
    /\ stage = "read"
    /\ LET c == ReadOf(contents, reads)
       IN IF Passes(meta, Evidence(meta, c))
          THEN /\ stage' = "analysed"
               /\ light' = Analysis(meta, c)
               /\ contents' = Blank /\ reads' = {}
          ELSE stage' = "refused" /\ UNCHANGED <<light, contents, reads>>
    /\ UNCHANGED <<gem, meta, score, findings, chosen>>

Prune ==
    /\ stage = "analysed"
    /\ stage' = IF CanReachNotification(meta, light) THEN "kept" ELSE "pruned"
    /\ UNCHANGED <<gem, meta, contents, reads, light, score, findings, chosen>>

(* A score that cannot be constructed raises, and the run with it.            *)
Outcome(deep) ==
    LET s == Score(meta, light, deep)
    IN [total |-> Total(s), confidence |-> Confidence(light, deep),
        parts |-> [novelty |-> s.novelty, visibility |-> s.visibility, activity |-> s.activity]]

DeepAnalyse ==
    /\ stage = "kept"
    /\ \E deep \in Inputs[gem].deeps :
         IF Constructible(Score(meta, light, deep))
         THEN stage' = "scored" /\ score' = Outcome(deep)
         ELSE stage' = "aborted" /\ UNCHANGED score
    /\ UNCHANGED <<gem, meta, contents, reads, light, findings, chosen>>

StarBand(stars) == IF stars <= 499 THEN "primary" ELSE IF stars <= 2000 THEN "exception" ELSE "none"

Observed(s) == [stars |-> StarBand(meta.stars), score |-> s.total, confidence |-> s.confidence,
                release |-> 0, content |-> 0]

Cleared == meta' = Blank /\ contents' = Blank /\ reads' = {} /\ light' = Blank /\ score' = Blank

ForgottenButKept == gem' = gem /\ stage' = "next" /\ Cleared    \* mutant
Forgotten        == gem' = gem + 1 /\ stage' = "next" /\ Cleared

(* _selected_finding *)
Finding == [gem |-> gem, score |-> score.total, confidence |-> score.confidence, parts |-> score.parts]

DecideAndCollect ==
    /\ stage = "scored"
    /\ findings' = findings \union {f \in {Finding} : Decide(<<>>, gem, Observed(score)) # None}
    /\ chosen' = InOrder(Selected(findings'))
    /\ Forgotten

Drop ==
    /\ stage \in {"rejected", "refused", "pruned"}
    /\ Forgotten
    /\ UNCHANGED <<findings, chosen>>

Next ==
    Discover \/ Admit \/ LightAnalyse \/ AdmitAgain \/ Prune \/ DeepAnalyse \/ DecideAndCollect \/ Drop

Spec == Init /\ [][Next]_vars

-----------------------------------------------------------------------------
TypeOK ==
    /\ gem \in Nat
    /\ stage \in {"next", "discovered", "admitted", "rejected", "read", "refused", "analysed",
                   "kept", "pruned", "scored", "aborted"}
    /\ reads \subseteq AllReads
    /\ stage \in {"analysed", "kept", "pruned"} =>
         light.areas \in 0..4 /\ light.penalty \in 0..9 /\ light.level \in ToSet(Levels)
    /\ stage = "scored" => score.total \in 0..100 /\ score.confidence \in {"HIGH", "MEDIUM", "LOW"}
    /\ \A f \in findings : f.gem < gem

(* "used for REJECT_LOW_MAX_SCORE pruning" (preliminary.py:73): whatever the  *)
(* deep analysis and the LLM would have said of a pruned candidate, it would  *)
(* not have been reported.                                                    *)
NothingReportableIsPruned ==
    stage = "pruned" => \A deep \in Inputs[gem].deeps : ~Qualifies(Observed(Outcome(deep)))

(* "Missing evidence never triggers a rejection" (hard_filter.py:5), for the  *)
(* second look: whatever reads fail, a candidate is refused only if it would  *)
(* be with everything read.                                                   *)
FailedReadsRejectNothing ==
    stage = "refused" => ~Passes(meta, Evidence(meta, ReadOf(contents, AllReads)))

(* "badge edits, typos, README wording and bot dependency bumps ... can never *)
(* make a repository look strongly active" (light_analysis/activity.py:3).    *)
ChoresNeverMakeItStrong ==
    stage = "read" /\ ActivityLevel(contents) = "STRONG" =>
      ActivityLevel([contents EXCEPT !.commits.chores = <<>>]) = "STRONG"

(* No evidence and no answer of the model brings a score out of its ranges,   *)
(* which would end the whole run.                                             *)
NoScoreAborts == stage # "aborted"

(* Whatever is found, in whatever order: what select_report_candidates cuts   *)
(* out of the findings is a report as ReportSelection promises it.            *)
ImplementsReportSelection == Report!Spec

-----------------------------------------------------------------------------
(* "Repositories with 500-2,000 stars need 80" (README.md:63): the best of    *)
(* them, with every read and every answer of the model, can have 80.          *)
ExceptionStarsCanBeReported ==
    \E g \in Gems : \E m \in Inputs[g].metas, c \in Inputs[g].contents, deep \in Inputs[g].deeps :
      LET best == [m EXCEPT !.stars = 500, !.age = 0]
      IN Total(Score(best, Analysis(best, c), deep)) >= ExceptionThreshold

(* "positions 6-10 only when the score is at least 85" (README.md:66-67).      *)
ExtraPositionsAreExceptional == Report!ExtraPositionsAreExceptional

(* "Missing evidence never triggers a rejection", for the first look: what is *)
(* rejected with the metadata only is not what the README would have saved.   *)
MetadataAloneRejectsNothing ==
    stage = "rejected" => \A c \in Inputs[gem].contents : ~Passes(meta, Evidence(meta, c))

(* "a non-priority language ... not rejection reasons" (rules.py:5): files of *)
(* code count whatever their suffix.                                          *)
LanguageIsNoReason ==
    stage = "refused" =>
      LET e == Evidence(meta, ReadOf(contents, reads)) IN ~Passes(meta, [e EXCEPT !.sources = e.code])

(* "Every rule returns the independent signals it observed" (rules.py:3): one *)
(* more signal never saves a candidate.                                       *)
MoreSignalsNeverAdmit ==
    stage = "read" =>
      LET e == Evidence(meta, ReadOf(contents, reads))
      IN Passes(meta, e) => \A w \in Wordings : Passes(meta, [e EXCEPT !.wording = @ \ {w}])

(* "badge edits ... are weak signals" (light_analysis/activity.py:3): with    *)
(* nothing else a repository is weakly active at best.                        *)
ChoresAreWeak ==
    stage = "read" /\ contents.commits.work = <<>> /\ contents.release = Never =>
      ActivityLevel(contents) \in {"UNKNOWN", "STALE", "WEAK"}
==============================================================================
