------------------------------- MODULE Pipeline -------------------------------
(***************************************************************************)
(* orchestrator.py: run_pipeline, one daily run with its phases, budgets   *)
(* and failures.  Repositories are counted, not named: what an analysis or *)
(* a score says is a choice, what the run does with it is modelled.        *)
(*                                                                         *)
(* `client` is the zone of the shared GitHubClient, "LIMITED" when its     *)
(* rate_limited property holds; then every further call raises (the        *)
(* properties LimitIsVisible and LimitIsFinal of GitHubClient).            *)
(***************************************************************************)
EXTENDS Naturals

CONSTANTS MaxAdmitted,    \* bound: candidates the hard filter admits
          MaxRelated,     \* bound: candidates one exploration returns
          LightBudget,    \* max_light_analysis
          DeepBudget,     \* max_deep_analysis
          LLMCap,         \* max_llm_candidates_per_run; 0 with the LLM switched off
          DryRun          \* context.dry_run

ASSUME PipelineAssumption ==
    /\ MaxAdmitted \in Nat /\ MaxRelated \in Nat
    /\ LightBudget \in Nat /\ DeepBudget \in Nat /\ LLMCap \in Nat
    /\ DryRun \in BOOLEAN

VARIABLES phase,      \* which loop or helper the run is in
          client,     \* the zone of the GitHub client
          limited,    \* the local `rate_limited`
          errors,     \* the list `errors` is not empty
          todo,       \* candidates the current loop has still to look at
          lights,     \* len(lights)
          analyses,   \* light analyses begun, related candidates included
          deep,       \* counts["deep_analyzed"]
          enriched,   \* llm_candidates_enriched
          scored,     \* counts["scored"]
          notifiable, \* counts["notifiable"]
          lost,       \* candidates a rate limit left without a verdict
          issue,      \* the run has an Issue
          result      \* the run's result, "running" before it has one

counters == <<lights, analyses, deep, enriched, scored, notifiable, lost>>
vars     == <<phase, client, limited, errors, todo, counters, issue, result>>

Zones   == {"GREEN", "YELLOW", "LIMITED"}
Results == {"running", "SUCCESS", "SUCCESS_NO_FINDINGS", "PARTIAL_SUCCESS",
            "PARTIAL_SUCCESS_RATE_LIMIT", "FAILED_INTEGRITY"}
Working == {"discovery", "light", "related", "deep", "publish"}

Init ==
    /\ phase = "discovery"
    /\ client \in {"GREEN", "YELLOW"}
    /\ limited = FALSE /\ errors = FALSE
    /\ todo = 0
    /\ lights = 0 /\ analyses = 0 /\ deep = 0 /\ enriched = 0 /\ scored = 0 /\ notifiable = 0 /\ lost = 0
    /\ issue = FALSE
    /\ result = "running"

Smaller(a, b) == IF a < b THEN a ELSE b

(* A sequence of GitHub calls that comes back: its answers may move the zone, *)
(* but not away from a limit.                                                 *)
Calls   == client # "LIMITED" /\ client' \in Zones
(* ... and one that raises GitHubRateLimited, because of this or an earlier   *)
(* answer.                                                                    *)
Limited == client' = "LIMITED"

-----------------------------------------------------------------------------
(* run_discovery, recording the hits and the hard filter.  A limit seen       *)
(* during discovery is remembered, the candidates found so far are kept.      *)
Discover ==
    /\ phase = "discovery"
    /\ client' \in Zones
    /\ limited' = (client' = "LIMITED")
    /\ errors' \in IF client' = "LIMITED" THEN BOOLEAN ELSE {errors, TRUE}
    /\ \E admitted \in 0..MaxAdmitted : todo' = Smaller(admitted, LightBudget)
    /\ phase' = "light"
    /\ UNCHANGED <<counters, issue, result>>

(* One light analysis of a candidate, then the post-light filter. *)
Analysed ==
    /\ Calls
    /\ analyses' = analyses + 1
    /\ lights' \in {lights, lights + 1}
    /\ errors' \in {errors, TRUE}            \* the observation could not be saved
    /\ UNCHANGED lost

AnalysisFails ==
    /\ Calls
    /\ analyses' = analyses + 1
    /\ errors' = TRUE
    /\ UNCHANGED <<lights, lost>>

AnalysisLimited ==
    /\ Limited
    /\ analyses' = analyses + 1
    /\ errors' = TRUE
    /\ lost' = lost + todo - todo'
    /\ UNCHANGED lights

(* The loop over admitted[:light_budget]. *)
LightStep ==
    /\ phase = "light" /\ todo > 0 /\ ~limited
    /\ todo' = todo - 1
    /\ \/ (Analysed \/ AnalysisFails) /\ limited' = (client' = "LIMITED")
       \/ AnalysisLimited /\ limited' = TRUE
    /\ UNCHANGED <<phase, deep, enriched, scored, notifiable, issue, result>>

RemainingWhole == LightBudget    \* mutant
Remaining == IF lights < LightBudget THEN LightBudget - lights ELSE 0

(* Mutant: a limit is only noticed when the list is used up. *)
LightDoneUnlimited ==
    /\ phase = "light" /\ todo = 0
    /\ IF ~limited /\ Remaining > 0 /\ lights > 0
         THEN phase' = "explore" /\ UNCHANGED <<todo, lost>>
         ELSE phase' = "deep" /\ todo' = lights /\ lost' = lost + todo
    /\ UNCHANGED <<client, limited, errors, lights, analyses, deep, enriched, scored, notifiable, issue, result>>

(* The rest of the candidates are dropped at a limit; _expand_relationships   *)
(* is only entered without one, and returns at once without a budget or seeds.*)
LightDone ==
    /\ phase = "light" /\ (todo = 0 \/ limited)
    /\ IF ~limited /\ Remaining > 0 /\ lights > 0
         THEN phase' = "explore" /\ UNCHANGED <<todo, lost>>
         ELSE phase' = "deep" /\ todo' = lights /\ lost' = lost + todo
    /\ UNCHANGED <<client, limited, errors, lights, analyses, deep, enriched, scored, notifiable, issue, result>>

(* explore_relationships; its exceptions end the expansion, not the run. *)
Explore ==
    /\ phase = "explore"
    /\ \/ /\ Calls
          /\ \E found \in 0..MaxRelated : todo' = Smaller(found, Remaining)
          /\ phase' = "related"
          /\ UNCHANGED errors
       \/ /\ Limited \/ Calls
          /\ errors' = TRUE
          /\ todo' = 0
          /\ phase' = "related"
    /\ UNCHANGED <<limited, counters, issue, result>>

(* candidates[:remaining_light]: hard filter, light analysis, post filter; a  *)
(* limit ends this loop only.                                                 *)
RelatedStep ==
    /\ phase = "related" /\ todo > 0
    /\ \/ todo' = todo - 1 /\ UNCHANGED <<client, errors, lights, analyses, lost>>
       \/ todo' = todo - 1 /\ (Analysed \/ AnalysisFails)
       \/ todo' = 0 /\ AnalysisLimited
    /\ UNCHANGED <<phase, limited, deep, enriched, scored, notifiable, issue, result>>

(* The client is polled once more before the ranking. *)
RelatedDone ==
    /\ phase = "related" /\ todo = 0
    /\ limited' = (client = "LIMITED")
    /\ phase' = "deep"
    /\ todo' = lights
    /\ UNCHANGED <<client, errors, counters, issue, result>>

(* The loop over `ranked`: pruned for its maximum possible score ... *)
Prune ==
    /\ phase = "deep" /\ todo > 0 /\ ~limited
    /\ todo' = todo - 1
    /\ UNCHANGED <<phase, client, limited, errors, counters, issue, result>>

(* ... passed over once the deep budget is used up ... *)
OverBudget ==
    /\ phase = "deep" /\ todo > 0 /\ ~limited
    /\ deep >= DeepBudget
    /\ todo' = todo - 1
    /\ UNCHANGED <<phase, client, limited, errors, counters, issue, result>>

(* ... or analysed and enriched, or neither after an error, and scored.       *)
Enriches == enriched < LLMCap

DeepStep ==
    /\ phase = "deep" /\ todo > 0 /\ ~limited
    /\ deep < DeepBudget
    /\ deep' = deep + 1
    /\ \/ /\ Calls
          /\ enriched' = IF Enriches THEN enriched + 1 ELSE enriched
          /\ errors' \in {errors, errors \/ Enriches}     \* the LLM failed
          /\ limited' = limited
       \/ /\ Calls
          /\ errors' = TRUE
          /\ UNCHANGED <<enriched, limited>>
       \/ /\ Limited
          /\ limited' = TRUE
          /\ errors' = TRUE
          /\ UNCHANGED enriched
    /\ scored' = scored + 1
    /\ notifiable' \in {notifiable, notifiable + 1}
    /\ todo' = todo - 1
    /\ UNCHANGED <<phase, lights, analyses, lost, issue, result>>

(* Mutant: only the findings are looked at. *)
VerdictOfFindings == IF notifiable = 0 THEN "SUCCESS_NO_FINDINGS" ELSE "SUCCESS"

(* The result of the `try` block, once nothing is left to raise. *)
Verdict ==
    IF limited THEN "PARTIAL_SUCCESS_RATE_LIMIT"
    ELSE IF errors THEN "PARTIAL_SUCCESS"
    ELSE IF notifiable = 0 THEN "SUCCESS_NO_FINDINGS" ELSE "SUCCESS"

(* A selection of at least one finding is published, unless dry or limited. *)
PublishesAnyway == notifiable > 0 /\ ~DryRun    \* mutant
Publishes == notifiable > 0 /\ ~DryRun /\ ~limited

DeepDone ==
    /\ phase = "deep" /\ (todo = 0 \/ limited)
    /\ lost' = lost + todo
    /\ IF Publishes THEN phase' = "publish" /\ result' = result
                    ELSE phase' = "artifacts" /\ result' = Verdict
    /\ UNCHANGED <<client, limited, errors, todo, lights, analyses, deep, enriched, scored, notifiable, issue>>

Publish ==
    /\ phase = "publish"
    /\ Calls
    /\ issue' = TRUE
    /\ result' = Verdict
    /\ phase' = "artifacts"
    /\ UNCHANGED <<limited, errors, todo, counters>>

(* The `except Exception` around everything. *)
Excepted ==
    /\ errors' = TRUE
    /\ result' = "PARTIAL_SUCCESS"
    /\ phase' = "artifacts"
    /\ UNCHANGED <<limited, todo, counters, issue>>

(* Publication meets the limit the deep phase did not poll for, or a new one. *)
PublishLimited == phase = "publish" /\ Limited /\ Excepted

Abort == phase \in Working /\ client' = client /\ Excepted

WriteArtifacts ==
    /\ phase = "artifacts"
    /\ phase' = "finish"
    /\ \/ UNCHANGED <<errors, result>>
       \/ /\ errors' = TRUE
          /\ result' = IF result \in {"SUCCESS", "SUCCESS_NO_FINDINGS"} THEN "PARTIAL_SUCCESS" ELSE result
    /\ UNCHANGED <<client, limited, todo, counters, issue>>

(* finish_run; if the history cannot take it the command ends with exit 3. *)
FinishRun ==
    /\ phase = "finish"
    /\ phase' = "done"
    /\ result' \in {result, "FAILED_INTEGRITY"}
    /\ UNCHANGED <<client, limited, errors, todo, counters, issue>>

(* What the run does of itself; an exception may replace any of it. *)
Progress ==
    \/ Discover \/ LightStep \/ LightDone \/ Explore \/ RelatedStep \/ RelatedDone
    \/ Prune \/ OverBudget \/ DeepStep \/ DeepDone \/ Publish
    \/ PublishLimited \/ WriteArtifacts \/ FinishRun

Next == Progress \/ Abort

(* Every call has a timeout, so a run that can go on does; no exception is    *)
(* needed to end it.                                                          *)
Spec == Init /\ [][Next]_vars /\ WF_vars(Progress)

-----------------------------------------------------------------------------
(* Every variable stays within its type. *)
TypeOK ==
    /\ phase \in Working \union {"explore", "artifacts", "finish", "done"}
    /\ client \in Zones
    /\ limited \in BOOLEAN /\ errors \in BOOLEAN /\ issue \in BOOLEAN
    /\ todo \in Nat
    /\ lights \in Nat /\ analyses \in Nat /\ deep \in Nat /\ enriched \in Nat
    /\ scored \in Nat /\ notifiable \in Nat /\ lost \in Nat
    /\ result \in Results

(* The budgets bound the whole run, both loops of light analyses together:    *)
(* what reaches the ranking, the deep analyses and the LLM candidates.        *)
BudgetsHold ==
    /\ lights <= LightBudget
    /\ deep <= DeepBudget /\ deep <= lights
    /\ enriched <= LLMCap /\ enriched <= deep
    /\ notifiable <= scored /\ scored <= deep

(* A ranking some candidates are missing from because of a rate limit, in     *)
(* whichever phase it struck, is not published, not even tried to be, and not *)
(* called a success.                                                          *)
TruncatedIsNeverPublished ==
    lost > 0 => phase # "publish" /\ ~issue /\ result \notin {"SUCCESS", "SUCCESS_NO_FINDINGS"}

(* SUCCESS means that nothing failed on the way and, live, that there is an   *)
(* Issue; a run that was limited before publication never has one.            *)
SuccessIsEarned ==
    /\ result = "SUCCESS" => ~errors /\ (issue \/ DryRun)
    /\ result = "SUCCESS_NO_FINDINGS" => ~errors /\ ~issue
    /\ result = "PARTIAL_SUCCESS_RATE_LIMIT" => ~issue

(* Whatever fails, the run ends with a result in the history or exit 3. *)
EveryRunEnds == <>(phase = "done" /\ result # "running")

(* "200 light analyses" per run (docs/operations.md:88-89). *)
LightAnalysesWithinBudget == analyses <= LightBudget

(* "RED stops new GitHub work, persists valid state and ends the run as       *)
(* `PARTIAL_SUCCESS_RATE_LIMIT`" (docs/operations.md:95-96): at least it is   *)
(* not called a success.                                                      *)
RedIsNotASuccess == client = "LIMITED" => result \notin {"SUCCESS", "SUCCESS_NO_FINDINGS"}

(* "keeps non-essential work stopped while the budget is YELLOW"              *)
(* (github/rate_limits.py:3), which relationship exploration is               *)
(* (docs/operations.md:94-95).                                                *)
YellowStopsExploration == phase = "explore" => client # "YELLOW"
===============================================================================
