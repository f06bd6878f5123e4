------------------------------ MODULE LLMBudget ------------------------------
(***************************************************************************)
(* llm/base.py, llm/deepseek.py, llm/cache.py and _maybe_enrich of         *)
(* orchestrator.py: the deep-analyzed repositories of a run are handed to  *)
(* a paid provider under a call cap and a money cap, with retries, behind  *)
(* a cache that lives in the history.                                      *)
(*                                                                         *)
(* Costs are counted in a smallest unit.  The projection of a request is   *)
(* made from the prompt that is sent and depends on the retry's feedback;  *)
(* what the provider bills is only known when the answer says so.          *)
(***************************************************************************)
EXTENDS Naturals, FiniteSets

CONSTANTS Repos,          \* the repositories
          Contents,       \* relevant_content_hash values
          CandidateCap,   \* max_llm_candidates_per_run
          MaxCalls,       \* max_llm_calls_per_run
          MaxBudget,      \* max_llm_budget_per_run, 0 for none
          MaxRetries,     \* max_retries_per_candidate
          Projections,    \* what _maximum_request_cost may come to
          Excess,         \* bound: how far reported usage may exceed the projection
          MaxRuns         \* bound: runs

ASSUME BudgetAssumption ==
    /\ CandidateCap \in Nat /\ MaxCalls \in Nat /\ MaxBudget \in Nat /\ MaxRetries \in Nat
    /\ Projections \subseteq Nat
    /\ Excess \in Nat
    /\ MaxRuns \in Nat \ {0}

VARIABLES runs,      \* the number of the run
          content,   \* what each repository contains in this run
          taken,     \* llm_candidates_enriched
          pc,        \* "idle", "trying" inside the provider, "answered" before the save
          repo,      \* the repository being analysed
          attempt,   \* the provider's local `attempt`
          need,      \* its projected_cost
          budget,    \* LLMBudget: calls_made, cost, cache_hits, failures
          outcome,   \* per repository, what this run got
          stored,    \* llm_analyses: the cached <<repository, content>> pairs
          billed     \* provider: what it charges for this run

analysis == <<pc, repo, attempt, need>>
llmVars  == <<runs, content, taken, analysis, budget, outcome, stored, billed>>

Outcomes  == {"unasked", "refused", "raised", "failed", "enriched", "cached", "unsaved"}
NewBudget == [calls |-> 0, cost |-> 0, hits |-> 0, failures |-> 0]

LLMInit ==
    /\ runs = 1
    /\ content \in [Repos -> Contents]
    /\ taken = 0
    /\ pc = "idle" /\ repo \in Repos /\ attempt = 0 /\ need = 0
    /\ budget = NewBudget
    /\ outcome = [r \in Repos |-> "unasked"]
    /\ stored = {}
    /\ billed = 0

(* Mutant: only what is already spent counts. *)
CanCallSpent(next) ==
    /\ budget.calls < MaxCalls
    /\ MaxBudget # 0 => budget.cost < MaxBudget

CanCall(next) ==
    /\ budget.calls < MaxCalls
    /\ MaxBudget # 0 => budget.cost < MaxBudget /\ budget.cost + next <= MaxBudget

CachedNever(r) == FALSE    \* mutant
Cached(r) == <<r, content[r]>> \in stored

-----------------------------------------------------------------------------
Outcome(r, result) == outcome' = [outcome EXCEPT ![r] = result]

(* _maybe_enrich for the next deep-analyzed repository: nothing is asked once *)
(* the budget is used up; a cached analysis is free; the provider refuses a   *)
(* request it could not pay for.                                              *)
Ask(r) ==
    /\ pc = "idle" /\ outcome[r] = "unasked" /\ taken < CandidateCap
    /\ taken' = taken + 1
    /\ \/ /\ ~CanCall(0)
          /\ Outcome(r, "refused")
          /\ UNCHANGED <<analysis, budget>>
       \/ /\ CanCall(0) /\ Cached(r)
          /\ Outcome(r, "cached")
          /\ budget' = [budget EXCEPT !.hits = @ + 1]
          /\ UNCHANGED analysis
       \/ /\ CanCall(0) /\ ~Cached(r)
          /\ \E cost \in Projections :
               \/ /\ ~CanCall(cost)
                  /\ Outcome(r, "raised")
                  /\ UNCHANGED analysis
               \/ /\ CanCall(cost)
                  /\ pc' = "trying" /\ repo' = r /\ attempt' = 0 /\ need' = cost
                  /\ UNCHANGED outcome
          /\ UNCHANGED budget
    /\ UNCHANGED <<runs, content, stored, billed>>

(* Mutant: what brought no usable answer is taken to be free. *)
ChargeMeasured(charge, reliable) == IF reliable THEN charge ELSE 0

(* Usage the answer does not state reliably is charged at the projection.     *)
Charge(charge, reliable) == IF reliable THEN charge ELSE need

(* A request that is sent counts, and is charged.                             *)
Pay(bill, reliable) ==
    /\ billed' = billed + bill
    /\ budget' = [budget EXCEPT !.calls = @ + 1, !.cost = @ + Charge(bill, reliable)]

(* `for attempt in range(max_retries_per_candidate + 1)`. *)
AttemptsLeft == attempt <= MaxRetries

(* A request is sent and perhaps billed.  Where the answer states no usage    *)
(* the projection is taken for the ceiling it is meant to be.                 *)
Request ==
    /\ pc = "trying" /\ AttemptsLeft /\ CanCall(need)
    /\ \/ \E bill \in 1..(need + Excess) : Pay(bill, TRUE)
       \/ \E bill \in {0, need} : Pay(bill, FALSE)

(* A transport error, an HTTP error, a body or a content that is unusable;    *)
(* the next attempt is projected with or without feedback.                    *)
FailAttempt ==
    /\ Request
    /\ attempt' = attempt + 1
    /\ need' \in Projections
    /\ UNCHANGED <<runs, content, taken, pc, repo, outcome, stored>>

Failure == [budget EXCEPT !.failures = @ + 1]

(* The loop is over, or the next attempt is beyond the budget. *)
GiveUp ==
    /\ pc = "trying"
    /\ ~AttemptsLeft \/ ~CanCall(need)
    /\ budget' = Failure
    /\ Outcome(repo, "failed")
    /\ pc' = "idle"
    /\ UNCHANGED <<runs, content, taken, repo, attempt, need, stored, billed>>

(* A valid answer, as it is or with over-long evidence normalised. *)
Answer ==
    /\ Request
    /\ pc' = "answered"
    /\ UNCHANGED <<runs, content, taken, repo, attempt, need, outcome, stored>>

(* CachedLLMProvider stores it; an exception there loses the analysis.        *)
Save ==
    /\ pc = "answered"
    /\ \/ Outcome(repo, "enriched") /\ stored' = stored \union {<<repo, content[repo]>>}
       \/ Outcome(repo, "unsaved") /\ UNCHANGED stored
    /\ pc' = "idle"
    /\ UNCHANGED <<runs, content, taken, repo, attempt, need, budget, billed>>

(* The next run has a new budget, the same history, and finds the             *)
(* repositories changed or not.                                               *)
NextRun ==
    /\ pc = "idle" /\ runs < MaxRuns
    /\ runs' = runs + 1
    /\ content' \in [Repos -> Contents]
    /\ taken' = 0
    /\ budget' = NewBudget
    /\ outcome' = [r \in Repos |-> "unasked"]
    /\ billed' = 0
    /\ UNCHANGED <<analysis, stored>>

LLMNext ==
    \/ \E r \in Repos : Ask(r)
    \/ FailAttempt \/ GiveUp \/ Answer \/ Save \/ NextRun

LLMSpec == LLMInit /\ [][LLMNext]_llmVars

-----------------------------------------------------------------------------
(* Every variable stays within its type. *)
LLMTypeOK ==
    /\ runs \in 1..MaxRuns
    /\ content \in [Repos -> Contents]
    /\ taken \in 0..CandidateCap
    /\ pc \in {"idle", "trying", "answered"}
    /\ repo \in Repos
    /\ attempt \in 0..(MaxRetries + 1)
    /\ need \in Nat
    /\ budget \in [calls : Nat, cost : Nat, hits : Nat, failures : Nat]
    /\ outcome \in [Repos -> Outcomes]
    /\ stored \subseteq Repos \X Contents
    /\ billed \in Nat

(* The caps hold over all repositories, retries and failures of a run: at     *)
(* most MaxCalls requests, and no more money than the budget and what a       *)
(* single answer can report beyond its projection.                            *)
SpendingIsBounded ==
    /\ budget.calls <= MaxCalls
    /\ MaxBudget # 0 => budget.cost <= MaxBudget + Excess

(* "recorded cost remains an estimate/upper bound" (docs/validation/          *)
(* live-hardening-b1-b4.md:9): requests that fail, time out or do not state   *)
(* their usage included, the run accounts for at least what is billed.        *)
RecordedCostIsAnUpperBound == billed <= budget.cost

(* The usage of a run explains itself: a failure for every repository given   *)
(* up, a hit for every one served from the cache, and requests only for those *)
(* that went to the provider, MaxRetries + 1 each at most.                    *)
With(results)  == {r \in Repos : outcome[r] \in results}
UsageAddsUp ==
    LET busy == IF pc = "idle" THEN {} ELSE {repo}
        sent == With({"failed", "enriched", "unsaved"}) \union busy
    IN /\ budget.failures = Cardinality(With({"failed"}))
       /\ budget.hits = Cardinality(With({"cached"}))
       /\ budget.calls <= (MaxRetries + 1) * Cardinality(sent)
       /\ taken = Cardinality((Repos \ With({"unasked"})) \union busy)

(* "Reuses stored analyses; performs a provider call only on a cache miss"    *)
(* (llm/cache.py:17): no request is ever sent for an analysis that an earlier *)
(* run already paid for and stored.                                           *)
StoredIsNeverPaidAgain == [][budget'.calls > budget.calls => <<repo, content[repo]>> \notin stored]_llmVars
=============================================================================
