--------------------------- MODULE KnowledgeTransfer ---------------------------
(***************************************************************************)
(* knowledge_harvest/ as cmd_harvest, cmd_fit_knowledge and                *)
(* cmd_queue_experiments of cli.py drive it: selected repositories are     *)
(* read and analysed by a paid model, its opportunities are ranked into a  *)
(* plan, each target's share is judged by the model again, and what        *)
(* survives becomes a queue of experiments.  The model's words decide      *)
(* nothing alone: every label is recomputed from the evidence that was     *)
(* pinned.                                                                 *)
(*                                                                         *)
(* An evidence bundle is the set of kinds it holds; the commit and digest  *)
(* that pin it are the bundle itself.  Titles, prose, scores, identifiers, *)
(* and the CSV and per-target copies of an artifact, which nothing reads,  *)
(* are left out.                                                           *)
(***************************************************************************)
EXTENDS Integers, Sequences, FiniteSets, Functions

CONSTANTS Repos,         \* the repositories asked for, numbered in their order
          Targets,       \* the target registry, numbered in its order
          Pinned,        \* the targets that have a repository of their own
          Bundles,       \* the evidence a collection may find; {} is none readable
          Packets,       \* what the model may answer about a repository
          MaxRetries,    \* llm.max_retries_per_candidate
          MaxBudget,     \* llm.max_llm_budget_per_run, 0 for none
          Costs,         \* what one answered call may cost
          AnswerLimit,   \* maxItems of `results` in the target-fit schema
          MaxReplays     \* bound: fit-knowledge commands

ASSUME TransferAssumption ==
    /\ Repos \subseteq Nat /\ IsFiniteSet(Repos) /\ Repos # {}
    /\ Targets \subseteq Nat /\ IsFiniteSet(Targets) /\ Pinned \subseteq Targets
    /\ MaxRetries \in Nat /\ MaxBudget \in Nat /\ Costs \subseteq Nat
    /\ AnswerLimit \in Nat /\ MaxReplays \in Nat
    /\ \A packet \in Packets : IsFiniteSet(DOMAIN packet)

VARIABLES command,    \* "none", "harvest" or "fit"
          stage,      \* "idle", "collect", "ask", "queue"
          judging,    \* FALSE while repositories are analysed, TRUE while targets are
          todo,       \* the repositories or targets still to be analysed
          evidence,   \* the bundle of the one being analysed
          attempt,    \* `attempt` in analyze
          calls,      \* LLMBudget.calls_made
          cost,       \* LLMBudget.cost
          packets,    \* the packet of each repository that was analysed
          plan,       \* knowledge_transfer_plan.json: its opportunities
          chosen,     \* the targets this fit is about
          results,    \* its results so far
          errors,     \* whether the loop that runs recorded an error
          lost,       \* whether the harvest recorded an error
          fit,        \* knowledge_target_fit.json
          queue,      \* experiment_queue.json
          outcome,    \* the RESULT line of the last command
          replays     \* how many fit-knowledge commands ran

asking == <<evidence, attempt, calls, cost>>
files  == <<plan, fit, queue>>
vars   == <<command, stage, judging, todo, asking, packets, chosen, results, errors, lost,
            files, outcome, replays>>

Absent   == [written |-> FALSE]
Least(S) == CHOOSE x \in S : \A y \in S : x <= y
Subject  == Least(todo)

-----------------------------------------------------------------------------
(* What the validators make of an answer.                                     *)

Status(kinds) ==
    IF {"SOURCE", "TEST"} \subseteq kinds THEN "IMPLEMENTED_TESTED"
    ELSE IF "SOURCE" \in kinds THEN "IMPLEMENTED"
    ELSE IF "TEST" \in kinds THEN "PARTIAL_IMPLEMENTATION" ELSE "DOCUMENTED_ONLY"

(* An offer names only evidence and targets that exist, and is "APPLY" only   *)
(* on tested code, with high confidence and at low risk.                      *)
OfferStands(offer, bundle) ==
    /\ offer.kinds \subseteq bundle
    /\ offer.target \in Targets
    /\ offer.action = "APPLY" =>
         /\ offer.risk = "LOW" /\ offer.confidence = "HIGH"
         /\ Status(offer.kinds) = "IMPLEMENTED_TESTED"

Opportunity(r, offer) ==
    [repo |-> r, target |-> offer.target, action |-> offer.action, kinds |-> offer.kinds,
     status |-> Status(offer.kinds), risk |-> offer.risk, confidence |-> offer.confidence]

(* The opportunity id digests all but the labels; a repeated id is skipped.   *)
Identity(offer) == <<offer.target, offer.action, offer.kinds>>
Planned ==
    UNION {{Opportunity(r, packets[r][i]) :
              i \in {j \in DOMAIN packets[r] :
                       \A k \in 1..(j - 1) : Identity(packets[r][k]) # Identity(packets[r][j])}} :
           r \in DOMAIN packets}

Share(t) == {o \in plan : o.target = t}

(* The facts the model states about one opportunity for its target.           *)
Facts(t) ==
    [applicable : BOOLEAN, core : BOOLEAN, confidence : {"HIGH", "MEDIUM", "LOW"},
     refs : SUBSET evidence, needs : IF t \in Pinned THEN {FALSE} ELSE BOOLEAN]

Surface(fact)  == fact.refs \intersect {"SOURCE", "CONFIG"} # {}
Actionable(o)  == o.action \notin {"WATCH", "DISCARD"}
Worthwhile(o, fact) == fact.applicable /\ Actionable(o) /\ fact.confidence # "LOW"

Admissible(o, fact) ==
    /\ fact.core => fact.applicable /\ o.target \in Pinned /\ Surface(fact)
    /\ Worthwhile(o, fact) => IF o.target \in Pinned THEN fact.refs # {} ELSE fact.needs

ReadyAnyTarget(o, fact) ==    \* mutant: the target's own evidence is not looked at
    /\ o.action = "APPLY" /\ o.risk = "LOW" /\ o.confidence = "HIGH"
    /\ o.status = "IMPLEMENTED_TESTED" /\ fact.confidence = "HIGH"
Ready(o, fact) ==
    /\ o.target \in Pinned /\ Surface(fact)
    /\ o.action = "APPLY" /\ o.risk = "LOW" /\ o.confidence = "HIGH"
    /\ o.status = "IMPLEMENTED_TESTED" /\ fact.confidence = "HIGH"

Classification(o, fact) ==
    IF fact.core THEN "ALREADY_PRESENT"
    ELSE IF ~Worthwhile(o, fact) THEN "NOT_APPLICABLE"
    ELSE IF Ready(o, fact) THEN "READY_TO_TRANSFER" ELSE "EXPERIMENT_READY"

Judgements(o) ==
    {[of |-> o, class |-> Classification(o, fact), pinned |-> evidence # {},
      cited |-> fact.refs # {}, surface |-> Surface(fact)] :
        fact \in {f \in Facts(o.target) : Admissible(o, f)}}

(* Everything a validated answer may say: one judgement per opportunity.      *)
Answers(share) ==
    {Range(judge) : judge \in {f \in [share -> UNION {Judgements(o) : o \in share}] :
                                 \A o \in share : f[o].of = o}}

(* The queue: actionable results of targets that were pinned; those of        *)
(* abstract targets are deferred, the others only counted.                    *)
Queueable(judged) == {r \in judged : r.class \in {"EXPERIMENT_READY", "READY_TO_TRANSFER"}}
Queue(judged, auto, targets) ==
    [written |-> TRUE, auto |-> auto, targets |-> targets,
     experiments |-> {r \in Queueable(judged) : r.of.target \in Pinned /\ r.pinned},
     deferred    |-> {r \in Queueable(judged) : r.of.target \notin Pinned \/ ~r.pinned},
     excluded    |-> Cardinality(judged \ Queueable(judged))]

-----------------------------------------------------------------------------
Attempts == MaxRetries + 1

Init ==
    /\ command = "none" /\ stage = "idle" /\ judging = FALSE
    /\ todo = {} /\ evidence = {} /\ attempt = 0 /\ calls = 0 /\ cost = 0
    /\ packets = <<>> /\ chosen = {} /\ results = {} /\ errors = FALSE /\ lost = FALSE
    /\ plan = {} /\ fit = Absent /\ queue = Absent
    /\ outcome = "none" /\ replays = 0

Harvest ==
    /\ stage = "idle" /\ outcome = "none"
    /\ command' = "harvest" /\ stage' = "collect" /\ todo' = Repos
    /\ UNCHANGED <<judging, asking, packets, chosen, results, errors, lost, files, outcome, replays>>

(* One budget for a whole command: harvest counts in every target there is.   *)
CallCapRepos == Attempts * Cardinality(Repos)    \* mutant: one analysis per repository only
CallCap == Attempts * (IF command = "harvest" THEN Cardinality(Repos) + Cardinality(Targets)
                                              ELSE Cardinality(chosen))
CanCall == calls < CallCap /\ (MaxBudget # 0 => cost < MaxBudget)

(* On to the next repository or target.                                       *)
Leave ==
    /\ todo' = todo \ {Subject} /\ stage' = "collect" /\ attempt' = 0 /\ evidence' = {}

Skip == Leave /\ errors' = TRUE /\ UNCHANGED <<packets, results, calls, cost>>

(* A bundle pinned to the head commit of a repository: one that cannot be     *)
(* read is an error.  An abstract target has none.                            *)
Collect ==
    /\ stage = "collect" /\ todo # {}
    /\ \/ /\ judging => Subject \in Pinned
          /\ \E bundle \in Bundles \ {{}} : evidence' = bundle
          /\ stage' = "ask"
          /\ UNCHANGED <<todo, attempt, calls, cost, packets, results, errors>>
       \/ /\ judging => Subject \in Pinned
          /\ {} \in Bundles
          /\ Skip
       \/ /\ judging /\ Subject \notin Pinned
          /\ stage' = "ask"
          /\ UNCHANGED <<todo, asking, packets, results, errors>>
    /\ UNCHANGED <<command, judging, chosen, lost, files, outcome, replays>>

(* analyze of either provider.  A request is only sent while the budget has   *)
(* something left, whatever the request may cost.                             *)
Unasked ==    \* no key, too much text, or an exhausted budget
    /\ stage = "ask" /\ Skip
    /\ UNCHANGED <<command, judging, chosen, lost, files, outcome, replays>>

Again ==
    IF attempt = MaxRetries
    THEN Leave /\ errors' = TRUE
    ELSE attempt' = attempt + 1 /\ UNCHANGED <<todo, stage, evidence, errors>>

(* A call that never got through is retried and is not counted as a call.     *)
NetworkError ==
    /\ stage = "ask" /\ CanCall /\ Again
    /\ UNCHANGED <<command, judging, calls, cost, packets, chosen, results, lost, files, outcome, replays>>

(* An HTTP error or a malformed body costs a call; an answer that does not    *)
(* validate also costs money.                                                 *)
BadAnswer ==
    /\ stage = "ask" /\ CanCall /\ Again
    /\ calls' = calls + 1
    /\ cost' \in {cost} \union {cost + c : c \in Costs}
    /\ UNCHANGED <<command, judging, packets, chosen, results, lost, files, outcome, replays>>

Billed == calls' = calls + 1 /\ \E c \in Costs : cost' = cost + c

AnalyseRepository ==
    /\ stage = "ask" /\ CanCall /\ ~judging
    /\ \E packet \in Packets :
         /\ \A i \in DOMAIN packet : OfferStands(packet[i], evidence)
         /\ packets' = [r \in DOMAIN packets \union {Subject} |-> IF r = Subject THEN packet ELSE packets[r]]
    /\ Billed /\ Leave
    /\ UNCHANGED <<command, judging, chosen, results, errors, lost, files, outcome, replays>>

(* One answer judges the whole share of a target, each opportunity once.      *)
JudgeTarget ==
    /\ stage = "ask" /\ CanCall /\ judging
    /\ LET share == Share(Subject)
       IN /\ Cardinality(share) <= AnswerLimit
          /\ \E judged \in Answers(share) : results' = results \union judged
    /\ Billed /\ Leave
    /\ UNCHANGED <<command, judging, packets, chosen, errors, lost, files, outcome, replays>>

-----------------------------------------------------------------------------
Stop(result) ==
    /\ command' = "none" /\ stage' = "idle" /\ judging' = FALSE
    /\ todo' = {} /\ calls' = 0 /\ cost' = 0 /\ evidence' = {} /\ attempt' = 0
    /\ packets' = <<>> /\ chosen' = {} /\ results' = {} /\ errors' = FALSE /\ lost' = FALSE
    /\ outcome' = result

Result(partial) == IF partial THEN "PARTIAL" ELSE "SUCCESS"

(* The packets are written, then planned; an empty plan needs no fit.         *)
PlanTransfer ==
    /\ stage = "collect" /\ todo = {} /\ ~judging
    /\ IF packets = <<>> THEN Stop("FAILED") /\ UNCHANGED plan
       ELSE /\ plan' = Planned
            /\ IF plan' = {} THEN Stop(Result(errors))
               ELSE /\ chosen' = {o.target : o \in plan'} /\ todo' = chosen'
                    /\ judging' = TRUE /\ lost' = errors /\ errors' = FALSE
                    /\ UNCHANGED <<command, stage, asking, packets, results, outcome>>
    /\ UNCHANGED <<fit, queue, replays>>

(* fit-knowledge judges a frozen plan again, or some of its targets.          *)
Refit ==
    /\ stage = "idle" /\ plan # {} /\ replays < MaxReplays
    /\ \E targets \in SUBSET {o.target : o \in plan} \ {{}} :
         chosen' = targets /\ todo' = targets
    /\ command' = "fit" /\ stage' = "collect" /\ judging' = TRUE /\ replays' = replays + 1
    /\ UNCHANGED <<asking, packets, results, errors, lost, files, outcome>>

WriteFit ==
    /\ stage = "collect" /\ todo = {} /\ judging
    /\ fit' = [written |-> TRUE, results |-> results]
    /\ stage' = "queue"
    /\ UNCHANGED <<command, judging, todo, asking, packets, chosen, results, errors, lost,
                   plan, queue, outcome, replays>>

Requested == {o \in plan : o.target \in chosen}
CompleteSome == results # {}    \* mutant: errors are only counted
Complete     == ~errors /\ Cardinality(results) = Cardinality(Requested)

(* Nothing is queued unless every opportunity was judged.                     *)
QueueExperiments ==
    /\ stage = "queue"
    /\ IF Complete THEN queue' = Queue(fit.results, TRUE, chosen) ELSE UNCHANGED queue
    /\ Stop(IF command = "fit" /\ results = {} THEN "FAILED" ELSE Result(lost \/ ~Complete))
    /\ UNCHANGED <<plan, fit, replays>>

(* queue-experiments takes any fit of the plan, whole or for some targets.    *)
QueueByHand ==
    /\ stage = "idle" /\ fit.written
    /\ \E targets \in SUBSET Targets \ {{}} :
         queue' = Queue({r \in fit.results : r.of.target \in targets}, FALSE, targets)
    /\ UNCHANGED <<command, stage, judging, todo, asking, packets, chosen, results, errors, lost,
                   plan, fit, outcome, replays>>

(* The process is killed.                                                     *)
Crash == stage # "idle" /\ Stop("crashed") /\ UNCHANGED <<files, replays>>

Next == \/ Harvest \/ Refit \/ QueueByHand \/ Crash \/ Collect \/ Unasked \/ NetworkError \/ BadAnswer
        \/ AnalyseRepository \/ JudgeTarget \/ PlanTransfer \/ WriteFit \/ QueueExperiments

Spec == Init /\ [][Next]_vars

-----------------------------------------------------------------------------
Offers == UNION {Range(packet) : packet \in Packets}
TypeOK ==
    /\ command \in {"none", "harvest", "fit"}
    /\ stage \in {"idle", "collect", "ask", "queue"}
    /\ judging \in BOOLEAN /\ errors \in BOOLEAN /\ lost \in BOOLEAN
    /\ todo \subseteq Repos \union Targets /\ chosen \subseteq Targets
    /\ evidence \in Bundles \union {{}}
    /\ attempt \in 0..MaxRetries
    /\ calls \in 0..CallCap /\ cost \in Nat
    /\ DOMAIN packets \subseteq Repos
    /\ plan \subseteq {Opportunity(r, offer) : r \in Repos, offer \in Offers}
    /\ \A r \in results : r.of \in plan
    /\ replays \in 0..MaxReplays

(* target_fit.py:185-205, experiment_queue.py:142-159, validator.py:112-127:  *)
(* whatever the model claims, an experiment is queued only for an             *)
(* opportunity it judged worth it on a target whose evidence was pinned, and  *)
(* it is only "READY_TO_TRANSFER" when the source showed both code and tests  *)
(* at low risk and the answer pointed at code in the target's own bundle.     *)
QueueIsEarned ==
    queue.written => \A r \in queue.experiments :
        /\ r.of.target \in Pinned /\ Actionable(r.of)
        /\ r.pinned /\ r.cited
        /\ r.class = "READY_TO_TRANSFER" =>
             /\ r.of.action = "APPLY" /\ r.of.risk = "LOW"
             /\ {"SOURCE", "TEST"} \subseteq r.of.kinds
             /\ r.surface

(* cli.py:585-595, 737-749: a queue a command writes by itself accounts for   *)
(* every opportunity the plan has for the targets it is about, so a target    *)
(* that could not be judged never goes missing in silence.                    *)
QueueAccountsForThePlan ==
    queue.written /\ queue.auto =>
        LET about == {o \in plan : o.target \in queue.targets}
        IN /\ Cardinality(about) = Cardinality(queue.experiments \union queue.deferred) + queue.excluded
           /\ \A r \in queue.experiments \union queue.deferred : r.of \in about

(* cli.py:529-536, 707-711: the call cap of a command leaves room for every   *)
(* retry of every repository and target, so the last one is never refused     *)
(* because the first ones failed; only money can run out.                     *)
CallsNeverRunOut == stage = "ask" => calls < CallCap

(* docs/knowledge-harvest.md:77: every actionable opportunity passes through  *)
(* the gate.  Five repositories with six opportunities each may name one      *)
(* target thirty times; an answer of more than twelve never validates.        *)
EveryTargetCanBeJudged == \A t \in Targets : Cardinality(Share(t)) <= AnswerLimit
=============================================================================
