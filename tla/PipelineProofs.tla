---------------------------- MODULE PipelineProofs ----------------------------
(***************************************************************************)
(* Proofs about Pipeline: for any budgets and any number of candidates.    *)
(*                                                                         *)
(* The properties speak of the end of a run, so the invariants say what    *)
(* each phase hands on: how many candidates it may still let through, and  *)
(* how it is remembered that a rate limit took some away.                  *)
(*                                                                         *)
(* The last section is about LLMBudget, the budget the deep phase spends.  *)
(***************************************************************************)
EXTENDS Pipeline, LLMBudget, TLAPS

(* Phases without a result. *)
Open == Working \union {"explore"}

(* What the loops may still add stays within the budgets. *)
LoopsFit ==
    /\ phase = "discovery" => lights = 0
    /\ phase \in {"light", "related"} => lights + todo <= LightBudget
    /\ phase = "deep" => deep + todo <= lights
    /\ phase \in {"discovery", "light", "explore", "related"} =>
          deep = 0 /\ scored = 0 /\ enriched = 0 /\ notifiable = 0

(* A run that lost candidates knows it by the time it decides to publish. *)
LossIsRemembered ==
    /\ phase = "discovery" => lost = 0
    /\ phase = "light" /\ ~limited => lost = 0
    /\ phase = "explore" => lost = 0
    /\ phase = "related" /\ lost > 0 => client = "LIMITED"
    /\ phase = "deep" /\ ~limited => lost = 0
    /\ phase = "publish" => lost = 0

(* Results and Issues only exist once the run is over, and only an unlimited  *)
(* selection is published.                                                    *)
ResultsAreLate ==
    /\ phase \in Open => result = "running" /\ ~issue
    /\ phase = "publish" => ~limited /\ notifiable > 0

(* TypeOK in two parts: the provers take the flags and the numbers apart. *)
Flags == limited \in BOOLEAN /\ errors \in BOOLEAN /\ issue \in BOOLEAN

Rest ==
    /\ phase \in Working \union {"explore", "artifacts", "finish", "done"}
    /\ client \in Zones
    /\ todo \in Nat
    /\ lights \in Nat /\ analyses \in Nat /\ deep \in Nat /\ enriched \in Nat
    /\ scored \in Nat /\ notifiable \in Nat /\ lost \in Nat
    /\ result \in Results

(* The two parts are the type invariant. *)
LEMMA FlagsAndRest == (Flags /\ Rest) <=> TypeOK
  BY Zenon DEF Flags, Rest, TypeOK

(* What a loop drops is a natural number. *)
LEMMA Dropped ==
    ASSUME NEW a \in Nat, NEW b \in Nat, NEW c \in Nat, c < b
    PROVE  a + b - c \in Nat
  OBVIOUS

(* What a light analysis does to the counters of its loop. *)
LEMMA AnalysisCounts ==
    ASSUME Rest, todo > 0, todo' \in {todo - 1, 0},
           Analysed \/ AnalysisFails \/ AnalysisLimited
    PROVE  /\ client' \in Zones
           /\ todo' \in Nat /\ todo' < todo
           /\ analyses' \in Nat
           /\ lights' \in {lights, lights + 1}
           /\ lost' \in Nat
           /\ lost' # lost => client' = "LIMITED"
<1>1. todo' \in Nat /\ todo' < todo
  BY DEF Rest
<1>2. CASE Analysed
  BY <1>1, <1>2 DEF Analysed, Calls, Rest
<1>3. CASE AnalysisFails
  BY <1>1, <1>3 DEF AnalysisFails, Calls, Rest
<1>4. CASE AnalysisLimited
  <2>1. /\ client' = "LIMITED" /\ analyses' = analyses + 1 /\ lights' = lights
        /\ lost' = lost + todo - todo'
    BY <1>4, Zenon DEF AnalysisLimited, Limited
  <2>2. lost' \in Nat /\ analyses' \in Nat
    <3>1. todo \in Nat /\ lost \in Nat /\ analyses \in Nat
      BY DEF Rest
    <3>2. lost + todo - todo' \in Nat
      BY <1>1, <3>1, Dropped
    <3>3. analyses + 1 \in Nat
      BY <3>1
    <3> QED
      BY <2>1, <3>2, <3>3, Zenon
  <2> QED
    BY <1>1, <2>1, <2>2, Zenon DEF Zones
<1> QED
  BY <1>2, <1>3, <1>4

(* Type correctness: every variable stays within its type. *)
THEOREM TypeCorrect == Spec => []TypeOK
<1>1. Init => TypeOK
  <2> SUFFICES ASSUME Init
               PROVE  TypeOK
    OBVIOUS
  <2>1. Flags
    BY DEF Init, Flags
  <2>2. Rest
    BY DEF Init, Rest, Working, Zones, Results
  <2> QED
    BY <2>1, <2>2, FlagsAndRest
<1>2. Flags /\ Rest /\ [Next]_vars => Flags' /\ Rest'
  <2> SUFFICES ASSUME Flags, Rest, [Next]_vars
               PROVE  Flags' /\ Rest'
    OBVIOUS
  <2>1. CASE Discover
    <3>1. Flags'
      BY <2>1, Zenon DEF Flags, counters, Discover, Smaller
    <3>2. Rest'
      BY <2>1, PipelineAssumption DEF Rest, Flags, counters, Working, Zones, Results, Discover, Smaller
    <3> QED
      BY <3>1, <3>2
  <2>2. CASE LightStep
    <3>1. Flags'
      BY <2>2, Zenon DEF Flags, counters, LightStep, Analysed, AnalysisFails, AnalysisLimited, Calls, Limited
    <3>2. /\ todo \in Nat /\ todo > 0 /\ todo' = todo - 1
          /\ Analysed \/ AnalysisFails \/ AnalysisLimited
          /\ UNCHANGED <<phase, deep, enriched, scored, notifiable, result>>
      BY <2>2, Zenon DEF LightStep, Rest
    <3>3. Rest'
      BY <3>2, AnalysisCounts DEF Rest
    <3> QED
      BY <3>1, <3>3
  <2>3. CASE LightDone
    <3>1. Flags'
      BY <2>3, Zenon DEF Flags, counters, LightDone
    <3>2. Rest'
      BY <2>3, PipelineAssumption DEF Rest, Flags, counters, Working, Zones, Results, LightDone
    <3> QED
      BY <3>1, <3>2
  <2>4. CASE Explore
    <3>1. Flags'
      BY <2>4, Zenon DEF Flags, counters, Explore, Calls, Limited, Smaller, Remaining
    <3>2. Rest'
      BY <2>4, PipelineAssumption DEF Rest, Flags, counters, Working, Zones, Results, Explore, Calls, Limited, Smaller, Remaining
    <3> QED
      BY <3>1, <3>2
  <2>5. CASE RelatedStep
    <3>1. Flags'
      BY <2>5, Zenon DEF Flags, counters, RelatedStep, Analysed, AnalysisFails, AnalysisLimited, Calls, Limited
    <3>2. /\ todo \in Nat /\ todo > 0
          /\ UNCHANGED <<phase, deep, enriched, scored, notifiable, result>>
      BY <2>5, Zenon DEF RelatedStep, Rest
    <3>3. CASE todo' = todo - 1 /\ UNCHANGED <<client, lights, analyses, lost>>
      BY <3>1, <3>2, <3>3 DEF Rest
    <3>4. CASE /\ todo' \in {todo - 1, 0}
               /\ Analysed \/ AnalysisFails \/ AnalysisLimited
      BY <3>1, <3>2, <3>4, AnalysisCounts DEF Rest
    <3> QED
      BY <2>5, <3>3, <3>4, Zenon DEF RelatedStep
  <2>6. CASE RelatedDone
    <3>1. Flags'
      BY <2>6, Zenon DEF Flags, counters, RelatedDone
    <3>2. Rest'
      BY <2>6, PipelineAssumption DEF Rest, Flags, counters, Working, Zones, Results, RelatedDone
    <3> QED
      BY <3>1, <3>2
  <2>7. CASE Prune \/ OverBudget
    <3>1. Flags'
      BY <2>7, Zenon DEF Flags, counters, Prune, OverBudget
    <3>2. Rest'
      BY <2>7, PipelineAssumption DEF Rest, Flags, counters, Working, Zones, Results, Prune, OverBudget
    <3> QED
      BY <3>1, <3>2
  <2>8. CASE DeepStep
    <3>1. Flags'
      BY <2>8, Zenon DEF Flags, counters, DeepStep, Calls, Limited
    <3>2. Rest'
      BY <2>8, PipelineAssumption DEF Rest, Flags, counters, Working, Zones, Results, DeepStep, Calls, Limited
    <3> QED
      BY <3>1, <3>2
  <2>9. CASE DeepDone
    <3>1. Flags'
      BY <2>9, Zenon DEF Flags, counters, DeepDone, Verdict
    <3>2. Rest'
      BY <2>9, PipelineAssumption DEF Rest, Flags, counters, Working, Zones, Results, DeepDone, Verdict
    <3> QED
      BY <3>1, <3>2
  <2>10. CASE Publish
    <3>1. Flags'
      BY <2>10, Zenon DEF Flags, counters, Publish, Calls, Verdict
    <3>2. Rest'
      BY <2>10, PipelineAssumption DEF Rest, Flags, counters, Working, Zones, Results, Publish, Calls, Verdict
    <3> QED
      BY <3>1, <3>2
  <2>11. CASE PublishLimited \/ Abort
    <3>1. Flags'
      BY <2>11, Zenon DEF Flags, counters, PublishLimited, Abort, Excepted, Limited
    <3>2. Rest'
      BY <2>11, PipelineAssumption DEF Rest, Flags, counters, Working, Zones, Results, PublishLimited, Abort, Excepted, Limited
    <3> QED
      BY <3>1, <3>2
  <2>12. CASE WriteArtifacts \/ FinishRun
    <3>1. Flags'
      BY <2>12, Zenon DEF Flags, counters, WriteArtifacts, FinishRun
    <3>2. Rest'
      BY <2>12, PipelineAssumption DEF Rest, Flags, counters, Working, Zones, Results, WriteArtifacts, FinishRun
    <3> QED
      BY <3>1, <3>2
  <2>13. CASE UNCHANGED vars
    <3>1. Flags'
      BY <2>13, Zenon DEF Flags, counters, vars
    <3>2. Rest'
      BY <2>13, PipelineAssumption DEF Rest, Flags, counters, Working, Zones, Results, vars
    <3> QED
      BY <3>1, <3>2
  <2> QED
    BY <2>1, <2>2, <2>3, <2>4, <2>5, <2>6, <2>7, <2>8, <2>9, <2>10, <2>11, <2>12, <2>13
       DEF Next, Progress
<1> QED
  BY <1>1, <1>2, FlagsAndRest, PTL DEF Spec

(* The budgets bound the two loops of light analyses together, the deep       *)
(* analyses and the LLM candidates.                                           *)
THEOREM BudgetsAlwaysHold == Spec => []BudgetsHold
<1>1. Init => BudgetsHold /\ LoopsFit
  BY PipelineAssumption DEF Init, BudgetsHold, LoopsFit
<1>2. TypeOK /\ BudgetsHold /\ LoopsFit /\ [Next]_vars => (BudgetsHold /\ LoopsFit)'
  <2> SUFFICES ASSUME TypeOK, BudgetsHold, LoopsFit, [Next]_vars
               PROVE  BudgetsHold' /\ LoopsFit'
    OBVIOUS
  <2> USE PipelineAssumption DEF TypeOK, BudgetsHold, LoopsFit, counters
  <2>1. CASE Discover
    BY <2>1 DEF Discover, Smaller
  <2>2. CASE LightStep
    <3>1. /\ todo > 0 /\ todo' \in {todo - 1, 0} /\ phase = "light"
          /\ Analysed \/ AnalysisFails \/ AnalysisLimited
          /\ UNCHANGED <<phase, deep, enriched, scored, notifiable>>
      BY <2>2, Zenon DEF LightStep
    <3> QED
      BY <3>1, AnalysisCounts, FlagsAndRest DEF Rest
  <2>3. CASE LightDone
    BY <2>3 DEF LightDone
  <2>4. CASE Explore
    BY <2>4 DEF Explore, Smaller, Remaining
  <2>5. CASE RelatedStep
    <3>1. CASE todo' = todo - 1 /\ UNCHANGED <<client, errors, lights, analyses, lost>>
      BY <2>5, <3>1 DEF RelatedStep
    <3>2. CASE /\ todo' \in {todo - 1, 0}
               /\ Analysed \/ AnalysisFails \/ AnalysisLimited
      BY <2>5, <3>2, AnalysisCounts, FlagsAndRest DEF Rest, RelatedStep
    <3> QED
      BY <2>5, <3>1, <3>2, Zenon DEF RelatedStep
  <2>6. CASE RelatedDone
    BY <2>6 DEF RelatedDone
  <2>7. CASE Prune \/ OverBudget
    BY <2>7 DEF Prune, OverBudget
  <2>8. CASE DeepStep
    BY <2>8 DEF DeepStep, Enriches
  <2>9. CASE DeepDone
    BY <2>9 DEF DeepDone
  <2>10. CASE Publish
    BY <2>10 DEF Publish
  <2>11. CASE PublishLimited \/ Abort
    BY <2>11 DEF PublishLimited, Abort, Excepted
  <2>12. CASE WriteArtifacts \/ FinishRun
    BY <2>12 DEF WriteArtifacts, FinishRun
  <2>13. CASE UNCHANGED vars
    BY <2>13 DEF vars
  <2> QED
    BY <2>1, <2>2, <2>3, <2>4, <2>5, <2>6, <2>7, <2>8, <2>9, <2>10, <2>11, <2>12, <2>13
       DEF Next, Progress
<1> QED
  BY <1>1, <1>2, TypeCorrect, PTL DEF Spec

(* A ranking that a rate limit truncated, in whichever phase, is never        *)
(* published nor called a success.                                            *)
THEOREM TruncatedIsNeverEverPublished == Spec => []TruncatedIsNeverPublished
<1> DEFINE Inv == LossIsRemembered /\ ResultsAreLate /\ TruncatedIsNeverPublished
<1>1. Init => Inv
  BY DEF Init, LossIsRemembered, ResultsAreLate, TruncatedIsNeverPublished, Open, Working
<1>2. TypeOK /\ Inv /\ [Next]_vars => Inv'
  <2> SUFFICES ASSUME TypeOK, Inv, [Next]_vars
               PROVE  Inv'
    OBVIOUS
  <2> USE PipelineAssumption DEF TypeOK, Inv, LossIsRemembered, ResultsAreLate, TruncatedIsNeverPublished,
          Open, Working, counters
  <2>1. CASE Discover
    BY <2>1 DEF Discover
  <2>2. CASE LightStep
    BY <2>2 DEF LightStep, Analysed, AnalysisFails, AnalysisLimited, Limited
  <2>3. CASE LightDone
    BY <2>3 DEF LightDone
  <2>4. CASE Explore
    BY <2>4 DEF Explore
  <2>5. CASE RelatedStep
    BY <2>5 DEF RelatedStep, Analysed, AnalysisFails, AnalysisLimited, Limited, Calls
  <2>6. CASE RelatedDone
    <3>1. /\ phase = "related" /\ phase' = "deep"
          /\ lost' = lost /\ issue' = issue /\ result' = result
      BY <2>6, Zenon DEF RelatedDone
    <3>2. ~limited' => client # "LIMITED"
      BY <2>6, Zenon DEF RelatedDone
    <3> QED
      BY <3>1, <3>2
  <2>7. CASE Prune \/ OverBudget
    BY <2>7 DEF Prune, OverBudget
  <2>8. CASE DeepStep
    BY <2>8 DEF DeepStep
  <2>9. CASE DeepDone
    BY <2>9 DEF DeepDone, Publishes, Verdict
  <2>10. CASE Publish
    BY <2>10 DEF Publish
  <2>11. CASE PublishLimited \/ Abort
    BY <2>11 DEF PublishLimited, Abort, Excepted
  <2>12. CASE WriteArtifacts \/ FinishRun
    BY <2>12 DEF WriteArtifacts, FinishRun
  <2>13. CASE UNCHANGED vars
    BY <2>13 DEF vars
  <2> QED
    BY <2>1, <2>2, <2>3, <2>4, <2>5, <2>6, <2>7, <2>8, <2>9, <2>10, <2>11, <2>12, <2>13
       DEF Next, Progress
<1>3. Inv => TruncatedIsNeverPublished
  OBVIOUS
<1> QED
  BY <1>1, <1>2, <1>3, TypeCorrect, PTL DEF Spec

(* A success is earned: nothing failed and, live, there is an Issue. *)
THEOREM SuccessIsAlwaysEarned == Spec => []SuccessIsEarned
<1> DEFINE Inv == ResultsAreLate /\ SuccessIsEarned
<1>1. Init => Inv
  BY DEF Init, ResultsAreLate, SuccessIsEarned, Open, Working
<1>2. TypeOK /\ Inv /\ [Next]_vars => Inv'
  <2> SUFFICES ASSUME TypeOK, Inv, [Next]_vars
               PROVE  Inv'
    OBVIOUS
  <2> USE PipelineAssumption DEF TypeOK, Inv, ResultsAreLate, SuccessIsEarned, Open, Working, counters
  <2>1. CASE Discover \/ LightDone \/ Explore \/ RelatedDone \/ Prune \/ OverBudget
    <3>1. phase \in Open /\ phase' \in Open /\ phase' # "publish" /\ result' = result /\ issue' = issue
      BY <2>1 DEF Discover, LightDone, Explore, RelatedDone, Prune, OverBudget
    <3> QED
      BY <3>1
  <2>2. CASE LightStep \/ RelatedStep
    BY <2>2 DEF LightStep, RelatedStep
  <2>3. CASE DeepStep
    BY <2>3 DEF DeepStep
  <2>4. CASE DeepDone
    BY <2>4 DEF DeepDone, Publishes, Verdict
  <2>5. CASE Publish
    BY <2>5 DEF Publish, Verdict
  <2>6. CASE PublishLimited \/ Abort
    BY <2>6 DEF PublishLimited, Abort, Excepted
  <2>7. CASE WriteArtifacts
    BY <2>7 DEF WriteArtifacts, Results
  <2>8. CASE FinishRun
    BY <2>8 DEF FinishRun
  <2>9. CASE UNCHANGED vars
    BY <2>9 DEF vars
  <2> QED
    BY <2>1, <2>2, <2>3, <2>4, <2>5, <2>6, <2>7, <2>8, <2>9 DEF Next, Progress
<1>3. Inv => SuccessIsEarned
  OBVIOUS
<1> QED
  BY <1>1, <1>2, <1>3, TypeCorrect, PTL DEF Spec

-----------------------------------------------------------------------------
(* The actions that send a request. *)
LEMMA RequestPays ==
    ASSUME LLMTypeOK, Request
    PROVE  /\ budget' \in [calls : Nat, cost : Nat, hits : Nat, failures : Nat]
           /\ billed' \in Nat
           /\ CanCall(need)
           /\ budget'.calls = budget.calls + 1
           /\ \E bill \in 0..(need + Excess) :
                 /\ billed' = billed + bill
                 /\ budget'.cost \in {budget.cost + bill, budget.cost + need}
                 /\ budget'.cost >= budget.cost + bill
<1> USE BudgetAssumption DEF LLMTypeOK
<1>1. PICK bill \in 0..(need + Excess), charge \in Nat :
         /\ billed' = billed + bill
         /\ budget' = [budget EXCEPT !.calls = @ + 1, !.cost = @ + charge]
         /\ charge \in {bill, need} /\ charge >= bill
  <2>1. ASSUME NEW bill \in 1..(need + Excess), Pay(bill, TRUE)
        PROVE  /\ billed' = billed + bill
               /\ budget' = [budget EXCEPT !.calls = @ + 1, !.cost = @ + bill]
    BY <2>1 DEF Pay, Charge
  <2>2. ASSUME NEW bill \in {0, need}, Pay(bill, FALSE)
        PROVE  /\ billed' = billed + bill
               /\ budget' = [budget EXCEPT !.calls = @ + 1, !.cost = @ + need]
    BY <2>2 DEF Pay, Charge
  <2> HIDE DEF LLMTypeOK
  <2>3. need \in Nat /\ Excess \in Nat
    BY DEF LLMTypeOK
  <2>4. CASE \E bill \in 1..(need + Excess) : Pay(bill, TRUE)
    <3>1. PICK bill \in 1..(need + Excess) : Pay(bill, TRUE)
      BY <2>4
    <3>2. bill \in 0..(need + Excess) /\ bill \in Nat /\ bill >= bill
      BY <2>3
    <3> QED
      BY <2>1, <3>1, <3>2
  <2>5. CASE \E bill \in {0, need} : Pay(bill, FALSE)
    <3>1. PICK bill \in {0, need} : Pay(bill, FALSE)
      BY <2>5
    <3>2. bill \in 0..(need + Excess) /\ need >= bill
      BY <2>3
    <3> QED
      BY <2>2, <2>3, <3>1, <3>2
  <2> QED
    BY <2>4, <2>5 DEF Request
<1>2. budget \in [calls : Nat, cost : Nat, hits : Nat, failures : Nat] /\ bill \in Nat
  OBVIOUS
<1>3. /\ budget'.calls = budget.calls + 1
      /\ budget'.cost = budget.cost + charge
      /\ budget' \in [calls : Nat, cost : Nat, hits : Nat, failures : Nat]
  <2> HIDE DEF LLMTypeOK
  <2>1. budget.calls \in Nat /\ budget.cost \in Nat /\ budget.hits \in Nat /\ budget.failures \in Nat
    BY <1>2
  <2>2. budget' = [calls |-> budget.calls + 1, cost |-> budget.cost + charge,
                   hits |-> budget.hits, failures |-> budget.failures]
    BY <1>1, <1>2
  <2> QED
    BY <2>1, <2>2
<1>4. budget'.cost \in {budget.cost + bill, budget.cost + need} /\ budget'.cost >= budget.cost + bill
  BY <1>1, <1>2, <1>3
<1>5. CanCall(need)
  BY DEF Request
<1> QED
  BY <1>1, <1>2, <1>3, <1>4, <1>5

(* Type correctness: every variable stays within its type. *)
THEOREM LLMTypeCorrect == LLMSpec => []LLMTypeOK
<1>1. LLMInit => LLMTypeOK
  BY BudgetAssumption DEF LLMInit, LLMTypeOK, NewBudget, Outcomes
<1>2. LLMTypeOK /\ [LLMNext]_llmVars => LLMTypeOK'
  <2> SUFFICES ASSUME LLMTypeOK, [LLMNext]_llmVars
               PROVE  LLMTypeOK'
    OBVIOUS
  <2> USE BudgetAssumption
  <2>1. ASSUME NEW r \in Repos, Ask(r)
        PROVE  LLMTypeOK'
    BY <2>1 DEF LLMTypeOK, Ask, Outcome, Outcomes, analysis
  <2>2. CASE FailAttempt
    <3>1. budget' \in [calls : Nat, cost : Nat, hits : Nat, failures : Nat] /\ billed' \in Nat
      BY <2>2, RequestPays DEF FailAttempt
    <3> QED
      BY <3>1, <2>2 DEF LLMTypeOK, FailAttempt, Request, AttemptsLeft
  <2>3. CASE GiveUp
    BY <2>3 DEF LLMTypeOK, GiveUp, Failure, Outcome, Outcomes
  <2>4. CASE Answer
    <3>1. budget' \in [calls : Nat, cost : Nat, hits : Nat, failures : Nat] /\ billed' \in Nat
      BY <2>4, RequestPays DEF Answer
    <3> QED
      BY <3>1, <2>4 DEF LLMTypeOK, Answer
  <2>5. CASE Save
    BY <2>5 DEF LLMTypeOK, Save, Outcome, Outcomes
  <2>6. CASE NextRun
    BY <2>6 DEF LLMTypeOK, NextRun, NewBudget, Outcomes, analysis
  <2>7. CASE UNCHANGED llmVars
    BY <2>7 DEF LLMTypeOK, llmVars, analysis
  <2> QED
    BY <2>1, <2>2, <2>3, <2>4, <2>5, <2>6, <2>7 DEF LLMNext
<1> QED
  BY <1>1, <1>2, PTL DEF LLMSpec

(* The caps hold for any number of repositories, retries and failures. *)
THEOREM SpendingIsAlwaysBounded == LLMSpec => []SpendingIsBounded
<1>1. LLMInit => SpendingIsBounded
  BY BudgetAssumption DEF LLMInit, SpendingIsBounded, NewBudget
<1>2. LLMTypeOK /\ SpendingIsBounded /\ [LLMNext]_llmVars => SpendingIsBounded'
  <2> SUFFICES ASSUME LLMTypeOK, SpendingIsBounded, [LLMNext]_llmVars
               PROVE  SpendingIsBounded'
    OBVIOUS
  <2> USE BudgetAssumption DEF SpendingIsBounded
  <2>1. CASE Request
    BY <2>1, RequestPays DEF LLMTypeOK, CanCall
  <2>2. ASSUME NEW r \in Repos, Ask(r)
        PROVE  SpendingIsBounded'
    BY <2>2 DEF LLMTypeOK, Ask
  <2>3. CASE GiveUp
    BY <2>3 DEF LLMTypeOK, GiveUp, Failure
  <2>4. CASE Save
    BY <2>4 DEF Save
  <2>5. CASE NextRun
    BY <2>5 DEF NextRun, NewBudget
  <2>6. CASE UNCHANGED llmVars
    BY <2>6 DEF llmVars
  <2> QED
    BY <2>1, <2>2, <2>3, <2>4, <2>5, <2>6 DEF LLMNext, FailAttempt, Answer
<1> QED
  BY <1>1, <1>2, LLMTypeCorrect, PTL DEF LLMSpec

(* Whatever fails or is not reported, nothing that is billed goes unrecorded. *)
THEOREM CostIsAlwaysAnUpperBound == LLMSpec => []RecordedCostIsAnUpperBound
<1>1. LLMInit => RecordedCostIsAnUpperBound
  BY DEF LLMInit, RecordedCostIsAnUpperBound, NewBudget
<1>2. LLMTypeOK /\ RecordedCostIsAnUpperBound /\ [LLMNext]_llmVars => RecordedCostIsAnUpperBound'
  <2> SUFFICES ASSUME LLMTypeOK, RecordedCostIsAnUpperBound, [LLMNext]_llmVars
               PROVE  RecordedCostIsAnUpperBound'
    OBVIOUS
  <2> USE BudgetAssumption DEF RecordedCostIsAnUpperBound
  <2>1. CASE Request
    BY <2>1, RequestPays DEF LLMTypeOK
  <2>2. ASSUME NEW r \in Repos, Ask(r)
        PROVE  RecordedCostIsAnUpperBound'
    BY <2>2 DEF LLMTypeOK, Ask
  <2>3. CASE GiveUp
    BY <2>3 DEF LLMTypeOK, GiveUp, Failure
  <2>4. CASE Save
    BY <2>4 DEF Save
  <2>5. CASE NextRun
    BY <2>5 DEF NextRun, NewBudget
  <2>6. CASE UNCHANGED llmVars
    BY <2>6 DEF llmVars
  <2> QED
    BY <2>1, <2>2, <2>3, <2>4, <2>5, <2>6 DEF LLMNext, FailAttempt, Answer
<1> QED
  BY <1>1, <1>2, LLMTypeCorrect, PTL DEF LLMSpec

(* A request is only ever sent for what is not in the cache. *)
THEOREM StoredIsNeverPaidTwice == LLMSpec => StoredIsNeverPaidAgain
<1> DEFINE BusyIsMissing == pc = "trying" => <<repo, content[repo]>> \notin stored
           Safe == budget'.calls > budget.calls => <<repo, content[repo]>> \notin stored
<1>1. LLMInit => BusyIsMissing
  BY DEF LLMInit
<1>2. LLMTypeOK /\ BusyIsMissing /\ [LLMNext]_llmVars => BusyIsMissing'
  <2> SUFFICES ASSUME LLMTypeOK, BusyIsMissing, [LLMNext]_llmVars
               PROVE  BusyIsMissing'
    OBVIOUS
  <2>1. ASSUME NEW r \in Repos, Ask(r)
        PROVE  BusyIsMissing'
    BY <2>1 DEF LLMTypeOK, Ask, Cached, analysis
  <2>2. CASE FailAttempt \/ GiveUp \/ Answer \/ Save \/ NextRun
    BY <2>2 DEF FailAttempt, GiveUp, Answer, Save, NextRun, analysis
  <2>3. CASE UNCHANGED llmVars
    BY <2>3 DEF llmVars, analysis
  <2> QED
    BY <2>1, <2>2, <2>3 DEF LLMNext
<1>3. LLMTypeOK /\ BusyIsMissing /\ [LLMNext]_llmVars => [Safe]_llmVars
  <2> SUFFICES ASSUME LLMTypeOK, BusyIsMissing, LLMNext
               PROVE  Safe
    OBVIOUS
  <2>1. CASE Request
    BY <2>1 DEF Request
  <2>2. ASSUME NEW r \in Repos, Ask(r)
        PROVE  Safe
    BY <2>2 DEF LLMTypeOK, Ask
  <2>3. CASE GiveUp \/ Save
    BY <2>3 DEF LLMTypeOK, GiveUp, Failure, Save
  <2>4. CASE NextRun
    BY <2>4 DEF LLMTypeOK, NextRun, NewBudget
  <2> QED
    BY <2>1, <2>2, <2>3, <2>4 DEF LLMNext, FailAttempt, Answer
<1> QED
  BY <1>1, <1>2, <1>3, LLMTypeCorrect, PTL DEF LLMSpec, StoredIsNeverPaidAgain
================================================================================
