----------------------- MODULE KnowledgeTransferProofs -----------------------
(***************************************************************************)
(* For any registry of targets, evidence and answers of the model: what is *)
(* queued was earned, a command never runs out of calls, and a queue       *)
(* accounts for the plan.  At the end, the acceptance gate for any history *)
(* of runs and grades: its verdicts are earned, unsafe runs stick, and     *)
(* neither early grades nor dry runs move it.                              *)
(***************************************************************************)
EXTENDS KnowledgeTransfer, AcceptanceGate, FiniteSetTheorems, WellFoundedInduction, TLAPS

(* An opportunity as the packet validator left it.                            *)
Sound(o) == o.status = Status(o.kinds) /\ o.target \in Targets

(* A judgement as the target-fit validator left it.                           *)
Earned(r) ==
    /\ r.class \in {"EXPERIMENT_READY", "READY_TO_TRANSFER"} =>
         Actionable(r.of) /\ (r.of.target \in Pinned => r.cited)
    /\ r.class = "READY_TO_TRANSFER" =>
         /\ r.of.action = "APPLY" /\ r.of.risk = "LOW"
         /\ {"SOURCE", "TEST"} \subseteq r.of.kinds
         /\ r.surface

(* The shape of a command: where its loop is and what it works on.            *)
Resting == /\ todo = {} /\ attempt = 0 /\ calls = 0 /\ packets = <<>> /\ chosen = {}
           /\ results = {} /\ ~judging /\ command = "none"
Running ==
    /\ stage = "idle" => Resting
    /\ stage # "idle" => command \in {"harvest", "fit"}
    /\ command = "fit" => judging
    /\ ~judging => results = {} /\ todo \subseteq Repos
    /\ judging => todo \subseteq chosen
    /\ stage = "ask" => todo # {}
    /\ stage # "ask" => attempt = 0

(* The types without the counter of calls, which takes the bound itself.      *)
Files ==
    /\ plan \subseteq {Opportunity(r, offer) : r \in Repos, offer \in Offers}
    /\ \A o \in plan : Sound(o)
    /\ \A r \in results : r.of \in plan
    /\ DOMAIN packets \subseteq Repos
    /\ \A r \in DOMAIN packets :
         packets[r] \in Packets /\ \A i \in DOMAIN packets[r] : packets[r][i].target \in Targets
Scalars ==
    /\ command \in {"none", "harvest", "fit"}
    /\ stage \in {"idle", "collect", "ask", "queue"}
    /\ judging \in BOOLEAN /\ errors \in BOOLEAN /\ lost \in BOOLEAN
    /\ chosen \subseteq Targets
    /\ evidence \in Bundles \union {{}}
    /\ attempt \in 0..MaxRetries
    /\ calls \in Nat /\ cost \in Nat
    /\ replays \in 0..MaxReplays
Typed == Scalars /\ Files /\ Running

(* A set of naturals that is not empty has a least element.                   *)
LEMMA LeastNatural ==
    ASSUME NEW T, T \subseteq Nat, T # {}
    PROVE  \E x \in T : \A y \in T : x <= y
<1>1. IsWellFoundedOn({ss \in Nat \X Nat : ss[1] < ss[2]}, Nat)
  BY NatLessThanWellFounded DEF OpToRel
<1>2. PICK x \in T : \A y \in T : ~ (<<y, x>> \in {ss \in Nat \X Nat : ss[1] < ss[2]})
  BY <1>1, WFMin
<1>3. \A y \in T : ~ (y < x)
  BY <1>2
<1> QED BY <1>3

LEMMA SubjectIsTodo ==
    ASSUME Typed, todo # {}
    PROVE  Subject \in todo
<1>1. todo \subseteq Nat
  BY TransferAssumption DEF Typed, Scalars, Running, TransferAssumption
<1> QED
  BY <1>1, LeastNatural DEF Subject, Least

LEMMA JudgementIsEarned ==
    ASSUME NEW o, Sound(o), NEW r \in Judgements(o)
    PROVE  Earned(r) /\ r.of = o
<1>1. PICK fact \in Facts(o.target) :
        /\ Admissible(o, fact)
        /\ r = [of |-> o, class |-> Classification(o, fact), pinned |-> evidence # {},
                cited |-> fact.refs # {}, surface |-> Surface(fact)]
  BY DEF Judgements
<1>2. CASE fact.core
  BY <1>1, <1>2 DEF Classification, Earned
<1>3. CASE ~fact.core /\ ~Worthwhile(o, fact)
  BY <1>1, <1>3 DEF Classification, Earned
<1>4. CASE ~fact.core /\ Worthwhile(o, fact)
  <2>1. Actionable(o) /\ (o.target \in Pinned => fact.refs # {})
    BY <1>1, <1>4 DEF Worthwhile, Admissible
  <2>2. CASE Ready(o, fact)
    <3>1. {"SOURCE", "TEST"} \subseteq o.kinds
      BY <2>2 DEF Ready, Sound, Status
    <3> QED
      BY <1>1, <1>4, <2>1, <2>2, <3>1 DEF Classification, Ready, Earned
  <2>3. CASE ~Ready(o, fact)
    BY <1>1, <1>4, <2>1, <2>3 DEF Classification, Earned
  <2> QED
    BY <2>2, <2>3
<1> QED
  BY <1>2, <1>3, <1>4

LEMMA AnswerIsEarned ==
    ASSUME NEW share, \A o \in share : Sound(o), NEW judged \in Answers(share)
    PROVE  \A r \in judged : r.of \in share /\ Earned(r)
<1>1. PICK f \in [share -> UNION {Judgements(o) : o \in share}] :
        (\A o \in share : f[o].of = o) /\ judged = Range(f)
  BY DEF Answers
<1>2. SUFFICES ASSUME NEW r \in judged
               PROVE  r.of \in share /\ Earned(r)
  OBVIOUS
<1>3. PICK o \in share : r = f[o]
  BY <1>1, <1>2 DEF Range
<1>4. PICK p \in share : r \in Judgements(p)
  BY <1>1, <1>3
<1> QED
  BY <1>4, JudgementIsEarned

LEMMA PlannedIsSound ==
    ASSUME Typed
    PROVE  /\ Planned \subseteq {Opportunity(r, offer) : r \in Repos, offer \in Offers}
           /\ \A o \in Planned : Sound(o)
<1> SUFFICES ASSUME NEW o \in Planned
             PROVE  o \in {Opportunity(r, offer) : r \in Repos, offer \in Offers} /\ Sound(o)
  OBVIOUS
<1>1. PICK r \in DOMAIN packets : \E i \in DOMAIN packets[r] : o = Opportunity(r, packets[r][i])
  BY DEF Planned
<1>2. PICK i \in DOMAIN packets[r] : o = Opportunity(r, packets[r][i])
  BY <1>1
<1>3. r \in Repos /\ packets[r] \in Packets /\ packets[r][i].target \in Targets
  BY <1>1, <1>2 DEF Typed, Files
<1>4. packets[r][i] \in Offers
  BY <1>2, <1>3 DEF Offers, Range
<1> QED
  BY <1>2, <1>3, <1>4 DEF Opportunity, Sound

LEMMA StopKeeps ==
    ASSUME Scalars, NEW result, Stop(result), replays' = replays
    PROVE  Scalars' /\ Running'
<1>1. attempt' \in 0..MaxRetries /\ calls' \in Nat /\ cost' \in Nat
  BY TransferAssumption DEF Stop, TransferAssumption
<1>2. Scalars'
  BY <1>1 DEF Scalars, Stop
<1>3. Running'
  BY DEF Running, Resting, Stop
<1> QED
  BY <1>2, <1>3

LEMMA TypedInit == Init => Typed
<1> SUFFICES ASSUME Init
             PROVE  Typed
  OBVIOUS
<1>0. attempt \in 0..MaxRetries /\ calls \in Nat /\ cost \in Nat /\ replays \in 0..MaxReplays
  BY TransferAssumption DEF Init, TransferAssumption
<1>1. Scalars
  BY <1>0 DEF Init, Scalars
<1>2. Running /\ Files
  BY DEF Init, Running, Resting, Files
<1> QED
  BY <1>1, <1>2 DEF Typed

(* The actions that do not work on one repository or target.                  *)
LEMMA CommandsTyped ==
    ASSUME Typed, Harvest \/ Refit \/ QueueByHand \/ Crash \/ PlanTransfer \/ WriteFit \/ QueueExperiments
    PROVE  Typed'
<1>1. CASE Harvest
  BY <1>1 DEF Harvest, asking, files, Typed, Scalars, Files, Running, Resting
<1>2. CASE Refit
  <2>1. Scalars'
    BY <1>2, TransferAssumption DEF Refit, asking, files, Typed, Scalars, Files, Sound, TransferAssumption
  <2>2. Files' /\ Running'
    BY <1>2 DEF Refit, asking, files, Typed, Files, Running, Resting
  <2> QED
    BY <2>1, <2>2 DEF Typed
<1>3. CASE QueueByHand
  BY <1>3 DEF QueueByHand, asking, Typed, Scalars, Files, Running, Resting
<1>4. CASE Crash
  <2>1. Scalars' /\ Running'
    BY <1>4, StopKeeps DEF Crash, Typed
  <2>2. Files'
    BY <1>4 DEF Crash, Stop, files, Typed, Files
  <2> QED
    BY <2>1, <2>2 DEF Typed
<1>5. CASE PlanTransfer
  <2>1. CASE \E result : Stop(result)
    <3>1. Scalars' /\ Running'
      BY <1>5, <2>1, StopKeeps DEF PlanTransfer, Typed
    <3>2. plan' \in {plan, Planned}
      BY <1>5 DEF PlanTransfer
    <3>3. Files'
      BY <2>1, <3>2, PlannedIsSound DEF Stop, Typed, Files
    <3> QED
      BY <3>1, <3>3 DEF Typed
  <2>2. CASE /\ plan' = Planned /\ chosen' = {o.target : o \in plan'} /\ todo' = chosen'
             /\ judging' = TRUE /\ lost' = errors /\ errors' = FALSE
             /\ UNCHANGED <<command, stage, asking, packets, results, outcome>>
    <3>0. chosen' \subseteq Targets
      BY <2>2, PlannedIsSound DEF Sound
    <3>1. Scalars'
      BY <1>5, <2>2, <3>0 DEF PlanTransfer, asking, Typed, Scalars
    <3>2. Files' /\ Running'
      BY <1>5, <2>2, PlannedIsSound DEF PlanTransfer, asking, Typed, Files, Running, Resting
    <3> QED
      BY <3>1, <3>2 DEF Typed
  <2> QED
    BY <1>5, <2>1, <2>2 DEF PlanTransfer
<1>6. CASE WriteFit
  BY <1>6 DEF WriteFit, asking, Typed, Scalars, Files, Running, Resting
<1>7. CASE QueueExperiments
  <2>1. Scalars' /\ Running'
    BY <1>7, StopKeeps DEF QueueExperiments, Typed
  <2>2. Files'
    BY <1>7 DEF QueueExperiments, Stop, Typed, Files
  <2> QED
    BY <2>1, <2>2 DEF Typed
<1> QED
  BY <1>1, <1>2, <1>3, <1>4, <1>5, <1>6, <1>7

LEMMA LeaveKeeps ==
    ASSUME Typed, stage # "idle", Leave, UNCHANGED <<command, judging, chosen, replays>>,
           calls' \in Nat, cost' \in Nat, errors' \in BOOLEAN, lost' \in BOOLEAN,
           ~judging => results' = results
    PROVE  Scalars' /\ Running'
<1>1. Scalars'
  BY TransferAssumption DEF Leave, Typed, Scalars, TransferAssumption
<1>2. Running'
  BY DEF Leave, Typed, Running, Resting
<1> QED
  BY <1>1, <1>2

LEMMA AskingTyped ==
    ASSUME Typed, Collect \/ Unasked \/ NetworkError \/ BadAnswer \/ AnalyseRepository \/ JudgeTarget
    PROVE  Typed'
<1>c. \A c \in Costs : cost + c \in Nat
  BY TransferAssumption DEF Typed, Scalars, TransferAssumption
<1>1. ASSUME stage # "idle", Skip, UNCHANGED <<command, judging, chosen, lost, files, replays>>
      PROVE  Typed'
  <2>1. Scalars' /\ Running'
    BY <1>1, LeaveKeeps DEF Skip, Typed, Scalars
  <2>2. Files'
    BY <1>1 DEF Skip, files, Typed, Files
  <2> QED
    BY <2>1, <2>2 DEF Typed
<1>2. ASSUME stage = "ask", Again, calls' \in Nat, cost' \in Nat,
             UNCHANGED <<command, judging, packets, chosen, results, lost, files, replays>>
      PROVE  Typed'
  <2>1. Files'
    BY <1>2 DEF files, Typed, Files
  <2>2. CASE attempt = MaxRetries
    <3>1. Scalars' /\ Running'
      BY <1>2, <2>2, LeaveKeeps DEF Again, Typed, Scalars
    <3> QED
      BY <2>1, <3>1 DEF Typed
  <2>3. CASE attempt # MaxRetries
    <3>1. attempt' \in 0..MaxRetries
      BY <1>2, <2>3, TransferAssumption DEF Again, Typed, Scalars, TransferAssumption
    <3>2. Scalars'
      BY <1>2, <2>3, <3>1 DEF Again, Typed, Scalars
    <3>3. Running'
      BY <1>2, <2>3 DEF Again, Typed, Running
    <3> QED
      BY <2>1, <3>2, <3>3 DEF Typed
  <2> QED
    BY <2>2, <2>3
<1>3. CASE Collect
  <2>1. CASE Skip
    BY <1>3, <2>1, <1>1 DEF Collect
  <2>2. CASE /\ stage' = "ask" /\ evidence' \in Bundles \union {evidence}
             /\ UNCHANGED <<todo, attempt, calls, cost, packets, results, errors>>
    <3>1. Scalars'
      BY <1>3, <2>2 DEF Collect, files, Typed, Scalars
    <3>2. Files' /\ Running'
      BY <1>3, <2>2 DEF Collect, files, Typed, Files, Running, Resting
    <3> QED
      BY <3>1, <3>2 DEF Typed
  <2> QED
    BY <1>3, <2>1, <2>2 DEF Collect, asking
<1>4. CASE Unasked
  BY <1>4, <1>1 DEF Unasked
<1>5. CASE NetworkError
  BY <1>5, <1>2 DEF NetworkError, Typed, Scalars
<1>6. CASE BadAnswer
  <2>1. calls' \in Nat /\ cost' \in Nat
    BY <1>6, <1>c DEF BadAnswer, Typed, Scalars
  <2> QED
    BY <1>6, <1>2, <2>1 DEF BadAnswer
<1>7. CASE AnalyseRepository
  <2>1. calls' \in Nat /\ cost' \in Nat
    BY <1>7, <1>c DEF AnalyseRepository, Billed, Typed, Scalars
  <2>2. Scalars' /\ Running'
    BY <1>7, <2>1, LeaveKeeps DEF AnalyseRepository, Typed, Scalars
  <2>3. Files'
    <3>1. PICK packet \in Packets :
            /\ \A i \in DOMAIN packet : OfferStands(packet[i], evidence)
            /\ packets' = [r \in DOMAIN packets \union {Subject} |->
                             IF r = Subject THEN packet ELSE packets[r]]
      BY <1>7 DEF AnalyseRepository
    <3>2. Subject \in Repos
      BY <1>7, SubjectIsTodo DEF AnalyseRepository, Typed, Running
    <3>3. /\ DOMAIN packets' = DOMAIN packets \union {Subject}
          /\ packets'[Subject] = packet
          /\ \A r \in DOMAIN packets \ {Subject} : packets'[r] = packets[r]
      BY <3>1
    <3>4. ASSUME NEW r \in DOMAIN packets'
          PROVE  /\ packets'[r] \in Packets
                 /\ \A i \in DOMAIN packets'[r] : packets'[r][i].target \in Targets
      <4>1. CASE r = Subject
        BY <3>1, <3>3, <4>1 DEF OfferStands
      <4>2. CASE r # Subject
        BY <3>3, <3>4, <4>2 DEF Typed, Files
      <4> QED
        BY <4>1, <4>2
    <3>5. DOMAIN packets' \subseteq Repos
      BY <3>2, <3>3 DEF Typed, Files
    <3>6. plan' = plan /\ results' = results
      BY <1>7 DEF AnalyseRepository, files
    <3> QED
      BY <3>4, <3>5, <3>6 DEF Typed, Files
  <2> QED
    BY <2>2, <2>3 DEF Typed
<1>8. CASE JudgeTarget
  <2>1. calls' \in Nat /\ cost' \in Nat
    BY <1>8, <1>c DEF JudgeTarget, Billed, Typed, Scalars
  <2>2. Scalars' /\ Running'
    BY <1>8, <2>1, LeaveKeeps DEF JudgeTarget, Typed, Scalars
  <2>3. \A o \in Share(Subject) : o \in plan /\ Sound(o)
    BY DEF Share, Typed, Files
  <2>4. PICK judged \in Answers(Share(Subject)) : results' = results \union judged
    BY <1>8 DEF JudgeTarget
  <2>5. Files'
    BY <1>8, <2>3, <2>4, AnswerIsEarned DEF JudgeTarget, files, Typed, Files
  <2> QED
    BY <2>2, <2>5 DEF Typed
<1> QED
  BY <1>3, <1>4, <1>5, <1>6, <1>7, <1>8

LEMMA TypedNext == Typed /\ [Next]_vars => Typed'
<1>1. ASSUME Typed, UNCHANGED vars
      PROVE  Typed'
  BY <1>1 DEF vars, asking, files, Typed, Scalars, Files, Running, Resting
<1> QED
  BY <1>1, CommandsTyped, AskingTyped DEF Next

(* What a fit holds was judged on the pinned evidence, and a queue only takes  *)
(* from a fit.                                                                *)
Judged == /\ stage = "queue" => fit.written /\ fit.results = results
          /\ \A r \in results : Earned(r)
          /\ fit.written => \A r \in fit.results : Earned(r)
          /\ queue.written => \A r \in queue.experiments :
               /\ r.of.target \in Pinned /\ r.pinned /\ Earned(r)
               /\ r.class \in {"EXPERIMENT_READY", "READY_TO_TRANSFER"}

LEMMA QueueJudges ==
    ASSUME NEW judged, \A r \in judged : Earned(r), NEW auto, NEW targets,
           queue' = Queue(judged, auto, targets)
    PROVE  \A r \in queue'.experiments :
               /\ r.of.target \in Pinned /\ r.pinned /\ Earned(r)
               /\ r.class \in {"EXPERIMENT_READY", "READY_TO_TRANSFER"}
  BY DEF Queue, Queueable

LEMMA JudgedNext == Typed /\ Judged /\ [Next]_vars => Judged'
<1> SUFFICES ASSUME Typed, Judged, [Next]_vars
             PROVE  Judged'
  OBVIOUS
<1>1. CASE JudgeTarget
  <2>1. \A o \in Share(Subject) : Sound(o)
    BY DEF Share, Typed, Files
  <2>2. PICK judged \in Answers(Share(Subject)) : results' = results \union judged
    BY <1>1 DEF JudgeTarget
  <2>3. \A r \in judged : Earned(r)
    BY <2>1, <2>2, AnswerIsEarned
  <2> QED
    BY <1>1, <2>2, <2>3 DEF JudgeTarget, Leave, files, Judged
<1>2. CASE QueueExperiments
  <2>1. results' = {} /\ fit' = fit /\ (queue' = queue \/ queue' = Queue(fit.results, TRUE, chosen))
    BY <1>2 DEF QueueExperiments, Stop
  <2>2. stage = "queue" /\ stage' = "idle"
    BY <1>2 DEF QueueExperiments, Stop
  <2> QED
    BY <2>1, <2>2, QueueJudges DEF Judged
<1>3. CASE QueueByHand
  <2>1. PICK targets \in SUBSET Targets :
          queue' = Queue({r \in fit.results : r.of.target \in targets}, FALSE, targets)
    BY <1>3 DEF QueueByHand
  <2>2. UNCHANGED <<results, fit>> /\ fit.written /\ stage' = "idle"
    BY <1>3 DEF QueueByHand
  <2>3. \A r \in {q \in fit.results : q.of.target \in targets} : Earned(r)
    BY <2>2 DEF Judged
  <2> QED
    BY <2>1, <2>2, <2>3, QueueJudges DEF Judged
<1>4. CASE WriteFit
  BY <1>4 DEF WriteFit, Judged
<1>5. CASE PlanTransfer
  <2>1. (results' = {} \/ results' = results) /\ stage' # "queue"
    BY <1>5 DEF PlanTransfer, Stop
  <2> QED
    BY <1>5, <2>1 DEF PlanTransfer, Judged
<1>6. CASE Crash
  BY <1>6 DEF Crash, Stop, files, Judged
<1>7. CASE Collect \/ Unasked \/ NetworkError \/ BadAnswer \/ AnalyseRepository \/ Harvest \/ Refit
  BY <1>7 DEF Collect, Skip, Leave, Unasked, NetworkError, BadAnswer, Again, AnalyseRepository, Harvest,
              Refit, files, Judged
<1>8. CASE UNCHANGED vars
  BY <1>8 DEF vars, files, Judged
<1> QED
  BY <1>1, <1>2, <1>3, <1>4, <1>5, <1>6, <1>7, <1>8 DEF Next

(* target_fit.py, experiment_queue.py and validator.py: for any evidence and  *)
(* any answers of the model, what is queued was earned.                       *)
THEOREM QueueIsAlwaysEarned == Spec => []QueueIsEarned
<1>1. Init => Typed /\ Judged
  BY TypedInit DEF Init, Absent, Judged
<1>2. Typed /\ Judged /\ [Next]_vars => Typed' /\ Judged'
  BY TypedNext, JudgedNext
<1>3. Judged => QueueIsEarned
  BY DEF Judged, Earned, QueueIsEarned
<1> QED
  BY <1>1, <1>2, <1>3, PTL DEF Spec

-----------------------------------------------------------------------------
(* The calls the command may still need never exceed those it still has: one  *)
(* analysis with all its retries for each repository or target to come.       *)
Ahead   == IF command = "harvest" /\ ~judging THEN Attempts * Cardinality(Targets) ELSE 0
Counted == stage # "idle" => calls + Attempts * Cardinality(todo) + Ahead <= CallCap + attempt

LEMMA Sizes ==
    ASSUME Typed
    PROVE  /\ IsFiniteSet(todo) /\ Cardinality(todo) \in Nat
           /\ IsFiniteSet(chosen) /\ Cardinality(chosen) \in Nat /\ Cardinality(chosen) <= Cardinality(Targets)
           /\ Cardinality(Repos) \in Nat /\ Cardinality(Targets) \in Nat
           /\ Attempts \in Nat /\ Attempts = MaxRetries + 1
           /\ attempt \in 0..MaxRetries /\ calls \in Nat /\ MaxRetries \in Nat
<1>1. IsFiniteSet(Repos) /\ IsFiniteSet(Targets) /\ MaxRetries \in Nat
  BY TransferAssumption DEF TransferAssumption
<1>2. chosen \subseteq Targets /\ (todo \subseteq Repos \/ todo \subseteq chosen)
  BY DEF Typed, Scalars, Running
<1>3. IsFiniteSet(chosen) /\ Cardinality(chosen) <= Cardinality(Targets)
  BY <1>1, <1>2, FS_Subset
<1>4. IsFiniteSet(todo)
  BY <1>1, <1>2, <1>3, FS_Subset
<1>5. /\ Cardinality(todo) \in Nat /\ Cardinality(chosen) \in Nat
      /\ Cardinality(Repos) \in Nat /\ Cardinality(Targets) \in Nat
  BY <1>1, <1>3, <1>4, FS_CardinalityType
<1>6. attempt \in 0..MaxRetries /\ calls \in Nat
  BY DEF Typed, Scalars
<1> QED
  BY <1>1, <1>3, <1>4, <1>5, <1>6 DEF Attempts

LEMMA Products ==
    ASSUME NEW a \in Nat, NEW m \in Nat, NEW n \in Nat
    PROVE  /\ a * m \in Nat /\ a * (m + n) = a * m + a * n
           /\ m <= n => a * m <= a * n
<1>1. a * m \in Nat /\ a * (m + n) = a * m + a * n
  OBVIOUS
<1>2. ASSUME m <= n
      PROVE  a * m <= a * n
  <2>1. PICK d \in Nat : n = m + d
    BY <1>2, n - m \in Nat
  <2>2. a * n = a * m + a * d /\ a * d \in Nat /\ a * m \in Nat
    BY <2>1
  <2> QED
    BY <2>2
<1> QED
  BY <1>1, <1>2

LEMMA CallCapType ==
    ASSUME Typed
    PROVE  CallCap \in Nat /\ Ahead \in Nat
<1>1. Cardinality(Repos) + Cardinality(Targets) \in Nat
  BY Sizes
<1> QED
  BY <1>1, Sizes, Products DEF CallCap, Ahead

(* On to the next one: it gives up as many calls as it could have made.       *)
LEMMA LeaveCounts ==
    ASSUME Typed, Counted, todo # {}, stage # "idle", Leave, UNCHANGED <<command, judging, chosen>>,
           \/ calls' = calls
           \/ calls' = calls + 1
    PROVE  Counted'
<1>1. Cardinality(todo') = Cardinality(todo) - 1
  BY SubjectIsTodo, Sizes, FS_RemoveElement DEF Leave
<1>2. Cardinality(todo') \in Nat
  BY Sizes, FS_RemoveElement, FS_CardinalityType DEF Leave
<1>3. Attempts * Cardinality(todo) = Attempts * Cardinality(todo') + Attempts
  <2>1. Cardinality(todo) = Cardinality(todo') + 1
    BY <1>1, <1>2, Sizes
  <2>2. Attempts * (Cardinality(todo') + 1) = Attempts * Cardinality(todo') + Attempts * 1
    BY <1>2, Sizes, Products
  <2> QED
    BY <2>1, <2>2, Sizes
<1>4. Attempts * Cardinality(todo') \in Nat
  BY <1>2, Sizes, Products
<1>5. CallCap' = CallCap /\ Ahead' = Ahead /\ attempt' = 0
  BY DEF CallCap, Ahead, Leave
<1>6. calls + Attempts * Cardinality(todo) + Ahead <= CallCap + attempt
  BY DEF Counted
<1>7. calls' + Attempts * Cardinality(todo') + Ahead' <= CallCap' + attempt'
  BY <1>3, <1>4, <1>5, <1>6, Sizes, CallCapType
<1> QED
  BY <1>7 DEF Counted

LEMMA CountedNext == Typed /\ Counted /\ [Next]_vars => Counted'
<1> SUFFICES ASSUME Typed, Counted, [Next]_vars
             PROVE  Counted'
  OBVIOUS
<1>1. CASE Harvest
  <2>1. todo' = Repos /\ calls' = 0 /\ attempt' = 0 /\ command' = "harvest" /\ ~judging'
    BY <1>1 DEF Harvest, asking, Typed, Running, Resting
  <2>2. CallCap' = Attempts * (Cardinality(Repos) + Cardinality(Targets))
    BY <2>1 DEF CallCap
  <2>3. Ahead' = Attempts * Cardinality(Targets)
    BY <2>1 DEF Ahead
  <2>4. CallCap' = Attempts * Cardinality(Repos) + Ahead'
    BY <2>2, <2>3, Sizes, Products
  <2>5. Attempts * Cardinality(Repos) \in Nat /\ Ahead' \in Nat
    BY <2>3, Sizes, Products
  <2> QED
    BY <2>1, <2>4, <2>5 DEF Counted
<1>2. CASE Refit
  <2>1. todo' = chosen' /\ calls' = 0 /\ attempt' = 0 /\ command' = "fit"
    BY <1>2 DEF Refit, asking, Typed, Running, Resting
  <2>2. CallCap' = Attempts * Cardinality(chosen') /\ Ahead' = 0
    BY <2>1 DEF CallCap, Ahead
  <2>3. Attempts * Cardinality(chosen') \in Nat
    <3>1. Typed'
      BY TypedNext
    <3>2. Cardinality(chosen') \in Nat
      BY <3>1, TransferAssumption, FS_Subset, FS_CardinalityType DEF Typed, Scalars, TransferAssumption
    <3> QED
      BY <3>2, Sizes, Products
  <2> QED
    BY <2>1, <2>2, <2>3 DEF Counted
<1>3. CASE PlanTransfer
  <2>1. CASE \E result : Stop(result)
    BY <2>1 DEF Stop, Counted
  <2>2. CASE ~(\E result : Stop(result))
    <3>1. /\ todo = {} /\ stage = "collect" /\ ~judging /\ todo' = chosen' /\ judging'
          /\ UNCHANGED <<command, stage, calls, attempt>>
      BY <1>3, <2>2 DEF PlanTransfer, asking
    <3>2. command = "harvest"
      BY <3>1 DEF Typed, Running
    <3>3. CallCap' = CallCap /\ Ahead' = 0 /\ Ahead = Attempts * Cardinality(Targets)
      BY <3>1, <3>2 DEF CallCap, Ahead
    <3>4. Attempts * Cardinality(chosen') <= Ahead /\ Attempts * Cardinality(chosen') \in Nat
      <4>1. Typed'
        BY TypedNext
      <4>2. chosen' \subseteq Targets /\ IsFiniteSet(Targets)
        BY <4>1, TransferAssumption DEF Typed, Scalars, TransferAssumption
      <4>3. Cardinality(chosen') \in Nat /\ Cardinality(chosen') <= Cardinality(Targets)
        BY <4>2, FS_Subset, FS_CardinalityType
      <4> QED
        BY <3>3, <4>3, Sizes, Products
    <3>5. calls + Ahead <= CallCap + attempt
      <4>1. Attempts * Cardinality(todo) = 0
        BY <3>1, FS_EmptySet, Sizes
      <4> QED
        BY <3>1, <4>1, Sizes, CallCapType DEF Counted
    <3>6. calls' + Attempts * Cardinality(todo') + Ahead' <= CallCap' + attempt'
      BY <3>1, <3>3, <3>4, <3>5, Sizes, CallCapType
    <3> QED
      BY <3>6 DEF Counted
  <2> QED
    BY <2>1, <2>2
<1>4. ASSUME todo # {}, stage # "idle", Skip, UNCHANGED <<command, judging, chosen>>
      PROVE  Counted'
  BY <1>4, LeaveCounts DEF Skip
<1>5. ASSUME stage = "ask", Again, UNCHANGED <<command, judging, chosen>>,
             \/ calls' = calls
             \/ calls' = calls + 1
      PROVE  Counted'
  <2>1. CASE attempt = MaxRetries
    <3>1. todo # {}
      BY <1>5 DEF Typed, Running
    <3> QED
      BY <1>5, <2>1, <3>1, LeaveCounts DEF Again
  <2>2. CASE attempt # MaxRetries
    <3>1. /\ attempt' = attempt + 1 /\ todo' = todo /\ CallCap' = CallCap /\ Ahead' = Ahead
          /\ calls + Attempts * Cardinality(todo) + Ahead <= CallCap + attempt
      BY <1>5, <2>2 DEF Again, CallCap, Ahead, Counted
    <3>2. Attempts * Cardinality(todo) \in Nat
      BY Sizes, Products
    <3>3. calls' + Attempts * Cardinality(todo') + Ahead' <= CallCap' + attempt'
      BY <1>5, <3>1, <3>2, Sizes, CallCapType
    <3> QED
      BY <3>3 DEF Counted
  <2> QED
    BY <2>1, <2>2
<1>6. CASE Collect
  <2>1. CASE Skip
    BY <1>6, <2>1, <1>4 DEF Collect
  <2>2. CASE UNCHANGED <<todo, attempt, calls>>
    BY <1>6, <2>2 DEF Collect, Counted, CallCap, Ahead
  <2> QED
    BY <1>6, <2>1, <2>2 DEF Collect, asking
<1>7. CASE Unasked
  BY <1>7, <1>4 DEF Unasked, Typed, Running
<1>8. CASE NetworkError \/ BadAnswer
  BY <1>8, <1>5 DEF NetworkError, BadAnswer
<1>9. CASE AnalyseRepository \/ JudgeTarget
  BY <1>9, LeaveCounts DEF AnalyseRepository, JudgeTarget, Billed, Typed, Running
<1>10. CASE WriteFit \/ QueueByHand
  <2>1. UNCHANGED <<command, judging, todo, chosen, attempt, calls>> /\ (stage = "idle" => stage' = "idle")
    BY <1>10 DEF WriteFit, QueueByHand, asking
  <2> QED
    BY <2>1 DEF Counted, CallCap, Ahead
<1>11. CASE Crash \/ QueueExperiments
  BY <1>11 DEF Crash, QueueExperiments, Stop, Counted
<1>12. CASE UNCHANGED vars
  BY <1>12 DEF vars, asking, Counted, CallCap, Ahead
<1> QED
  BY <1>1, <1>2, <1>3, <1>6, <1>7, <1>8, <1>9, <1>10, <1>11, <1>12 DEF Next

LEMMA CountedAlways == Spec => [](Typed /\ Counted)
<1>1. Init => Typed /\ Counted
  BY TypedInit DEF Init, Counted
<1>2. Typed /\ Counted /\ [Next]_vars => Typed' /\ Counted'
  BY TypedNext, CountedNext
<1> QED
  BY <1>1, <1>2, PTL DEF Spec

(* Every variable of the commands keeps its type; the calls are within the    *)
(* cap.                                                                       *)
THEOREM TypeCorrect == Spec => []TypeOK
<1>1. Typed /\ Counted => TypeOK
  <2> SUFFICES ASSUME Typed, Counted
               PROVE  TypeOK
    OBVIOUS
  <2>1. Attempts * Cardinality(todo) \in Nat
    BY Sizes, Products
  <2>2. calls \in 0..CallCap
    <3>1. CASE stage = "idle"
      BY <3>1, CallCapType DEF Typed, Running, Resting
    <3>2. CASE stage = "ask"
      <4>1. Cardinality(todo) = (Cardinality(todo) - 1) + 1 /\ Cardinality(todo) - 1 \in Nat
        BY <3>2, Sizes, FS_EmptySet DEF Typed, Running
      <4>2. Attempts * Cardinality(todo) = Attempts * (Cardinality(todo) - 1) + Attempts
        BY <4>1, Sizes, Products
      <4>3. Attempts * (Cardinality(todo) - 1) \in Nat
        BY <4>1, Sizes, Products
      <4> QED
        BY <3>2, <4>2, <4>3, Sizes, CallCapType DEF Counted
    <3>3. CASE stage \notin {"idle", "ask"}
      BY <2>1, <3>3, Sizes, CallCapType DEF Counted, Typed, Running
    <3> QED
      BY <3>1, <3>2, <3>3
  <2>3. todo \subseteq Repos \union Targets
    BY DEF Typed, Scalars, Running
  <2> QED
    BY <2>2, <2>3 DEF Typed, Scalars, Files, TypeOK
<1> QED
  BY <1>1, CountedAlways, PTL

(* cmd_harvest and cmd_fit_knowledge: the cap leaves room for every retry of  *)
(* everything the command is about, whatever failed before.                   *)
THEOREM CallsAreNeverUsedUp == Spec => []CallsNeverRunOut
<1>1. Typed /\ Counted => CallsNeverRunOut
  <2> SUFFICES ASSUME Typed, Counted, stage = "ask"
               PROVE  calls < CallCap
    BY DEF CallsNeverRunOut
  <2>1. Cardinality(todo) - 1 \in Nat
    BY Sizes, FS_EmptySet DEF Typed, Running
  <2>2. Attempts * Cardinality(todo) = Attempts * (Cardinality(todo) - 1) + Attempts
    <3>1. Cardinality(todo) = (Cardinality(todo) - 1) + 1
      BY Sizes
    <3>2. Attempts * ((Cardinality(todo) - 1) + 1) = Attempts * (Cardinality(todo) - 1) + Attempts * 1
      BY <2>1, Sizes, Products
    <3> QED
      BY <3>1, <3>2, Sizes
  <2>3. Attempts * (Cardinality(todo) - 1) \in Nat
    BY <2>1, Sizes, Products
  <2> QED
    BY <2>2, <2>3, Sizes, CallCapType DEF Counted
<1> QED
  BY <1>1, CountedAlways, PTL

-----------------------------------------------------------------------------
(* Before the first plan there are no files, and a plan that was judged stays *)
(* what it was; the results of a fit are finite in number and judge what was  *)
(* asked for.                                                                 *)
Unplanned == (command = "harvest" /\ ~judging) \/ (stage = "idle" /\ outcome = "none")
Asked     == /\ IsFiniteSet(plan) /\ IsFiniteSet(results)
             /\ \A r \in results : r.of.target \in chosen
             /\ Unplanned => plan = {} /\ ~fit.written /\ ~queue.written
Accounted == Asked /\ QueueAccountsForThePlan

LEMMA PlannedIsFinite ==
    ASSUME Typed
    PROVE  IsFiniteSet(Planned)
<1> DEFINE Kept(r)  == {j \in DOMAIN packets[r] :
                          \A k \in 1..(j - 1) : Identity(packets[r][k]) # Identity(packets[r][j])}
           Made(r)  == {Opportunity(r, packets[r][i]) : i \in Kept(r)}
           All      == {Made(r) : r \in DOMAIN packets}
<1>1. ASSUME NEW r \in DOMAIN packets
      PROVE  IsFiniteSet(Made(r))
  <2>1. IsFiniteSet(DOMAIN packets[r])
    BY TransferAssumption DEF Typed, Files, TransferAssumption
  <2>2. IsFiniteSet(Kept(r))
    BY <2>1, FS_Subset
  <2>3. [i \in Kept(r) |-> Opportunity(r, packets[r][i])] \in Surjection(Kept(r), Made(r))
    BY DEF Surjection
  <2> HIDE DEF Kept, Made
  <2> QED
    BY <2>2, <2>3, FS_Surjection
<1>2. IsFiniteSet(DOMAIN packets)
  BY TransferAssumption, FS_Subset DEF Typed, Files, TransferAssumption
<1>3. IsFiniteSet(All)
  <2>1. [r \in DOMAIN packets |-> Made(r)] \in Surjection(DOMAIN packets, All)
    <3> HIDE DEF Made
    <3> QED
      BY DEF Surjection
  <2> HIDE DEF All
  <2> QED
    BY <1>2, <2>1, FS_Surjection
<1>4. IsFiniteSet(UNION All)
  <2>1. \A T \in All : IsFiniteSet(T)
    <3> HIDE DEF Made
    <3> QED
      BY <1>1
  <2> HIDE DEF All
  <2> QED
    BY <1>3, <2>1, FS_UNION
<1>5. Planned = UNION All
  BY DEF Planned
<1> QED
  BY <1>4, <1>5

LEMMA AnswerIsFinite ==
    ASSUME NEW share, IsFiniteSet(share), NEW judged \in Answers(share)
    PROVE  IsFiniteSet(judged)
<1>1. PICK f \in [share -> UNION {Judgements(o) : o \in share}] : judged = Range(f)
  BY DEF Answers
<1>2. f \in Surjection(share, Range(f))
  BY DEF Surjection, Range
<1> QED
  BY <1>1, <1>2, FS_Surjection

LEMMA QueueAccounts ==
    ASSUME NEW judged, IsFiniteSet(judged), NEW auto, NEW targets
    PROVE  LET q == Queue(judged, auto, targets)
           IN /\ Cardinality(judged) = Cardinality(q.experiments \union q.deferred) + q.excluded
              /\ q.experiments \union q.deferred \subseteq judged
<1> DEFINE q == Queue(judged, auto, targets)
<1>1. q.experiments \union q.deferred = Queueable(judged) /\ q.excluded = Cardinality(judged \ Queueable(judged))
  BY DEF Queue
<1>2. Queueable(judged) \subseteq judged
  BY DEF Queueable
<1>3. judged \intersect Queueable(judged) = Queueable(judged)
  BY <1>2
<1>4. Cardinality(judged \ Queueable(judged)) = Cardinality(judged) - Cardinality(Queueable(judged))
  BY <1>3, FS_Difference
<1>5. Cardinality(judged) \in Nat /\ Cardinality(Queueable(judged)) \in Nat
  BY <1>2, FS_Subset, FS_CardinalityType
<1>6. Cardinality(judged) = Cardinality(Queueable(judged)) + Cardinality(judged \ Queueable(judged))
  BY <1>4, <1>5
<1> QED
  BY <1>1, <1>2, <1>6, Zenon

LEMMA AccountedNext == Typed /\ Judged /\ Accounted /\ [Next]_vars => Accounted'
<1> SUFFICES ASSUME Typed, Judged, Accounted, [Next]_vars
             PROVE  Accounted'
  OBVIOUS
<1>1. CASE JudgeTarget
  <2>1. IsFiniteSet(Share(Subject)) /\ Share(Subject) \subseteq plan
    BY FS_Subset DEF Share, Accounted, Asked
  <2>2. PICK judged \in Answers(Share(Subject)) : results' = results \union judged
    BY <1>1 DEF JudgeTarget
  <2>3. IsFiniteSet(results')
    BY <2>1, <2>2, AnswerIsFinite, FS_Union DEF Accounted, Asked
  <2>4. Subject \in chosen /\ judging /\ stage' # "idle"
    BY <1>1, SubjectIsTodo DEF JudgeTarget, Leave, Typed, Running
  <2>5. \A r \in judged : r.of \in Share(Subject)
    BY <2>1, <2>2, AnswerIsEarned DEF Typed, Files
  <2>6. \A r \in results' : r.of.target \in chosen
    BY <2>2, <2>4, <2>5 DEF Share, Accounted, Asked
  <2> QED
    BY <1>1, <2>3, <2>4, <2>6
    DEF JudgeTarget, files, Accounted, Asked, Unplanned, QueueAccountsForThePlan
<1>2. CASE PlanTransfer
  <2>1. Unplanned /\ queue' = queue /\ fit' = fit
    BY <1>2 DEF PlanTransfer, Unplanned, Typed, Running
  <2>2. results' = {} /\ IsFiniteSet({})
    BY <1>2, FS_EmptySet DEF PlanTransfer, Stop, Typed, Running
  <2>3. plan' \in {plan, Planned}
    BY <1>2 DEF PlanTransfer
  <2>4. IsFiniteSet(plan')
    BY <2>3, PlannedIsFinite DEF Accounted, Asked
  <2>5. ~Unplanned'
    <3>1. ASSUME NEW result \in {"FAILED", "PARTIAL", "SUCCESS"}, Stop(result)
          PROVE  ~Unplanned'
      BY <3>1 DEF Stop, Unplanned
    <3>2. CASE judging' = TRUE /\ UNCHANGED stage
      BY <1>2, <3>2 DEF PlanTransfer, Unplanned
    <3> QED
      BY <1>2, <3>1, <3>2 DEF PlanTransfer, Result
  <2>6. ~queue'.written
    BY <2>1 DEF Accounted, Asked
  <2> QED
    BY <2>2, <2>4, <2>5, <2>6 DEF Accounted, Asked, QueueAccountsForThePlan
<1>3. CASE QueueExperiments
  <2>1. fit.results = results /\ stage = "queue" /\ plan' = plan /\ fit' = fit
    BY <1>3 DEF QueueExperiments, Judged
  <2>2. results' = {} /\ IsFiniteSet({}) /\ command' = "none" /\ outcome' # "none"
    BY <1>3, FS_EmptySet DEF QueueExperiments, Stop, Result
  <2>3. CASE queue' = queue
    BY <2>1, <2>2, <2>3 DEF Accounted, Asked, Unplanned, QueueAccountsForThePlan
  <2>4. CASE Complete /\ queue' = Queue(results, TRUE, chosen)
    <3>1. queue'.targets = chosen
      BY <2>4 DEF Queue
    <3>2. /\ Cardinality(results) = Cardinality(queue'.experiments \union queue'.deferred) + queue'.excluded
          /\ queue'.experiments \union queue'.deferred \subseteq results
      BY <2>4, QueueAccounts DEF Accounted, Asked
    <3>3. Cardinality(results) = Cardinality(Requested)
      BY <2>4 DEF Complete
    <3>4. \A r \in results : r.of \in Requested
      BY DEF Requested, Accounted, Asked, Typed, Files
    <3>5. QueueAccountsForThePlan'
      BY <2>1, <3>1, <3>2, <3>3, <3>4 DEF QueueAccountsForThePlan, Requested
    <3> QED
      BY <2>1, <2>2, <3>5 DEF Accounted, Asked, Unplanned
  <2> QED
    BY <1>3, <2>1, <2>3, <2>4 DEF QueueExperiments
<1>4. CASE QueueByHand
  <2>1. ~queue'.auto /\ UNCHANGED <<command, stage, judging, chosen, results, plan, fit, outcome>> /\ fit.written
    BY <1>4 DEF QueueByHand, Queue
  <2> QED
    BY <2>1 DEF Accounted, Asked, Unplanned, QueueAccountsForThePlan
<1>5. CASE Crash
  <2>1. results' = {} /\ IsFiniteSet({}) /\ command' = "none" /\ outcome' # "none"
        /\ UNCHANGED <<plan, fit, queue>>
    BY <1>5, FS_EmptySet DEF Crash, Stop, files
  <2> QED
    BY <2>1 DEF Accounted, Asked, Unplanned, QueueAccountsForThePlan
<1>6. CASE Harvest
  <2>1. UNCHANGED <<chosen, results, plan, fit, queue>> /\ Unplanned
    BY <1>6 DEF Harvest, files, Unplanned
  <2> QED
    BY <2>1 DEF Accounted, Asked, QueueAccountsForThePlan
<1>7. CASE Refit
  <2>1. UNCHANGED <<results, plan, fit, queue>> /\ command' = "fit" /\ stage' = "collect" /\ results = {}
    BY <1>7 DEF Refit, files, Typed, Running, Resting
  <2> QED
    BY <2>1 DEF Accounted, Asked, Unplanned, QueueAccountsForThePlan
<1>8. CASE WriteFit
  <2>1. UNCHANGED <<command, judging, chosen, results, plan, queue>> /\ judging /\ stage' = "queue"
    BY <1>8 DEF WriteFit
  <2> QED
    BY <2>1 DEF Accounted, Asked, Unplanned, QueueAccountsForThePlan
<1>9. CASE Collect \/ Unasked \/ NetworkError \/ BadAnswer \/ AnalyseRepository
  <2>1. UNCHANGED <<command, judging, chosen, results, plan, fit, queue>> /\ stage' # "idle"
    BY <1>9 DEF Collect, Skip, Leave, Unasked, NetworkError, BadAnswer, Again, AnalyseRepository, files
  <2> QED
    BY <2>1 DEF Accounted, Asked, Unplanned, QueueAccountsForThePlan
<1>10. CASE UNCHANGED vars
  BY <1>10 DEF vars, files, Accounted, Asked, Unplanned, QueueAccountsForThePlan
<1> QED
  BY <1>1, <1>2, <1>3, <1>4, <1>5, <1>6, <1>7, <1>8, <1>9, <1>10 DEF Next

(* cmd_harvest, cmd_fit_knowledge: a queue written by itself accounts for all *)
(* the plan has for its targets, for any plan and any failures.               *)
THEOREM QueueAlwaysAccountsForThePlan == Spec => []QueueAccountsForThePlan
<1>1. Init => Typed /\ Judged /\ Accounted
  <2> SUFFICES ASSUME Init
               PROVE  Judged /\ Accounted
    BY TypedInit
  <2> QED
    BY FS_EmptySet DEF Init, Absent, Judged, Accounted, Asked, QueueAccountsForThePlan
<1>2. Typed /\ Judged /\ Accounted /\ [Next]_vars => Typed' /\ Judged' /\ Accounted'
  BY TypedNext, JudgedNext, AccountedNext
<1>3. Accounted => QueueAccountsForThePlan
  BY DEF Accounted
<1> QED
  BY <1>1, <1>2, <1>3, PTL DEF Spec

-----------------------------------------------------------------------------
(* The acceptance gate.  A row of the runs table, and the history as the runs *)
(* leave it: in the order of the days, with an Issue for what was notified.   *)
Row ==
    [day : Nat, dry : BOOLEAN, violation : BOOLEAN, issue : Nat, notes : SUBSET Gems,
     result : {"SUCCESS_NO_FINDINGS", "OTHER"}]

Kept ==
    /\ day \in 1..MaxDay
    /\ runs \in Seq(Row)
    /\ grade \in [Gems -> {"UNGRADED", "GOOD", "BAD"}]
    /\ \A i \in DOMAIN runs :
         /\ runs[i].day \in 1..day
         /\ runs[i].notes # {} => runs[i].issue # 0 /\ ~runs[i].dry
    /\ \A i, k \in DOMAIN runs : i <= k => runs[i].day <= runs[k].day

(* The newest RowLimit rows reach back over the whole window.                 *)
RowsSuffice == \A i \in DOMAIN runs : runs[i].day > NewestDay - Required => i \in Evidence

LastDays == (NewestDay - Required + 1)..NewestDay

LEMMA RowsAreRows ==
    ASSUME Kept, NEW i \in DOMAIN runs
    PROVE  /\ runs[i] \in Row
           /\ runs[i].issue \in Nat /\ runs[i].notes \subseteq Gems
           /\ runs[i].dry \in BOOLEAN /\ runs[i].violation \in BOOLEAN
<1>1. runs[i] \in Row
  BY DEF Kept
<1> QED
  BY <1>1 DEF Row

LEMMA NewIssueIsNew ==
    ASSUME Kept
    PROVE  NewIssue \in Nat \ {0}
<1> DEFINE f == [i \in DOMAIN runs |-> runs[i].issue]
           S == {runs[i].issue : i \in DOMAIN runs}
<1>1. DOMAIN runs = 1..Len(runs) /\ Len(runs) \in Nat
  BY DEF Kept
<1>2. IsFiniteSet(DOMAIN runs)
  BY <1>1, FS_Interval
<1>3. f \in Surjection(DOMAIN runs, S)
  BY DEF Surjection
<1>4. IsFiniteSet(S)
  BY <1>2, <1>3, FS_Surjection
<1>5. IsFiniteSet(Issues)
  <2>1. Issues \in SUBSET S
    BY DEF Issues
  <2> QED
    BY <2>1, <1>4, FS_Subset
<1>6. Cardinality(Issues) \in Nat
  BY <1>5, FS_CardinalityType
<1> QED
  BY <1>6 DEF NewIssue

LEMMA KeptByRecorded ==
    ASSUME Kept, NEW dry \in BOOLEAN, NEW violation \in BOOLEAN, NEW report \in Reports \union Quiet,
           dry => report \in Quiet, Recorded(dry, violation, report)
    PROVE  Kept'
<1>1. /\ report.result \in {"SUCCESS_NO_FINDINGS", "OTHER"}
      /\ report.notes \in SUBSET Gems
      /\ report.issue \in Nat
      /\ report.notes # {} => report.issue # 0 /\ ~dry
  <2>1. CASE report \in Reports /\ ~dry
    <3>1. PICK notes \in SUBSET Gems, n \in Issues \union {NewIssue} :
            report = [result |-> "OTHER", notes |-> notes, issue |-> n]
      BY <2>1 DEF Reports
    <3>2. n \in Nat /\ n # 0
      <4>1. Issues \subseteq Nat \ {0}
        BY RowsAreRows DEF Issues
      <4> QED
        BY <4>1, NewIssueIsNew
    <3> QED
      BY <2>1, <3>1, <3>2
  <2>2. CASE report \in Quiet
    BY <2>2 DEF Quiet
  <2> QED
    BY <2>1, <2>2
<1> DEFINE row == [day |-> day, dry |-> dry, violation |-> violation, result |-> report.result,
                   notes |-> report.notes, issue |-> report.issue]
<1>2. /\ runs' = Append(runs, row)
      /\ day' = day /\ grade' = grade
  BY DEF Recorded
<1>3. row \in Row
  BY <1>1 DEF Kept, Row
<1>3a. /\ row.day = day /\ row.dry = dry /\ row.notes = report.notes /\ row.issue = report.issue
  OBVIOUS
<1> HIDE DEF row
<1>4. /\ runs' \in Seq(Row)
      /\ DOMAIN runs' = 1..(Len(runs) + 1)
      /\ Len(runs) \in Nat /\ DOMAIN runs = 1..Len(runs)
      /\ \A i \in DOMAIN runs : runs'[i] = runs[i]
      /\ runs'[Len(runs) + 1] = row
  BY <1>2, <1>3 DEF Kept
<1>5. ASSUME NEW i \in DOMAIN runs'
      PROVE  /\ runs'[i].day \in 1..day
             /\ runs'[i].notes # {} => runs'[i].issue # 0 /\ ~runs'[i].dry
  <2>1. CASE i \in DOMAIN runs
    BY <2>1, <1>4 DEF Kept
  <2>2. CASE i = Len(runs) + 1
    BY <2>2, <1>4, <1>3a, <1>1 DEF Kept
  <2> QED
    BY <2>1, <2>2, <1>4
<1>6. ASSUME NEW i \in DOMAIN runs', NEW k \in DOMAIN runs', i <= k
      PROVE  runs'[i].day <= runs'[k].day
  <2>1. CASE k \in DOMAIN runs
    BY <2>1, <1>6, <1>4 DEF Kept
  <2>2. CASE k = Len(runs) + 1
    BY <2>2, <1>5, <1>4, <1>3a DEF Kept
  <2> QED
    BY <2>1, <2>2, <1>4
<1> QED
  BY <1>2, <1>4, <1>5, <1>6 DEF Kept

LEMMA AlwaysKept == GateSpec => []Kept
<1>1. GateInit => Kept
  BY AcceptanceAssumption DEF GateInit, Kept, AcceptanceAssumption
<1>2. Kept /\ [GateNext]_gateVars => Kept'
  <2> SUFFICES ASSUME Kept, [GateNext]_gateVars PROVE Kept'
    OBVIOUS
  <2>1. CASE RunLive
    BY <2>1, KeptByRecorded DEF RunLive
  <2>2. CASE RunDry
    BY <2>2, KeptByRecorded DEF RunDry
  <2>3. CASE NextDay
    <3>1. day' \in 1..MaxDay /\ 1..day \subseteq 1..day'
      BY <2>3, AcceptanceAssumption DEF NextDay, Kept, AcceptanceAssumption
    <3> QED
      BY <2>3, <3>1 DEF NextDay, Kept
  <2>4. CASE Grade
    BY <2>4 DEF Grade, Kept
  <2>5. CASE UNCHANGED gateVars
    BY <2>5 DEF gateVars, Kept
  <2> QED
    BY <2>1, <2>2, <2>3, <2>4, <2>5 DEF GateNext
<1> QED
  BY <1>1, <1>2, PTL DEF GateSpec

LEMMA TheNewestDay ==
    ASSUME Kept, runs # <<>>
    PROVE  /\ Len(runs) \in Evidence
           /\ NewestDay \in Nat \ {0}
           /\ DaysSeen \subseteq 1..NewestDay
           /\ NewestDay \in DaysSeen
           /\ LastDay = NewestDay
<1>1. Len(runs) \in Nat \ {0} /\ DOMAIN runs = 1..Len(runs)
  BY DEF Kept
<1>2. Len(runs) \in Evidence /\ Evidence \subseteq DOMAIN runs
  BY <1>1, AcceptanceAssumption DEF Evidence, AcceptanceAssumption
<1>3. NewestDay \in Nat \ {0}
  BY <1>1 DEF Kept, NewestDay
<1>4. NewestDay \in DaysSeen
  BY <1>2 DEF DaysSeen, NewestDay
<1>5. DaysSeen \subseteq 1..NewestDay
  BY <1>1, <1>2, <1>3 DEF DaysSeen, NewestDay, Kept
<1>6. LastDay = NewestDay
  <2>1. \A d \in DaysSeen : (\A e \in DaysSeen : e <= d) => d = NewestDay
    BY <1>3, <1>4, <1>5
  <2>2. \A e \in DaysSeen : e <= NewestDay
    BY <1>3, <1>5
  <2> QED
    BY <1>4, <2>1, <2>2 DEF LastDay
<1> QED
  BY <1>2, <1>3, <1>4, <1>5, <1>6

LEMMA WindowIsShort ==
    ASSUME Kept, runs # <<>>
    PROVE  /\ NewestDay \in WindowDays
           /\ WindowDays \subseteq LastDays
           /\ Cardinality(WindowDays) <= Required
           /\ Cardinality(WindowDays) = Required => WindowDays = LastDays
<1>1. Required \in Nat \ {0}
  BY AcceptanceAssumption DEF AcceptanceAssumption
<1>2. WindowDays \in SUBSET LastDays
  BY <1>1, TheNewestDay DEF WindowDays, LastDays, Consecutive
<1>3. IsFiniteSet(LastDays) /\ Cardinality(LastDays) = Required
  <2>1. NewestDay \in Int /\ NewestDay - Required + 1 \in Int
    BY <1>1, TheNewestDay
  <2>2. /\ ~ (NewestDay - Required + 1 > NewestDay)
        /\ NewestDay - (NewestDay - Required + 1) + 1 = Required
    BY <1>1, <2>1
  <2>3. IsFiniteSet(LastDays)
    BY <2>1, FS_Interval DEF LastDays
  <2>4. Cardinality(LastDays) = NewestDay - (NewestDay - Required + 1) + 1
    BY <2>1, <2>2, FS_Interval DEF LastDays
  <2> QED
    BY <2>2, <2>3, <2>4
<1>4. NewestDay \in WindowDays
  <2>1. NewestDay..LastDay = {NewestDay}
    BY TheNewestDay
  <2> QED
    BY <1>1, <2>1, TheNewestDay DEF WindowDays, Consecutive
<1> QED
  BY <1>2, <1>3, <1>4, FS_Subset

(* What stands for a day of the evidence: some run of it, and a dry one only  *)
(* when it had no live one.                                                   *)
LEMMA GroupStands ==
    ASSUME Kept, NEW d \in DaysSeen
    PROVE  /\ Group(d) # {} /\ Group(d) \subseteq On(d)
           /\ LiveOn(d) = {} => \A i \in Group(d) : runs[i].dry
           /\ LiveOn(d) # {} => Group(d) = LiveOn(d)
<1>1. On(d) # {} /\ On(d) \subseteq 1..Len(runs) /\ Len(runs) \in Nat
  BY DEF DaysSeen, On, Evidence, Kept
<1>2. \E i \in On(d) : \A k \in On(d) : k <= i
  <2> DEFINE T == {Len(runs) - i : i \in On(d)}
  <2>1. T \subseteq Nat /\ T # {}
    BY <1>1
  <2>2. PICK x \in T : \A y \in T : x <= y
    BY <2>1, LeastNatural
  <2>3. PICK i \in On(d) : x = Len(runs) - i
    BY <2>2
  <2>4. ASSUME NEW k \in On(d) PROVE k <= i
    <3>1. Len(runs) - k \in T
      OBVIOUS
    <3>2. Len(runs) - i <= Len(runs) - k
      BY <2>2, <2>3, <3>1
    <3>3. i \in Nat /\ k \in Nat /\ Len(runs) \in Nat
      BY <1>1
    <3> QED
      BY <3>2, <3>3
  <2> QED
    BY <2>4
<1>3. Group(d) # {}
  BY <1>1, <1>2 DEF Group
<1> QED
  BY <1>3 DEF Group, LiveOn

(* Days never run backwards, only notifications of known gems are recorded,   *)
(* and a history that is not empty has a window of at most Required days:     *)
(* _daily_evidence_groups leaves no day of the evidence without a row.        *)
THEOREM GateTypeCorrect == GateSpec => []GateTypeOK
<1>1. Kept => GateTypeOK
  <2> SUFFICES ASSUME Kept PROVE GateTypeOK
    OBVIOUS
  <2>1. ASSUME runs # <<>>
        PROVE  Window # {} /\ Cardinality(WindowDays) <= Required
    <3>1. NewestDay \in WindowDays /\ NewestDay \in DaysSeen
      BY <2>1, TheNewestDay, WindowIsShort
    <3>2. Group(NewestDay) # {}
      BY <3>1, GroupStands
    <3>3. Window # {}
      BY <3>1, <3>2 DEF Window
    <3> QED
      BY <3>3, <2>1, WindowIsShort
  <2>2. \A i \in DOMAIN runs : runs[i].notes \subseteq Gems
    BY RowsAreRows
  <2> QED
    BY <2>1, <2>2 DEF Kept, GateTypeOK
<1> QED
  BY <1>1, AlwaysKept, PTL
LEMMA WholeWindow ==
    ASSUME Kept, runs # <<>>, Whole(Window)
    PROVE  /\ WindowDays = LastDays
           /\ \A d \in LastDays : LiveOn(d) # {} /\ Group(d) = LiveOn(d)
<1>1. WindowDays = LastDays
  <2>1. \A d \in WindowDays : /\ \A i \in Group(d) : runs[i].day = d
                              /\ \E i \in Group(d) : TRUE
    BY GroupStands DEF WindowDays, Consecutive, On
  <2>2. {runs[i].day : i \in Window} = WindowDays
    BY <2>1 DEF Window
  <2> QED
    BY <2>2, WindowIsShort DEF Whole
<1>2. ASSUME NEW d \in LastDays
      PROVE  LiveOn(d) # {} /\ Group(d) = LiveOn(d)
  <2>1. d \in DaysSeen
    BY <1>1 DEF WindowDays, Consecutive
  <2>2. Group(d) \subseteq Window
    BY <1>1 DEF Window
  <2>3. \A i \in Group(d) : ~runs[i].dry
    BY <2>2 DEF Whole
  <2> QED
    BY <2>1, <2>3, GroupStands
<1> QED
  BY <1>1, <1>2

(* Enough consecutive days were seen exactly when the whole window was.       *)
LEMMA CyclesAreCounted ==
    ASSUME Kept, runs # <<>>
    PROVE  Cardinality(Consecutive) < Required <=> WindowDays # LastDays
<1>1. /\ Required \in Nat \ {0} /\ NewestDay \in Nat \ {0}
      /\ LastDay = NewestDay /\ DaysSeen \subseteq 1..NewestDay
  BY TheNewestDay, AcceptanceAssumption DEF AcceptanceAssumption
<1>2. IsFiniteSet(Consecutive) /\ Cardinality(Consecutive) \in Nat
  <2>1. IsFiniteSet(1..NewestDay)
    BY <1>1, FS_Interval
  <2>2. Consecutive \in SUBSET (1..NewestDay)
    BY <1>1 DEF Consecutive
  <2> QED
    BY <2>1, <2>2, FS_Subset, FS_CardinalityType
<1>3. ASSUME WindowDays # LastDays
      PROVE  Cardinality(Consecutive) < Required
  <2>1. PICK d \in LastDays : d \notin WindowDays
    BY <1>3, WindowIsShort
  <2>2. d \in Int /\ NewestDay - d < Required /\ d <= NewestDay /\ d > LastDay - Required
    BY <1>1 DEF LastDays
  <2>3. d \notin Consecutive
    BY <2>1, <2>2 DEF WindowDays
  <2>4. ASSUME NEW c \in Consecutive
        PROVE  c \in (d + 1)..NewestDay
    <3>1. c \in 1..NewestDay /\ c..NewestDay \subseteq DaysSeen
      BY <1>1 DEF Consecutive
    <3>2. CASE c <= d
      <4>1. d \in c..NewestDay /\ d..NewestDay \subseteq c..NewestDay
        BY <3>1, <3>2, <2>2, <1>1
      <4> QED
        BY <4>1, <3>1, <2>3, <1>1 DEF Consecutive
    <3> QED
      BY <3>1, <3>2, <2>2, <1>1
  <2>5. Cardinality((d + 1)..NewestDay) < Required /\ IsFiniteSet((d + 1)..NewestDay)
    <3>1. d + 1 \in Int /\ NewestDay \in Int
      BY <2>2, <1>1
    <3>2. Cardinality((d + 1)..NewestDay) = IF d + 1 > NewestDay THEN 0 ELSE NewestDay - (d + 1) + 1
      BY <3>1, FS_Interval
    <3>3. (IF d + 1 > NewestDay THEN 0 ELSE NewestDay - (d + 1) + 1) < Required
      BY <2>2, <1>1
    <3>4. IsFiniteSet((d + 1)..NewestDay)
      BY <3>1, FS_Interval
    <3> QED
      BY <3>2, <3>3, <3>4
  <2>6. Consecutive \in SUBSET ((d + 1)..NewestDay)
    BY <2>4
  <2>7. Cardinality(Consecutive) <= Cardinality((d + 1)..NewestDay) /\ Cardinality((d + 1)..NewestDay) \in Nat
    BY <2>5, <2>6, FS_Subset, FS_CardinalityType
  <2> QED
    BY <2>5, <2>7, <1>1, <1>2
<1>4. ASSUME WindowDays = LastDays
      PROVE  ~ (Cardinality(Consecutive) < Required)
  <2>1. LastDays \in SUBSET Consecutive
    BY <1>4 DEF WindowDays
  <2>2. Cardinality(LastDays) = Required
    <3>1. NewestDay \in Int /\ NewestDay - Required + 1 \in Int
      BY <1>1
    <3>2. /\ ~ (NewestDay - Required + 1 > NewestDay)
          /\ NewestDay - (NewestDay - Required + 1) + 1 = Required
      BY <1>1
    <3>3. Cardinality(LastDays) = NewestDay - (NewestDay - Required + 1) + 1
      BY <3>1, <3>2, FS_Interval DEF LastDays
    <3> QED
      BY <3>2, <3>3
  <2>3. Required <= Cardinality(Consecutive)
    BY <2>1, <2>2, <1>2, FS_Subset
  <2> QED
    BY <2>3, <1>1, <1>2
<1> QED
  BY <1>3, <1>4

(* Runs that share an Issue in their notifications make it a duplicate.       *)
LEMMA SharedIsDuplicate ==
    ASSUME Kept, NEW i \in DOMAIN runs, NEW k \in DOMAIN runs \ {i},
           runs[i].notes # {}, runs[k].notes # {}, runs[k].issue = runs[i].issue
    PROVE  DuplicateIssue(i)
<1> DEFINE S == Notifying(runs[i].issue)
<1>1. i \in S /\ k \in S /\ S \subseteq 1..Len(runs) /\ Len(runs) \in Nat /\ runs[i].issue # 0
  BY DEF Notifying, Kept
<1>2. IsFiniteSet(S) /\ Cardinality(S) \in Nat
  <2>1. S \in SUBSET (1..Len(runs)) /\ IsFiniteSet(1..Len(runs))
    BY <1>1, FS_Interval
  <2> QED
    BY <2>1, FS_Subset, FS_CardinalityType
<1>3. Cardinality(S) # 0
  BY <1>1, <1>2, FS_EmptySet
<1>4. Cardinality(S) # 1
  BY <1>1, <1>2, FS_Singleton
<1> QED
  BY <1>1, <1>2, <1>3, <1>4 DEF DuplicateIssue

LEMMA OnlyPassesAreAccepted ==
    ASSUME Verdict = "ACCEPTED"
    PROVE  /\ runs # <<>>
           /\ \A c \in Criteria(Window) : c # "FAIL" /\ c # "PENDING"
<1> QED
  BY DEF Verdict, VerdictOf

LEMMA WhatIsReadIsAll ==
    ASSUME Kept, runs # <<>>, RowsSuffice, NEW d \in LastDays
    PROVE  AllOn(d) = On(d) /\ AllLiveOn(d) = LiveOn(d)
<1>1. d \in Int /\ d > NewestDay - Required
  BY TheNewestDay, AcceptanceAssumption DEF LastDays, AcceptanceAssumption
<1>2. AllOn(d) = On(d)
  BY <1>1 DEF AllOn, On, RowsSuffice, Evidence
<1> QED
  BY <1>2 DEF AllLiveOn, LiveOn

(* evaluate_acceptance "never invents cycles" (acceptance.py:5-12): for any   *)
(* history of runs, notifications and grades, ACCEPTED means that each of the *)
(* last Required days had one live run and all seven criteria were met by the *)
(* whole history of those days.  The rows read have to reach back over them.  *)
THEOREM NothingUnearnedIsAccepted ==
    GateSpec => [](RowsSuffice => AcceptedIsEarned)
<1>1. Kept => (RowsSuffice => AcceptedIsEarned)
  <2> DEFINE rows == UNION {AllLiveOn(d) : d \in LastDays}
  <2> SUFFICES ASSUME Kept, RowsSuffice, Verdict = "ACCEPTED"
               PROVE  /\ \A d \in LastDays : Cardinality(AllLiveOn(d)) = 1
                      /\ \A i \in rows :
                           /\ ~runs[i].violation
                           /\ \A k \in DOMAIN runs \ {i} :
                                runs[i].notes # {} /\ runs[k].notes # {} => runs[k].issue # runs[i].issue
                           /\ runs[i].issue = 0 => runs[i].result = "SUCCESS_NO_FINDINGS"
                           /\ \A g \in runs[i].notes :
                                grade[g] # "UNGRADED" /\ (g \in Exceptional => grade[g] # "BAD")
                      /\ Notes(rows) # {} /\ RateReached(rows)
    BY DEF AcceptedIsEarned, LastDays
  <2>1. /\ runs # <<>>
        /\ DuplicateLiveDayCriterion(Window) # "FAIL"
        /\ HardSafetyCriterion(Window) # "FAIL"
        /\ SilentDayCriterion(Window) # "FAIL"
        /\ RateCriterion(Window) # "FAIL" /\ RateCriterion(Window) # "PENDING"
        /\ ExceptionalCriterion(Window) # "FAIL"
    BY OnlyPassesAreAccepted DEF Criteria
  <2>2. /\ Graded(Window) # {} /\ Notes(Window) = Graded(Window)
        /\ Whole(Window) /\ RateReached(Window)
    <3> HIDE DEF rows
    <3> QED
      BY <2>1 DEF RateCriterion
  <2>3. /\ WindowDays = LastDays
        /\ \A d \in LastDays : LiveOn(d) # {} /\ Group(d) = LiveOn(d) /\ LiveOn(d) = AllLiveOn(d)
    BY <2>1, <2>2, WholeWindow, WhatIsReadIsAll
  <2>4. rows = Window
    BY <2>3 DEF Window
  <2>5. \A i \in Window : i \in DOMAIN runs /\ runs[i] \in Row
    <3>1. \A d \in LastDays : LiveOn(d) \subseteq DOMAIN runs
      BY DEF LiveOn, On, Evidence
    <3> QED
      BY <3>1, <2>3, RowsAreRows DEF Window
  <2>6. ASSUME NEW d \in LastDays
        PROVE  Cardinality(AllLiveOn(d)) = 1
    <3>1. PICK i \in LiveOn(d) : TRUE
      BY <2>3
    <3>2. LiveOn(d) \subseteq Window
      BY <2>3, <2>4
    <3>3. \A k \in LiveOn(d) : k = i
      <4>1. \A j, k \in Window : ~ (j < k /\ runs[j].day = runs[k].day /\ ~runs[j].dry /\ ~runs[k].dry)
        BY <2>1 DEF DuplicateLiveDayCriterion, FailIf
      <4>2. \A j \in LiveOn(d) : j \in Nat /\ runs[j].day = d /\ ~runs[j].dry
        BY DEF LiveOn, On, Evidence, Kept
      <4> QED
        BY <3>1, <3>2, <4>1, <4>2
    <3>4. LiveOn(d) = {i}
      BY <3>1, <3>3
    <3> QED
      BY <3>4, <2>3, FS_Singleton
  <2>7. ASSUME NEW i \in Window
        PROVE  /\ ~runs[i].violation
               /\ \A k \in DOMAIN runs \ {i} :
                    runs[i].notes # {} /\ runs[k].notes # {} => runs[k].issue # runs[i].issue
               /\ runs[i].issue = 0 => runs[i].result = "SUCCESS_NO_FINDINGS"
               /\ \A g \in runs[i].notes :
                    grade[g] # "UNGRADED" /\ (g \in Exceptional => grade[g] # "BAD")
    <3>1. i \notin Unsafe(Window) /\ i \notin Silenced(Window)
      BY <2>1 DEF HardSafetyCriterion, SilentDayCriterion, FailIf
    <3>2. /\ ~runs[i].violation
          /\ \A k \in DOMAIN runs \ {i} :
               runs[i].notes # {} /\ runs[k].notes # {} => runs[k].issue # runs[i].issue
      BY <3>1, <2>5, SharedIsDuplicate DEF Unsafe
    <3>3. runs[i].issue = 0 => runs[i].result = "SUCCESS_NO_FINDINGS"
      BY <3>1, <2>5 DEF Silenced, Kept
    <3>4. ASSUME NEW g \in runs[i].notes
          PROVE  grade[g] # "UNGRADED" /\ (g \in Exceptional => grade[g] # "BAD")
      <4>1. <<i, g>> \in Notes(Window)
        BY <2>5, RowsAreRows DEF Notes
      <4>2. <<i, g>> \in Graded(Window)
        BY <4>1, <2>2
      <4>3. \A n \in Graded(Window) : ~ (n[2] \in Exceptional /\ grade[n[2]] = "BAD")
        BY <2>1 DEF ExceptionalCriterion, FailIf
      <4> QED
        BY <4>2, <4>3 DEF Graded
    <3> QED
      BY <3>2, <3>3, <3>4
  <2>8. Notes(Window) # {} /\ RateReached(Window)
    BY <2>2
  <2> HIDE DEF rows
  <2> QED
    BY <2>4, <2>6, <2>7, <2>8
<1> QED
  BY <1>1, AlwaysKept, PTL

(* "a single hard-safety violation fails the gate permanently for the         *)
(* evaluated window" (acceptance.py:11): no later run, grade or dry run of    *)
(* the same day makes an unsafe live run of the window acceptable or pending. *)
THEOREM ViolationsAlwaysStick ==
    GateSpec => [](RowsSuffice => ViolationsStick)
<1>1. Kept => (RowsSuffice => ViolationsStick)
  <2> SUFFICES ASSUME Kept, RowsSuffice, NEW i \in DOMAIN runs,
                      runs[i].violation, ~runs[i].dry, NewestDay - runs[i].day < Required,
                      \A d \in runs[i].day..NewestDay : AllOn(d) # {}
               PROVE  Verdict = "NOT_ACCEPTED"
    BY DEF ViolationsStick
  <2>1. /\ runs # <<>> /\ Required \in Nat
        /\ NewestDay \in Nat \ {0} /\ LastDay = NewestDay
        /\ runs[i].day \in Nat /\ runs[i].day <= NewestDay
        /\ runs[i].day > NewestDay - Required
    <3>1. runs # <<>> /\ Len(runs) \in Nat /\ i \in 1..Len(runs) /\ Len(runs) \in DOMAIN runs
      BY DEF Kept
    <3>2. runs[i].day \in Nat /\ runs[i].day <= NewestDay
      BY <3>1 DEF Kept, NewestDay
    <3> QED
      BY <3>1, <3>2, TheNewestDay, AcceptanceAssumption DEF AcceptanceAssumption
  <2>2. runs[i].day..NewestDay \subseteq LastDays
    BY <2>1 DEF LastDays
  <2>3. runs[i].day..NewestDay \subseteq DaysSeen
    <3>1. ASSUME NEW d \in runs[i].day..NewestDay
          PROVE  d \in DaysSeen
      <4>1. AllOn(d) # {} /\ AllOn(d) = On(d)
        BY <2>1, <2>2, WhatIsReadIsAll
      <4> QED
        BY <4>1 DEF On, DaysSeen
    <3> QED
      BY <3>1
  <2>4. runs[i].day \in WindowDays
    BY <2>1, <2>3 DEF WindowDays, Consecutive
  <2>5. i \in LiveOn(runs[i].day)
    BY <2>1 DEF RowsSuffice, LiveOn, On
  <2>6. i \in Unsafe(Window)
    BY <2>4, <2>5 DEF Window, Group, Unsafe
  <2>7. "FAIL" \in Criteria(Window)
    BY <2>6 DEF Criteria, HardSafetyCriterion, FailIf
  <2> QED
    BY <2>1, <2>7 DEF Verdict, VerdictOf
<1> QED
  BY <1>1, AlwaysKept, PTL

(* Without a live run on one of its days the window is not whole.             *)
LEMMA EarlyWindowIsNotWhole ==
    ASSUME Kept, runs # <<>>, NEW d \in LastDays, AllLiveOn(d) = {}
    PROVE  ~Whole(Window)
<1>1. LiveOn(d) = {}
  BY DEF LiveOn, AllLiveOn, AllOn, On, Evidence
<1> QED
  BY <1>1, WholeWindow

(* "Never accept or reject statistical performance before the full frozen     *)
(* seven-live-day window exists" (acceptance.py:339): until then no grade of  *)
(* an ordinary finding moves the verdict, whatever number of rows is read.    *)
THEOREM NoEarlyGradeDecides == GateSpec => EarlyGradesDecideNothing
<1>1. ASSUME Kept, runs' = runs, runs # <<>>,
             \A g \in Exceptional : grade'[g] = grade[g],
             \E d \in (NewestDay - Required + 1)..NewestDay : AllLiveOn(d) = {}
      PROVE  Verdict' = Verdict
  <2>1. ~Whole(Window)
    BY <1>1, EarlyWindowIsNotWhole DEF LastDays
  <2>2. Window' = Window /\ Consecutive' = Consecutive /\ WindowDays' = WindowDays
    BY <1>1 DEF Window, WindowDays, Group, LiveOn, On, Evidence, Consecutive, LastDay, DaysSeen
  <2>3. ~Whole(Window)'
    BY <1>1, <2>1, <2>2 DEF Whole
  <2>4. RateCriterion(Window) = "PENDING"
    BY <2>1 DEF RateCriterion
  <2>5. RateCriterion(Window)' = "PENDING"
    BY <2>3 DEF RateCriterion
  <2>6. /\ CycleCountCriterion' = CycleCountCriterion
        /\ DuplicateLiveDayCriterion(Window)' = DuplicateLiveDayCriterion(Window)
        /\ HardSafetyCriterion(Window)' = HardSafetyCriterion(Window)
        /\ SilentDayCriterion(Window)' = SilentDayCriterion(Window)
        /\ ProductionCriterion(Window)' = ProductionCriterion(Window)
    <3>1. CycleCountCriterion' = CycleCountCriterion
      BY <2>2 DEF CycleCountCriterion
    <3>2. DuplicateLiveDayCriterion(Window)' = DuplicateLiveDayCriterion(Window)
      BY <1>1, <2>2 DEF DuplicateLiveDayCriterion
    <3>3. HardSafetyCriterion(Window)' = HardSafetyCriterion(Window)
      BY <1>1, <2>2 DEF HardSafetyCriterion, Unsafe, DuplicateIssue, Notifying
    <3>4. SilentDayCriterion(Window)' = SilentDayCriterion(Window)
      BY <1>1, <2>2 DEF SilentDayCriterion, Silenced
    <3>5. ProductionCriterion(Window)' = ProductionCriterion(Window)
      BY <1>1, <2>2 DEF ProductionCriterion
    <3> QED
      BY <3>1, <3>2, <3>3, <3>4, <3>5
  <2>7. ExceptionalCriterion(Window)' = ExceptionalCriterion(Window)
    <3>1. Notes(Window)' = Notes(Window)
      BY <1>1, <2>2 DEF Notes
    <3>2. /\ \A n \in Graded(Window) : n \in Notes(Window) /\ grade[n[2]] # "UNGRADED"
          /\ \A n \in Graded(Window)' : n \in Notes(Window) /\ grade'[n[2]] # "UNGRADED"
          /\ \A n \in Notes(Window) : grade[n[2]] # "UNGRADED" => n \in Graded(Window)
          /\ \A n \in Notes(Window) : grade'[n[2]] # "UNGRADED" => n \in Graded(Window)'
      BY <3>1 DEF Graded
    <3>3. (\E n \in Graded(Window)' : n[2] \in Exceptional /\ grade'[n[2]] = "BAD")
            <=> (\E n \in Graded(Window) : n[2] \in Exceptional /\ grade[n[2]] = "BAD")
      BY <3>2, <1>1
    <3> QED
      BY <3>3 DEF ExceptionalCriterion, FailIf
  <2>8. Criteria(Window)' = Criteria(Window)
    BY <2>4, <2>5, <2>6, <2>7 DEF Criteria
  <2>9. runs' # <<>>
    BY <1>1
  <2> QED
    BY <1>1, <2>8, <2>9 DEF Verdict, VerdictOf
<1> QED
  BY <1>1, AlwaysKept, PTL DEF EarlyGradesDecideNothing

(* What is known of the window, before a step and after it.                   *)
Known ==
    /\ LastDay = NewestDay /\ NewestDay \in Nat \ {0} /\ NewestDay \in DaysSeen
    /\ WindowDays \subseteq LastDays
    /\ Cardinality(Consecutive) < Required <=> WindowDays # LastDays
    /\ RowsSuffice => \A d \in LastDays : AllOn(d) = On(d) /\ AllLiveOn(d) = LiveOn(d)

LEMMA WindowIsKnown == Kept /\ runs # <<>> => Known
<1> SUFFICES ASSUME Kept, runs # <<>> PROVE Known
  OBVIOUS
<1>1. RowsSuffice => \A d \in LastDays : AllOn(d) = On(d) /\ AllLiveOn(d) = LiveOn(d)
  BY WhatIsReadIsAll
<1> QED
  BY <1>1, TheNewestDay, WindowIsShort, CyclesAreCounted DEF Known

LEMMA WindowStaysKnown == (Kept /\ runs # <<>> => Known)'
<1> QED
  BY WindowIsKnown, PTL

(* A dry run adds nothing on a day that had a live run already.               *)
LEMMA ADryRunAddsNoRow ==
    ASSUME Kept, Kept', RowsSuffice, RowsSuffice',
           NEW row, row.dry, row.day = day, runs' = Append(runs, row), day' = day,
           AllLiveOn(day) # {}
    PROVE  /\ runs # <<>> /\ runs' # <<>>
           /\ WindowDays' = WindowDays /\ Window' = Window
           /\ CycleCountCriterion' = CycleCountCriterion
           /\ Window \subseteq DOMAIN runs
<1>1. /\ Len(runs) \in Nat \ {0} /\ DOMAIN runs = 1..Len(runs) /\ runs # <<>>
      /\ day \in Nat
      /\ NewestDay = day
  <2>1. PICK i \in DOMAIN runs : runs[i].day = day
    BY DEF AllLiveOn, AllOn
  <2>2. Len(runs) \in Nat \ {0} /\ DOMAIN runs = 1..Len(runs) /\ i <= Len(runs) /\ Len(runs) \in DOMAIN runs
    BY <2>1 DEF Kept
  <2>3. day \in Nat
    BY AcceptanceAssumption DEF Kept, AcceptanceAssumption
  <2>4. runs[Len(runs)].day \in 1..day /\ day <= runs[Len(runs)].day
    BY <2>1, <2>2 DEF Kept
  <2>5. runs[Len(runs)].day = day
    BY <2>3, <2>4
  <2> QED
    BY <2>2, <2>3, <2>5 DEF NewestDay
<1>2. /\ DOMAIN runs' = 1..(Len(runs) + 1) /\ Len(runs') = Len(runs) + 1
      /\ \A i \in DOMAIN runs : runs'[i] = runs[i]
      /\ runs'[Len(runs) + 1] = row
      /\ runs' # <<>>
  <2>1. runs \in Seq(Row \union {row})
    BY DEF Kept
  <2> QED
    BY <2>1, <1>1
<1>3. NewestDay' = day /\ LastDays' = LastDays
  BY <1>1, <1>2 DEF NewestDay, LastDays
<1>4. Known /\ Known'
  BY <1>1, <1>2, WindowIsKnown, WindowStaysKnown
<1>5. ASSUME NEW d
      PROVE  /\ AllLiveOn(d)' = AllLiveOn(d)
             /\ AllOn(d)' = IF d = day THEN AllOn(d) \union {Len(runs) + 1} ELSE AllOn(d)
  <2>1. Len(runs) + 1 \notin DOMAIN runs /\ DOMAIN runs' = DOMAIN runs \union {Len(runs) + 1}
    BY <1>1, <1>2
  <2>2. AllOn(d)' = IF d = day THEN AllOn(d) \union {Len(runs) + 1} ELSE AllOn(d)
    BY <2>1, <1>2 DEF AllOn
  <2>3. AllLiveOn(d)' = AllLiveOn(d)
    BY <2>1, <2>2, <1>2 DEF AllLiveOn, AllOn
  <2> QED
    BY <2>2, <2>3
<1>6. \A d \in LastDays : /\ AllOn(d) = On(d) /\ AllLiveOn(d) = LiveOn(d)
                          /\ AllOn(d)' = On(d)' /\ AllLiveOn(d)' = LiveOn(d)'
  BY <1>3, <1>4 DEF Known
<1>7. \A d \in LastDays : d \in DaysSeen' <=> d \in DaysSeen
  <2>1. \A d : (d \in DaysSeen <=> On(d) # {}) /\ (d \in DaysSeen' <=> On(d)' # {})
    BY DEF DaysSeen, On
  <2>2. AllOn(day) # {}
    BY DEF AllLiveOn
  <2> QED
    BY <2>1, <2>2, <1>5, <1>6
<1>8. WindowDays' = WindowDays
  <2>1. LastDay = day /\ LastDay' = day
    BY <1>1, <1>3, <1>4 DEF Known
  <2>2. ASSUME NEW d \in LastDays
        PROVE  d \in WindowDays' <=> d \in WindowDays
    <3>1. d..day \subseteq LastDays
      BY <1>1, AcceptanceAssumption DEF LastDays, AcceptanceAssumption
    <3>2. d..day \subseteq DaysSeen' <=> d..day \subseteq DaysSeen
      BY <3>1, <1>7
    <3> QED
      BY <3>2, <2>1, <1>7 DEF WindowDays, Consecutive
  <2>3. WindowDays \subseteq LastDays /\ WindowDays' \subseteq LastDays
    BY <1>3, <1>4 DEF Known
  <2> QED
    BY <2>2, <2>3
<1>9. ASSUME NEW d \in LastDays
      PROVE  Group(d)' = Group(d)
  <2>1. CASE AllLiveOn(d) # {}
    BY <2>1, <1>5, <1>6 DEF Group
  <2>2. CASE AllLiveOn(d) = {}
    <3>1. On(d)' = On(d) /\ LiveOn(d) = {} /\ LiveOn(d)' = {}
      BY <2>2, <1>5, <1>6
    <3> QED
      BY <3>1 DEF Group
  <2> QED
    BY <2>1, <2>2
<1>10. Window' = Window
  <2>1. WindowDays \subseteq LastDays
    BY <1>4 DEF Known
  <2> QED
    BY <2>1, <1>8, <1>9 DEF Window
<1>11. CycleCountCriterion' = CycleCountCriterion
  <2>1. (Cardinality(Consecutive) < Required)' <=> Cardinality(Consecutive) < Required
    BY <1>3, <1>4, <1>8 DEF Known
  <2> QED
    BY <2>1 DEF CycleCountCriterion, PendingIf
<1>12. Window \subseteq DOMAIN runs
  BY DEF Window, Group, LiveOn, On, Evidence
<1> QED
  BY <1>1, <1>2, <1>8, <1>10, <1>11, <1>12

(* "the dry-run evidence must never shadow its actual notifications"          *)
(* (acceptance.py:136): a dry run after the live run of its day, which adds a *)
(* row and may push an older one out of the evidence, moves no verdict.       *)
THEOREM DryRunsNeverShadow ==
    GateSpec /\ []RowsSuffice => DryRunsShadowNothing
<1>1. ASSUME Kept, Kept', RowsSuffice, RowsSuffice', [GateNext]_gateVars,
             Len(runs') > Len(runs), runs'[Len(runs')].dry, AllLiveOn(day) # {}
      PROVE  Verdict' = Verdict
  <2>1. PICK row : /\ runs' = Append(runs, row) /\ row.day = day /\ row.notes = {}
                   /\ day' = day /\ grade' = grade
    <3>1. CASE runs' = runs
      <4>1. Len(runs) \in Nat
        BY <1>1 DEF Kept
      <4> QED
        BY <4>1, <3>1, <1>1
    <3>2. CASE RunLive
      <4>1. PICK violation \in BOOLEAN, report \in Reports \union Quiet : Recorded(FALSE, violation, report)
        BY <3>2 DEF RunLive
      <4> DEFINE row == [day |-> day, dry |-> FALSE, violation |-> violation, result |-> report.result,
                         notes |-> report.notes, issue |-> report.issue]
      <4>2. runs' = Append(runs, row)
        BY <4>1 DEF Recorded
      <4>3. ~row.dry
        OBVIOUS
      <4> HIDE DEF row
      <4>4. runs \in Seq(Row \union {row})
        BY <1>1 DEF Kept
      <4>5. runs'[Len(runs')] = row
        BY <4>2, <4>4
      <4> QED
        BY <4>3, <4>5, <1>1
    <3>3. CASE RunDry
      <4>1. PICK violation \in BOOLEAN, report \in Quiet : Recorded(TRUE, violation, report)
        BY <3>3 DEF RunDry
      <4> DEFINE row == [day |-> day, dry |-> TRUE, violation |-> violation, result |-> report.result,
                         notes |-> report.notes, issue |-> report.issue]
      <4>2. runs' = Append(runs, row) /\ day' = day /\ grade' = grade
        BY <4>1 DEF Recorded
      <4>3. row.day = day /\ row.notes = {}
        BY DEF Quiet
      <4> QED
        BY <4>2, <4>3
    <3> QED
      BY <1>1, <3>1, <3>2, <3>3 DEF GateNext, NextDay, Grade, gateVars
  <2>2. runs \in Seq(Row \union {row}) /\ Len(runs) \in Nat /\ DOMAIN runs = 1..Len(runs)
    BY <1>1 DEF Kept
  <2>3. /\ DOMAIN runs' = DOMAIN runs \union {Len(runs) + 1}
        /\ \A i \in DOMAIN runs : runs'[i] = runs[i]
        /\ runs'[Len(runs) + 1] = row /\ runs'[Len(runs')] = row
    BY <2>1, <2>2
  <2>4. /\ runs # <<>> /\ runs' # <<>> /\ Window' = Window
        /\ CycleCountCriterion' = CycleCountCriterion /\ Window \subseteq DOMAIN runs
    BY <1>1, <2>1, <2>3, ADryRunAddsNoRow
  <2>5. \A i \in Window : runs'[i] = runs[i]
    BY <2>3, <2>4
  <2>6. DuplicateLiveDayCriterion(Window)' = DuplicateLiveDayCriterion(Window)
    BY <2>4, <2>5 DEF DuplicateLiveDayCriterion
  <2>7. HardSafetyCriterion(Window)' = HardSafetyCriterion(Window)
    <3>1. \A i \in Window : DuplicateIssue(i)' <=> DuplicateIssue(i)
      <4>1. \A n : Notifying(n)' = Notifying(n)
        BY <2>1, <2>3 DEF Notifying
      <4> QED
        BY <2>4, <2>5, <4>1 DEF DuplicateIssue
    <3>2. Unsafe(Window)' = Unsafe(Window)
      BY <3>1, <2>4, <2>5 DEF Unsafe
    <3> QED
      BY <3>2 DEF HardSafetyCriterion
  <2>8. SilentDayCriterion(Window)' = SilentDayCriterion(Window)
    BY <2>4, <2>5 DEF SilentDayCriterion, Silenced
  <2>9. ProductionCriterion(Window)' = ProductionCriterion(Window)
    BY <2>4, <2>5 DEF ProductionCriterion
  <2>10. /\ Notes(Window)' = Notes(Window) /\ Graded(Window)' = Graded(Window)
         /\ Useful(Window)' = Useful(Window)
    <3>1. Notes(Window)' = Notes(Window)
      BY <2>4, <2>5 DEF Notes
    <3> QED
      BY <3>1, <2>1 DEF Graded, Useful
  <2>11. ExceptionalCriterion(Window)' = ExceptionalCriterion(Window)
    BY <2>1, <2>10 DEF ExceptionalCriterion
  <2>12. RateCriterion(Window)' = RateCriterion(Window)
    <3>1. WindowDays' = WindowDays
      BY <1>1, <2>1, <2>3, ADryRunAddsNoRow
    <3>2. Whole(Window)' <=> Whole(Window)
      BY <3>1, <2>4, <2>5 DEF Whole
    <3>3. RateReached(Window)' <=> RateReached(Window)
      BY <2>10 DEF RateReached
    <3> QED
      BY <2>10, <3>2, <3>3 DEF RateCriterion
  <2>13. Criteria(Window)' = Criteria(Window)
    BY <2>4, <2>6, <2>7, <2>8, <2>9, <2>11, <2>12 DEF Criteria
  <2> QED
    BY <2>4, <2>13 DEF Verdict, VerdictOf
<1> QED
  BY <1>1, AlwaysKept, PTL DEF DryRunsShadowNothing, GateSpec
=====================
