---------------------------- MODULE AcceptanceGate ----------------------------
(***************************************************************************)
(* validation/acceptance.py: the gate that decides from the recorded runs, *)
(* their notifications and the grades a human gave them, whether V1 is     *)
(* accepted.  It only reads; what changes is the history it reads, with    *)
(* every run, and the file of grades.                                      *)
(*                                                                         *)
(* A run: day, dry, violation (an error that names an integrity failure, a *)
(* state conflict or a secret, or a budget overrun), result, notes (the    *)
(* gems it notified), issue (its number, or 0).  The gate tells one result *)
(* from the others, which are "OTHER": SUCCESS, PARTIAL_SUCCESS, the one   *)
(* of a rate limit and none at all.  A run's index is its run_id and the   *)
(* order it started in.                                                    *)
(***************************************************************************)
EXTENDS Integers, Sequences, FiniteSets

CONSTANTS Gems,
          Exceptional,    \* those notified with exceptional_threshold points or more
          Required,       \* required_cycles
          RateFloor,      \* useful_discovery_rate_floor, in percent
          RowLimit,       \* recent_runs(limit=...)
          MaxDay, MaxRuns \* bounds of the model

ASSUME AcceptanceAssumption ==
    /\ Exceptional \subseteq Gems
    /\ Required \in Nat \ {0}
    /\ RateFloor \in 0..100
    /\ RowLimit \in Nat \ {0}
    /\ MaxDay \in Nat \ {0} /\ MaxRuns \in Nat

VARIABLES day,     \* the UTC date
          runs,    \* the runs table, oldest first
          grade    \* the gradings file: gem -> GOOD (or MAYBE, which counts alike), BAD or UNGRADED

gateVars == <<day, runs, grade>>

GateInit == day = 1 /\ runs = <<>> /\ grade = [g \in Gems |-> "UNGRADED"]

(* Findings are notified with the Issue that reports them; an adopted Issue   *)
(* is one that an earlier run already had.  A run that broke off behind its    *)
(* Issue (PARTIAL_SUCCESS) may have saved none of the notifications or some.  *)
Issues   == {runs[i].issue : i \in DOMAIN runs} \ {0}
NewIssue == Cardinality(Issues) + 1

Reports ==
    {[result |-> "OTHER", notes |-> notes, issue |-> n] :
       notes \in SUBSET Gems, n \in Issues \union {NewIssue}}
Quiet == {[result |-> r, notes |-> {}, issue |-> 0] : r \in {"SUCCESS_NO_FINDINGS", "OTHER"}}

Recorded(dry, violation, report) ==
    /\ Len(runs) < MaxRuns
    /\ runs' = Append(runs, [day |-> day, dry |-> dry, violation |-> violation, result |-> report.result,
                             notes |-> report.notes, issue |-> report.issue])
    /\ UNCHANGED <<day, grade>>

RunLive == \E violation \in BOOLEAN, report \in Reports \union Quiet : Recorded(FALSE, violation, report)

(* A dry run finds, but publishes and notifies nothing.                       *)
RunDry ==
    \E violation \in BOOLEAN, report \in Quiet : Recorded(TRUE, violation, report)

NextDay == day < MaxDay /\ day' = day + 1 /\ UNCHANGED <<runs, grade>>

(* What was notified is graded, in any order, and graded again.               *)
Grade ==
    /\ \E g \in UNION {runs[i].notes : i \in DOMAIN runs} : \E x \in {"GOOD", "BAD"} \ {grade[g]} :
         grade' = [grade EXCEPT ![g] = x]
    /\ UNCHANGED <<day, runs>>

GateNext == RunLive \/ RunDry \/ NextDay \/ Grade

GateSpec == GateInit /\ [][GateNext]_gateVars

-----------------------------------------------------------------------------
(* cycles_from_history: the newest runs are the evidence.                     *)
Evidence == {i \in DOMAIN runs : i > Len(runs) - RowLimit}

On(d)     == {i \in Evidence : runs[i].day = d}
LiveOn(d) == {i \in On(d) : ~runs[i].dry}
DaysSeen  == {runs[i].day : i \in Evidence}
LastDay   == LET seen == DaysSeen IN CHOOSE d \in seen : \A e \in seen : e <= d

(* _daily_evidence_groups: all the live runs of a day, or its last dry run.   *)
GroupAny(d) == {i \in On(d) : \A k \in On(d) : k <= i}    \* mutant
Group(d) ==
    IF LiveOn(d) # {} THEN LiveOn(d) ELSE {i \in On(d) : \A k \in On(d) : k <= i}

(* _consecutive_daily_groups and _window                                      *)
Consecutive == LET seen == DaysSeen  last == LastDay IN {d \in seen : d..last \subseteq seen}

WindowDays == LET last == LastDay IN {d \in Consecutive : d > last - Required}
Window     == UNION {Group(d) : d \in WindowDays}

(* An Issue is a duplicate when notifications of several runs carry it.  They *)
(* are read without regard to the limit on the runs.                          *)
Notifying(n) == {i \in DOMAIN runs : runs[i].notes # {} /\ runs[i].issue = n}
DuplicateIssue(i) == runs[i].issue # 0 /\ Cardinality(Notifying(runs[i].issue)) > 1

Unsafe(rows) == {i \in rows : runs[i].violation \/ DuplicateIssue(i)}
Silenced(rows) == {i \in rows : runs[i].issue = 0 /\ runs[i].notes = {} /\ runs[i].result # "SUCCESS_NO_FINDINGS"}

(* One grade per repository, whichever run notified it.                       *)
Notes(rows)   == {n \in rows \X Gems : n[2] \in runs[n[1]].notes}
Graded(rows)  == {n \in Notes(rows) : grade[n[2]] # "UNGRADED"}
Useful(rows)  == {n \in Notes(rows) : grade[n[2]] = "GOOD"}

RateReached(rows) == 100 * Cardinality(Useful(rows)) >= RateFloor * Cardinality(Graded(rows))

WholeAlways(rows) == TRUE    \* mutant
Whole(rows) ==
    /\ Cardinality({runs[i].day : i \in rows}) = Required
    /\ \A i \in rows : ~runs[i].dry
    /\ Cardinality(rows) = Required

RateCriterionSoFar(rows) ==    \* mutant: what is not graded yet is left out
    IF Graded(rows) = {} \/ ~Whole(rows) THEN "PENDING"
    ELSE IF RateReached(rows) THEN "PASS" ELSE "FAIL"
RateCriterion(rows) ==
    IF Graded(rows) = {} \/ Notes(rows) # Graded(rows) \/ ~Whole(rows) THEN "PENDING"
    ELSE IF RateReached(rows) THEN "PASS" ELSE "FAIL"

FailIf(condition) == IF condition THEN "FAIL" ELSE "PASS"
PendingIf(condition) == IF condition THEN "PENDING" ELSE "PASS"

CycleCountCriterion == PendingIf(Cardinality(Consecutive) < Required)

DuplicateLiveDayCriterion(rows) ==
    FailIf(\E i, k \in rows : i < k /\ runs[i].day = runs[k].day /\ ~runs[i].dry /\ ~runs[k].dry)

HardSafetyCriterion(rows) == FailIf(Unsafe(rows) # {})
SilentDayCriterion(rows)  == FailIf(Silenced(rows) # {})

ExceptionalCriterion(rows) ==
    FailIf(\E n \in Graded(rows) : n[2] \in Exceptional /\ grade[n[2]] = "BAD")

ProductionCriterion(rows) == PendingIf(\E i \in rows : runs[i].dry)

Criteria(rows) ==
    {CycleCountCriterion, DuplicateLiveDayCriterion(rows), HardSafetyCriterion(rows),
     SilentDayCriterion(rows), RateCriterion(rows), ExceptionalCriterion(rows), ProductionCriterion(rows)}

(* evaluate_acceptance                                                        *)
VerdictLenient(criteria) ==    \* mutant
    IF "PENDING" \in criteria THEN "PENDING"
    ELSE IF "FAIL" \in criteria THEN "NOT_ACCEPTED" ELSE "ACCEPTED"
VerdictOf(criteria) ==
    IF "FAIL" \in criteria THEN "NOT_ACCEPTED"
    ELSE IF "PENDING" \in criteria THEN "PENDING" ELSE "ACCEPTED"
Verdict == IF runs = <<>> THEN "PENDING" ELSE LET rows == Window IN VerdictOf(Criteria(rows))

-----------------------------------------------------------------------------
GateTypeOK ==
    /\ day \in 1..MaxDay
    /\ \A i \in DOMAIN runs :
         /\ runs[i].day \in 1..day
         /\ runs[i].notes \subseteq Gems
         /\ runs[i].notes # {} => runs[i].issue # 0 /\ ~runs[i].dry
    /\ grade \in [Gems -> {"UNGRADED", "GOOD", "BAD"}]
    /\ runs # <<>> => Window # {} /\ Cardinality(WindowDays) <= Required

(* What the history says, without a limit of rows or a window of groups.      *)
AllOn(d) == {i \in DOMAIN runs : runs[i].day = d}
AllLiveOn(d) == {i \in AllOn(d) : ~runs[i].dry}
NewestDay == runs[Len(runs)].day

(* "it never invents cycles" and "a single hard-safety violation ... fails    *)
(* the gate" (acceptance.py:5-12): V1 is accepted only when each of the last  *)
(* Required days had exactly one live run, none of them unsafe, none without  *)
(* an Issue but the one that found nothing, no notifications of another run   *)
(* under its Issue, every gem they are recorded to have notified graded, and  *)
(* enough of them useful, no exceptional one BAD.                             *)
AcceptedIsEarned ==
    Verdict = "ACCEPTED" =>
      LET lastDays == (NewestDay - Required + 1)..NewestDay
          rows     == UNION {AllLiveOn(d) : d \in lastDays}
      IN /\ \A d \in lastDays : Cardinality(AllLiveOn(d)) = 1
         /\ \A i \in rows :
              /\ ~runs[i].violation
              /\ \A k \in DOMAIN runs \ {i} :
                   runs[i].notes # {} /\ runs[k].notes # {} => runs[k].issue # runs[i].issue
              /\ runs[i].issue = 0 => runs[i].result = "SUCCESS_NO_FINDINGS"
              /\ \A g \in runs[i].notes :
                   grade[g] # "UNGRADED" /\ (g \in Exceptional => grade[g] # "BAD")
         /\ Notes(rows) # {} /\ RateReached(rows)

(* "human grading of every notified repository" is "required before           *)
(* `V1_ACCEPTED` can appear" (acceptance.py:515-517): at the least, a run of  *)
(* an accepted window that published a report had one of its repositories     *)
(* graded.                                                                    *)
EveryReportIsGraded ==
    Verdict = "ACCEPTED" =>
      \A d \in (NewestDay - Required + 1)..NewestDay : \A i \in AllLiveOn(d) :
        runs[i].issue # 0 => \E g \in runs[i].notes : grade[g] # "UNGRADED"

(* "fails the gate permanently for the evaluated window" (acceptance.py:11):  *)
(* an unsafe live run is a NOT_ACCEPTED for as long as the days since then    *)
(* are consecutive and fewer than Required, whatever was not graded yet and   *)
(* whatever other runs there were on its day.                                 *)
ViolationsStick ==
    \A i \in DOMAIN runs :
      /\ runs[i].violation /\ ~runs[i].dry
      /\ NewestDay - runs[i].day < Required
      /\ \A d \in runs[i].day..NewestDay : AllOn(d) # {}
      => Verdict = "NOT_ACCEPTED"

(* "the dry-run evidence must never shadow its actual notifications"          *)
(* (acceptance.py:136): a dry run on a day with a live one changes nothing.   *)
DryRunsShadowNothing ==
    [][ /\ Len(runs') > Len(runs) /\ runs'[Len(runs')].dry
        /\ AllLiveOn(day) # {}
        => Verdict' = Verdict ]_gateVars

(* "Never accept or reject statistical performance before the full frozen     *)
(* seven-live-day window exists" (acceptance.py:339): until the last Required *)
(* days all had their live run, only the grade of an exceptional finding can  *)
(* change the verdict.                                                        *)
EarlyGradesDecideNothing ==
    [][ /\ runs' = runs /\ runs # <<>>
        /\ \A g \in Exceptional : grade'[g] = grade[g]
        /\ \E d \in (NewestDay - Required + 1)..NewestDay : AllLiveOn(d) = {}
        => Verdict' = Verdict ]_gateVars
==============================================================================
