-------------------------- MODULE NotificationRules --------------------------
(***************************************************************************)
(* reporting/selector.py: which scored repositories are worth telling the  *)
(* user about, given what the history says they were told before, and      *)
(* which of those fit into one report.                                     *)
(*                                                                         *)
(* An observation is what a run knows of a repository after scoring it; a  *)
(* row is one line of the `notifications` table.                           *)
(***************************************************************************)
EXTENDS Integers, Sequences, FiniteSets, SequencesExt

CONSTANTS Gems,                    \* the repositories, by github_repo_id
          NotificationThreshold,   \* scoring.notification_threshold
          ExceptionThreshold,      \* scoring.exception_star_threshold
          ScoreDelta,              \* scoring.renotification_score_delta
          NormalMax, AbsoluteMax,  \* reporting.normal_max, absolute_max
          ExtraMinScore            \* reporting.extra_positions_min_score

ASSUME RulesAssumption ==
    /\ Gems \subseteq Nat /\ IsFiniteSet(Gems)
    /\ NotificationThreshold \in Nat
    /\ ExceptionThreshold \in Nat
    /\ ScoreDelta \in Nat \ {0}
    /\ NormalMax \in Nat \ {0}
    /\ AbsoluteMax \in Nat
    /\ NormalMax <= AbsoluteMax
    /\ ExtraMinScore \in Nat

None == [kind |-> "NONE"]

FirstDiscovery(g)         == [kind |-> "FIRST_DISCOVERY", gem |-> g]
ScoreIncrease(g, last, s) == [kind |-> "SCORE_INCREASE", gem |-> g, last |-> last, score |-> s]
NewRelease(g, release)    == [kind |-> "NEW_RELEASE", gem |-> g, release |-> release]
MajorChange(g, content)   == [kind |-> "MAJOR_CHANGE", gem |-> g, content |-> content]

(* required_notification_threshold: which score the star band asks for; above *)
(* the exception range no score is enough.                                    *)
Qualifies(obs) ==
    /\ obs.stars \in {"primary", "exception"}
    /\ obs.confidence # "LOW"
    /\ obs.score >= NotificationThreshold
    /\ obs.stars = "exception" => obs.score >= ExceptionThreshold

(* notification_state: the rows of one repository.  A row's index is its      *)
(* notification_id, and runs notify in the order they started.                *)
RowsOfNone(notes, g) == {}    \* mutant
RowsOf(notes, g) == {i \in DOMAIN notes : notes[i].gem = g}
Latest(notes, g) == CHOOSE i \in RowsOf(notes, g) : \A k \in RowsOf(notes, g) : k <= i

AlreadyNotifiedNever(notes, g, trigger) == FALSE    \* mutant
AlreadyNotified(notes, g, trigger) == \E i \in RowsOf(notes, g) : notes[i].trigger = trigger

(* make_notification_decision: the trigger, or None for no notification. *)
Decide(notes, g, obs) ==
    IF ~Qualifies(obs) THEN None
    ELSE IF RowsOf(notes, g) = {} THEN FirstDiscovery(g)
    ELSE LET last    == Latest(notes, g)
             release == NewRelease(g, obs.release)
             content == MajorChange(g, obs.content)
         IN IF obs.score - notes[last].score >= ScoreDelta THEN ScoreIncrease(g, last, obs.score)
            ELSE IF obs.release # 0 /\ ~AlreadyNotified(notes, g, release) THEN release
            ELSE IF ~AlreadyNotified(notes, g, content) THEN content ELSE None

(* ordering_key: score, confidence, the points for novelty, visibility and    *)
(* activity, and the repository id; tuples compare lexicographically.         *)
Rank(f) == IF f.confidence = "HIGH" THEN 0 ELSE IF f.confidence = "MEDIUM" THEN 1 ELSE 2
Key(f)  == <<-f.score, Rank(f), -f.parts.novelty, -f.parts.visibility, -f.parts.activity, f.gem>>

Before(f, g) ==
    \E i \in 1..6 : Key(f)[i] < Key(g)[i] /\ \A k \in 1..(i - 1) : Key(f)[k] = Key(g)[k]

Ahead(findings, f) == {g \in findings : Before(g, f)}
Top(findings, n)   == {f \in findings : Cardinality(Ahead(findings, f)) < n}

(* select_report_candidates: the 5/10 rule. *)
Exceptional(findings) == {f \in findings : f.score >= ExtraMinScore}
SelectedFlat(findings) == Top(findings, AbsoluteMax)    \* mutant
Selected(findings) ==
    Top(Top(findings \ Exceptional(findings), NormalMax) \union Exceptional(findings), AbsoluteMax)

InOrder(findings) ==
    [i \in 1..Cardinality(findings) |->
      CHOOSE f \in findings : Cardinality(Ahead(findings, f)) = i - 1]
==============================================================================
