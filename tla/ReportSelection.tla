--------------------------- MODULE ReportSelection ---------------------------
(***************************************************************************)
(* What a report is promised to be, whatever computes it: reporting/       *)
(* selector.py may "Apply the 5/10 rule; never pad, never exceed the       *)
(* absolute maximum" (selector.py:126).  Of the rules only the order of    *)
(* the findings and the limits are taken from NotificationRules.           *)
(***************************************************************************)
EXTENDS NotificationRules

VARIABLES findings,   \* the findings so far
          chosen      \* the report of them

Normals(s) == {i \in DOMAIN s : s[i].score < ExtraMinScore}

(* Never exceed: neither the absolute limit nor, with the findings that are   *)
(* not exceptional, the normal one.                                           *)
WithinLimits == Len(chosen) <= AbsoluteMax /\ Cardinality(Normals(chosen)) <= NormalMax

NeverPadded == ToSet(chosen) \subseteq findings

BestFirst == \A i, k \in DOMAIN chosen : i < k => Before(chosen[i], chosen[k])

(* Whoever is left out stands behind every entry of a full report or, when    *)
(* not exceptional, behind every such entry of one with its normal places     *)
(* taken.  By whom they are taken is where the code and README.md:66-67 part, *)
(* see ExtraPositionsAreExceptional.                                          *)
NoneForgotten ==
    \A f \in findings \ ToSet(chosen) :
        \/ Len(chosen) = AbsoluteMax /\ Before(chosen[AbsoluteMax], f)
        \/ /\ f.score < ExtraMinScore
           /\ Len(chosen) >= NormalMax
           /\ \A i \in Normals(chosen) : Before(chosen[i], f)

Promised == WithinLimits /\ NeverPadded /\ BestFirst /\ NoneForgotten

Init == findings = {} /\ chosen = <<>>

(* Another gem turns out to be worth a notification; the report follows.      *)
Collect(g) ==
    /\ \A f \in findings : f.gem # g
    /\ \E f \in findings' \ findings :
         /\ f.gem = g /\ f.score >= NotificationThreshold /\ f.confidence # "LOW"
         /\ findings' = findings \union {f}
    /\ Promised'

Next == \E g \in Gems : Collect(g)

Spec == Init /\ [][Next]_<<findings, chosen>>

-----------------------------------------------------------------------------
(* "positions 6-10 only when the score is at least 85" (README.md:66-67): the *)
(* places after the first NormalMax are for exceptional findings.             *)
ExtraPositionsAreExceptional ==
    \A i \in DOMAIN chosen : i > NormalMax => chosen[i].score >= ExtraMinScore
==============================================================================
