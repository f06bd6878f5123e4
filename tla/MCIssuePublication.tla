-------------------------- MODULE MCIssuePublication --------------------------
EXTENDS IssuePublication

Obs(score, release, content) ==
    [score |-> score, stars |-> "primary", confidence |-> "HIGH", release |-> release, content |-> content,
     parts |-> [novelty |-> 1, visibility |-> 1, activity |-> release]]

(* Without a release; with one; and a score increase. *)
MCFew == {Obs(2, 0, 1), Obs(2, 1, 1), Obs(4, 0, 1)}

(* Every band and confidence, and every pair of versions, for one repository. *)
MCMany == {Obs(s, r, c) : s \in {2, 4}, r \in {0, 1}, c \in {1, 2}}
            \union {Obs(1, 0, 1), Obs(2, 2, 1)}
            \union {[Obs(s, 1, 1) EXCEPT !.stars = "exception"] : s \in {2, 3}}
            \union {[Obs(4, 0, 1) EXCEPT !.stars = "popular"], [Obs(4, 0, 1) EXCEPT !.confidence = "LOW"]}
===============================================================================
