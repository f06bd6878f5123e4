--------------------------- MODULE AnnouncementLog ---------------------------
(***************************************************************************)
(* What the user is promised: a log of reports, each with at least one     *)
(* announcement, in which nothing that is remembered as announced is       *)
(* announced again, and what is remembered was announced and is never      *)
(* forgotten.  An announcement is the reason a repository is reported for  *)
(* (its trigger fingerprint).                                              *)
(***************************************************************************)
EXTENDS Sequences, Naturals

VARIABLES log, remembered

Announcements(reports) == UNION {reports[i] : i \in DOMAIN reports}

Init == log = <<>> /\ remembered = {}

(* A creation that is retried may report the same twice in one go. *)
Report ==
    /\ Len(log') > Len(log)
    /\ SubSeq(log', 1, Len(log)) = log
    /\ \A i \in Len(log) + 1 .. Len(log') : log'[i] # {} /\ log'[i] \intersect remembered = {}
    /\ UNCHANGED remembered

Remember ==
    /\ remembered \subseteq remembered'
    /\ remembered' \subseteq Announcements(log)
    /\ UNCHANGED log

Next == Report \/ Remember

Spec == Init /\ [][Next]_<<log, remembered>>
==============================================================================
