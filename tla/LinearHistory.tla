---------------------------- MODULE LinearHistory ----------------------------
(***************************************************************************)
(* What the `state` branch promises its writers (docstring of              *)
(* history/state_branch.py): one linear history of snapshots in which no   *)
(* writer overwrites another.  A snapshot is abstracted to the set of runs *)
(* its database records; each new one carries everything the last held.    *)
(***************************************************************************)
EXTENDS Sequences, Naturals

CONSTANT Records

VARIABLE log      \* the sequence of published snapshots

Newest == IF log = <<>> THEN {} ELSE log[Len(log)]

Init == log \in {<<>>} \union {<<s>> : s \in SUBSET Records}

(* Publishing appends a snapshot that records at least what the newest does. *)
Publish(s) ==
    /\ Newest \subseteq s
    /\ log' = Append(log, s)

Next == \E s \in SUBSET Records : Publish(s)

Spec == Init /\ [][Next]_log
=============================================================================
