--------------------------- MODULE LiveStateGuard ---------------------------
(***************************************************************************)
(* history/live_state_guard.py inside the daily workflow: a job checks the *)
(* `state` branch out, verifies it, runs the pipeline on a copy of its     *)
(* database, stages the result over the checkout behind a restorable       *)
(* backup, verifies again and pushes without force.                        *)
(*                                                                         *)
(* A SHA-256 is modelled as the value it digests, a run id as the number   *)
(* of its start in time order, a commit as the sequence of trees below it. *)
(***************************************************************************)
EXTENDS Naturals, Sequences, FiniteSets, Functions, SequencesExt

CONSTANTS Jobs,             \* jobs the platform lets run at once (production: one)
          MaxRuns,          \* bound: runs ever started
          MaxBackups,       \* stage_live(max_backups = ...)
          Carriers,         \* jobs whose app directory starts from the manifest too (production: all)
          StartsEmpty       \* the branch starts as an empty commit

ASSUME GuardAssumption ==
    /\ MaxRuns \in Nat \ {0}
    /\ MaxBackups \in 1..10
    /\ Carriers \subseteq Jobs
    /\ StartsEmpty \in BOOLEAN

VARIABLES remote,   \* the `state` branch of the origin: the chain of its trees
          started,  \* the run ids handed out so far
          pc,       \* where each job is
          base,     \* the commit it checked out
          dir,      \* its checkout of the state branch
          app,      \* its app/state directory: database and manifest
          tainted   \* something outside the program damaged or edited its files

vars == <<remote, started, pc, base, dir, app, tainted>>

RunIds == 1..MaxRuns

(* UNCONFIRMED is REPORT_PUBLISHED without issue_number or issue_url. *)
ReportStates == {"NONE", "PENDING_REPORT", "REPORT_PUBLISHED", "UNCONFIRMED"}
Row(report)  == [report |-> report, rest |-> "recorded", dry |-> FALSE]
Note(r)      == [run |-> r, rest |-> "recorded"]

(* A table with a row more, or another row in its place.                      *)
Put(table, id, row) == [k \in DOMAIN table \union {id} |-> IF k = id THEN row ELSE table[k]]

NoDatabase == [sound |-> FALSE, runs |-> <<>>, notes |-> <<>>]
LastRun(db) == CHOOSE r \in DOMAIN db.runs : \A q \in DOMAIN db.runs : q <= r

ManifestOf(db, backups) == [sha |-> db, last |-> LastRun(db), backups |-> backups]
NoManifest == [sha |-> NoDatabase, last |-> 0, backups |-> <<>>]

FirstDatabase == [sound |-> TRUE, runs |-> Put(<<>>, 1, Row("PENDING_REPORT")), notes |-> Put(<<>>, 1, Note(1))]
EmptyTree     == [db |-> NoDatabase, manifest |-> NoManifest, archives |-> <<>>]
FirstTree ==
    IF StartsEmpty THEN EmptyTree
    ELSE [db |-> FirstDatabase, manifest |-> ManifestOf(FirstDatabase, <<>>), archives |-> <<>>]

Init ==
    /\ remote = <<FirstTree>>
    /\ started = 1
    /\ pc = [j \in Jobs |-> "idle"]
    /\ base = [j \in Jobs |-> <<>>]
    /\ dir = [j \in Jobs |-> EmptyTree]
    /\ app = [j \in Jobs |-> EmptyTree]
    /\ tainted = [j \in Jobs |-> FALSE]

-----------------------------------------------------------------------------
(* `_database_last_run` answers: the file is sound and records some run. *)
Readable(db) == db.sound /\ db.runs # <<>>

(* `restore_backup`: what the archive unpacks to has the digest in its name. *)
Restores(tree, name) ==
    /\ name \in DOMAIN tree.archives
    /\ tree.archives[name] = name.sha
    /\ Readable(name.sha)

(* `verify_state` raises nothing. *)
Verified(tree, requireLive) ==
    /\ Readable(tree.db)
    /\ tree.manifest.sha = tree.db
    /\ tree.manifest.last = LastRun(tree.db)
    /\ requireLive => ~tree.db.runs[LastRun(tree.db)].dry
    /\ \A i \in DOMAIN tree.manifest.backups : Restores(tree, tree.manifest.backups[i])

RowKeptExactly(old, new) == new = old    \* mutant

(* A historical row may only see its pending report confirmed. *)
RowKept(old, new) ==
    \/ new = old
    \/ /\ old.report = "PENDING_REPORT"
       /\ new = [old EXCEPT !.report = "REPORT_PUBLISHED"]

(* Mutant: only the runs are compared. *)
ContinuousRuns(old, new, r) ==
    /\ DOMAIN new.runs \ DOMAIN old.runs = {r}
    /\ \A q \in DOMAIN old.runs : q \in DOMAIN new.runs /\ RowKept(old.runs[q], new.runs[q])

(* `_verify_history_continuity` raises nothing.  The tables and their columns *)
(* are fixed, so its comparison of the columns is left out.                   *)
Continuous(old, new, r) ==
    /\ DOMAIN old.runs \subseteq DOMAIN new.runs
    /\ DOMAIN old.notes \subseteq DOMAIN new.notes
    /\ DOMAIN new.runs \ DOMAIN old.runs = {r}
    /\ \A q \in DOMAIN old.runs : RowKept(old.runs[q], new.runs[q])
    /\ \A n \in DOMAIN old.notes : new.notes[n] = old.notes[n]
    /\ \A n \in DOMAIN new.notes \ DOMAIN old.notes : new.notes[n].run \in DOMAIN new.runs

(* The state of the commit a job checked out, before it staged anything. *)
Old(j) == Last(base[j])

(* The archive is named after what it holds and the run it makes way for; it  *)
(* goes at the end of the index, and the oldest beyond MaxBackups are stale.  *)
ArchiveName(j) == [sha |-> Old(j).db, run |-> LastRun(app[j].db)]
AllBackups(j)  == Append(Old(j).manifest.backups, ArchiveName(j))
RetainedOneMore(names) == {i \in DOMAIN names : i + MaxBackups >= Len(names)}    \* mutant
Retained(names) == {i \in DOMAIN names : i + MaxBackups > Len(names)}
Youngest(names) == SubSeq(names, Len(names) + 1 - Cardinality(Retained(names)), Len(names))
StaleKept(names)     == {}                                     \* mutant
StaleInverted(names) == {names[i] : i \in Retained(names)}     \* mutant
Stale(names)    == {names[i] : i \in DOMAIN names \ Retained(names)}

(* `stage_live` up to its first write: old state, app state, same run,        *)
(* continuity, and the archive's name still free.                            *)
Stageable(j) ==
    /\ Verified(dir[j], FALSE)
    /\ Verified(app[j], TRUE)
    /\ LastRun(dir[j].db) # LastRun(app[j].db)
    /\ Continuous(dir[j].db, app[j].db, LastRun(app[j].db))
    /\ ArchiveName(j) \notin DOMAIN dir[j].archives

-----------------------------------------------------------------------------
Goto(j, place) == pc' = [pc EXCEPT ![j] = place]

Checkout(j) ==
    /\ pc[j] = "idle"
    /\ base' = [base EXCEPT ![j] = remote]
    /\ dir' = [dir EXCEPT ![j] = Last(remote)]
    /\ tainted' = [tainted EXCEPT ![j] = FALSE]
    /\ Goto(j, "checked_out")
    /\ UNCHANGED <<remote, started, app>>

(* "Validate checked-out state (fail closed)". *)
Preflight(j) ==
    /\ pc[j] = "checked_out"
    /\ Goto(j, IF Verified(dir[j], FALSE) THEN "ready" ELSE "refused")
    /\ UNCHANGED <<remote, started, base, dir, app, tainted>>

(* What a completed run leaves in its copy of the database: its own row and   *)
(* perhaps a notification, and perhaps an older pending report confirmed.     *)
Confirmed(runs) ==
    {runs} \union {[runs EXCEPT ![q].report = "REPORT_PUBLISHED"] :
                     q \in {p \in DOMAIN runs : runs[p].report = "PENDING_REPORT"}}

Completed(db, r, runs, notes, report) == [db EXCEPT !.runs = Put(runs, r, Row(report)), !.notes = notes]

Outcomes(db, r) ==
    {Completed(db, r, runs, notes, report) :
        runs \in Confirmed(db.runs), notes \in {db.notes, Put(db.notes, r, Note(r))},
        report \in {"NONE", "REPORT_PUBLISHED"}}

(* What a wrong restore, a stray tool or a hand edit may turn it into. *)
Mishaps(db, r) ==
    {[db EXCEPT !.runs = Restrict(@, DOMAIN @ \ {q})] : q \in DOMAIN db.runs}
    \union {[db EXCEPT !.runs[q].rest = "rewritten"] : q \in DOMAIN db.runs}
    \union {[db EXCEPT !.runs[q].report = "UNCONFIRMED"] : q \in DOMAIN db.runs}
    \union {[db EXCEPT !.runs = Put(@, q, Row("NONE"))] : q \in RunIds \ DOMAIN db.runs}
    \union {[db EXCEPT !.runs[r].dry = TRUE]}
    \union {[db EXCEPT !.notes = Restrict(@, DOMAIN @ \ {n})] : n \in DOMAIN db.notes}
    \union {[db EXCEPT !.notes[n].rest = "rewritten"] : n \in DOMAIN db.notes}
    \union {[db EXCEPT !.notes = Put(@, r, Note(0))]}
    \union {[db EXCEPT !.sound = FALSE]}

(* `hidden-gems run --live` on the copy, then write_run_manifest.  The        *)
(* manifest inherits `backups` from the copied one; the archives themselves   *)
(* are not copied.                                                            *)
Inherited(j) == IF j \in Carriers THEN dir[j].manifest.backups ELSE <<>>

RunPipeline(j) ==
    /\ pc[j] = "ready"
    /\ started < MaxRuns
    /\ started' = started + 1
    /\ \E db \in Outcomes(dir[j].db, started + 1) :
         \/ /\ app' = [app EXCEPT ![j] = [db |-> db, manifest |-> ManifestOf(db, Inherited(j)),
                                          archives |-> <<>>]]
            /\ UNCHANGED tainted
         \/ \E bad \in Mishaps(db, started + 1) :
            /\ bad.runs # <<>> /\ bad # db
            /\ app' = [app EXCEPT ![j] = [db |-> bad, manifest |-> ManifestOf(bad, Inherited(j)),
                                          archives |-> <<>>]]
            /\ tainted' = [tainted EXCEPT ![j] = TRUE]
    /\ Goto(j, "ran")
    /\ UNCHANGED <<remote, base, dir>>

(* An archive of the checkout rots before the last verification. *)
Rot(j) ==
    /\ pc[j] \in {"ready", "ran", "backed_up", "copied", "indexed"}
    /\ \E name \in DOMAIN dir[j].archives :
         /\ dir[j].archives[name] # NoDatabase
         /\ dir' = [dir EXCEPT ![j].archives[name] = NoDatabase]
    /\ tainted' = [tainted EXCEPT ![j] = TRUE]
    /\ UNCHANGED <<remote, started, pc, base, app>>

(* stage_live: checks, then the archive is written beside and renamed. *)
StageBackup(j) ==
    /\ pc[j] = "ran"
    /\ IF Stageable(j)
         THEN /\ dir' = [dir EXCEPT ![j].archives = Put(@, ArchiveName(j), dir[j].db)]
              /\ Goto(j, "backed_up")
         ELSE /\ Goto(j, "refused")
              /\ UNCHANGED dir
    /\ UNCHANGED <<remote, started, base, app, tainted>>

(* The new archive is restored once as a rehearsal; then the database is      *)
(* overwritten, while the manifest still describes the old one.               *)
StageDatabase(j) ==
    /\ pc[j] = "backed_up"
    /\ IF Restores(dir[j], ArchiveName(j))
         THEN /\ dir' = [dir EXCEPT ![j].db = app[j].db]
              /\ Goto(j, "copied")
         ELSE /\ Goto(j, "refused")
              /\ UNCHANGED dir
    /\ UNCHANGED <<remote, started, base, app, tainted>>

(* The manifest of the run with the youngest backups of the old index. *)
StageManifest(j) ==
    /\ pc[j] = "copied"
    /\ dir' = [dir EXCEPT ![j].manifest = [app[j].manifest EXCEPT !.backups = Youngest(AllBackups(j))]]
    /\ Goto(j, "indexed")
    /\ UNCHANGED <<remote, started, base, app, tainted>>

(* Rotation only after the staged state verifies as a whole. *)
StageRotate(j) ==
    /\ pc[j] = "indexed"
    /\ IF Verified(dir[j], TRUE) /\ LastRun(dir[j].db) = LastRun(app[j].db)
         THEN /\ dir' = [dir EXCEPT ![j].archives =
                            Restrict(@, DOMAIN @ \ Stale(AllBackups(j)))]
              /\ Goto(j, "staged")
         ELSE /\ Goto(j, "refused")
              /\ UNCHANGED dir
    /\ UNCHANGED <<remote, started, base, app, tainted>>

FastForward(j) == remote = base[j]

(* "Persist state branch": verify, commit, push without force. *)
Push(j) ==
    /\ pc[j] = "staged"
    /\ \/ /\ ~Verified(dir[j], FALSE)
          /\ Goto(j, "refused")
          /\ UNCHANGED remote
       \/ /\ Verified(dir[j], FALSE)
          /\ FastForward(j)
          /\ remote' = Append(base[j], dir[j])
          /\ Goto(j, "pushed")
       \/ /\ ~FastForward(j)
          /\ Goto(j, "rejected")
          /\ UNCHANGED remote
    /\ UNCHANGED <<started, base, dir, app, tainted>>

(* The job is cancelled, times out or ends; its runner is thrown away. *)
End(j) ==
    /\ pc[j] # "idle"
    /\ Goto(j, "idle")
    /\ base' = [base EXCEPT ![j] = <<>>]
    /\ dir' = [dir EXCEPT ![j] = EmptyTree]
    /\ app' = [app EXCEPT ![j] = EmptyTree]
    /\ tainted' = [tainted EXCEPT ![j] = FALSE]
    /\ UNCHANGED <<remote, started>>

Next == \E j \in Jobs :
    \/ Checkout(j)
    \/ Preflight(j)
    \/ RunPipeline(j)
    \/ Rot(j)
    \/ StageBackup(j)
    \/ StageDatabase(j)
    \/ StageManifest(j)
    \/ StageRotate(j)
    \/ Push(j)
    \/ End(j)

Spec == Init /\ [][Next]_vars

-----------------------------------------------------------------------------
Rows      == [report : ReportStates, rest : {"recorded", "rewritten"}, dry : BOOLEAN]
Notes     == [run : RunIds \union {0}, rest : {"recorded", "rewritten"}]
IsTable(t, S) == DOMAIN t \subseteq RunIds /\ \A id \in DOMAIN t : t[id] \in S
Control   == {"idle", "checked_out", "ready", "ran", "backed_up", "copied", "indexed",
              "staged", "pushed", "refused", "rejected"}

IsDatabase(db) == /\ db.sound \in BOOLEAN
                  /\ IsTable(db.runs, Rows)
                  /\ IsTable(db.notes, Notes)
IsName(name)   == IsDatabase(name.sha) /\ name.run \in RunIds
IsTree(tree)   == /\ IsDatabase(tree.db)
                  /\ IsDatabase(tree.manifest.sha)
                  /\ tree.manifest.last \in RunIds \union {0}
                  /\ \A i \in DOMAIN tree.manifest.backups : IsName(tree.manifest.backups[i])
                  /\ \A name \in DOMAIN tree.archives : IsName(name) /\ IsDatabase(tree.archives[name])

(* Every variable stays within its type. *)
TypeOK ==
    /\ \A i \in DOMAIN remote : IsTree(remote[i])
    /\ started \in RunIds
    /\ pc \in [Jobs -> Control]
    /\ \A j \in Jobs : /\ \A i \in DOMAIN base[j] : IsTree(base[j][i])
                       /\ IsTree(dir[j])
                       /\ IsTree(app[j])
    /\ tainted \in [Jobs -> BOOLEAN]

(* B4: from one published state to any later one no run and no notification   *)
(* is lost, added without its run, or rewritten, but for a pending report     *)
(* becoming published, whatever the app directory was turned into.            *)
PublishedHistoryGrows ==
    \A i, k \in DOMAIN remote : i < k =>
        LET old == remote[i].db
            new == remote[k].db IN
        /\ Cardinality(DOMAIN new.runs) = Cardinality(DOMAIN old.runs) + (k - i)
        /\ \A q \in DOMAIN old.runs : q \in DOMAIN new.runs /\ RowKept(old.runs[q], new.runs[q])
        /\ \A n \in DOMAIN old.notes : n \in DOMAIN new.notes /\ new.notes[n] = old.notes[n]
        /\ \A n \in DOMAIN new.notes : new.notes[n].run \in DOMAIN new.runs

(* A push never takes back what another job published. *)
PublishedIsNeverRewritten == [][SubSeq(remote', 1, Len(remote)) = remote]_vars

(* B3: whatever rots, what is pushed verifies, keeps at most MaxBackups       *)
(* archives, and has no archive its manifest does not index.                  *)
PublishedStatesAreWhole ==
    \A k \in DOMAIN remote : k > 1 =>
        /\ Verified(remote[k], TRUE)
        /\ Len(remote[k].manifest.backups) <= MaxBackups
        /\ DOMAIN remote[k].archives = ToSet(remote[k].manifest.backups)

(* B3: the archives of a published state are the databases of exactly the     *)
(* states published just before it, youngest last, so any of them can be gone *)
(* back to.                                                                   *)
BackupsAreThePreviousStates ==
    \A k \in DOMAIN remote :
        LET names == remote[k].manifest.backups IN
        /\ Len(names) = IF k - 1 < MaxBackups THEN k - 1 ELSE MaxBackups
        /\ \A i \in DOMAIN names : names[i].sha = remote[k - 1 - Len(names) + i].db

(* At every point of staging the history of before is still there: as the     *)
(* database itself or as an archive that restores to it.                      *)
NothingLostWhileStaging ==
    \A j \in Jobs : pc[j] # "idle" /\ ~tainted[j] =>
        \/ dir[j].db = Old(j).db
        \/ \E name \in DOMAIN dir[j].archives : dir[j].archives[name] = Old(j).db

(* With the manifest carried, the run's own manifest names archives that only *)
(* the checkout has.                                                          *)
Burdened(j) == j \in Carriers /\ Old(j).manifest.backups # <<>>

(* The guard fails closed on damage and on an inherited index, and on nothing *)
(* else, however many cycles came before; and an inherited index never gets   *)
(* past it, so no carried manifest is ever staged without its archives.       *)
RefusalsAreExplained ==
    \A j \in Jobs :
        /\ pc[j] = "refused" => tainted[j] \/ Burdened(j)
        /\ pc[j] \in {"backed_up", "copied", "indexed", "staged", "pushed"} => ~Burdened(j)

(* "the manifest indexes the backups" (live-hardening-b1-b4.md:22): a cycle   *)
(* nobody tampered with is never refused, however many came before it.        *)
OnlyDamageIsRefused == \A j \in Jobs : pc[j] = "refused" => tainted[j]
=============================================================================
