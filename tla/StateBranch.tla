----------------------------- MODULE StateBranch -----------------------------
(***************************************************************************)
(* history/state_branch.py: StateBranchManager.  Several writers load the  *)
(* canonical state from the `state` branch into a working directory,       *)
(* change it, and persist it back against the parent commit they loaded.   *)
(*                                                                         *)
(* A commit hash fixes the whole chain below it, so a commit is modelled   *)
(* as the sequence of trees of that chain and the branch as one commit;    *)
(* <<>> is "no such branch".  A writer may die between any two steps and   *)
(* a later process then reuses the directory it left behind.               *)
(***************************************************************************)
EXTENDS Naturals, Sequences, FiniteSets

CONSTANTS Runs,           \* the writers; each records its own run id
          MaxCommits,     \* bound: commits on the branch
          MaxStamps,      \* bound: backups ever written
          MaxBackups,     \* StateBranchManager(max_backups = ...)
          BranchExists    \* whether the branch is there to begin with

ASSUME StateBranchAssumption ==
    /\ MaxCommits \in Nat \ {0}
    /\ MaxStamps \in Nat
    /\ MaxBackups \in Nat \ {0}
    /\ BranchExists \in BOOLEAN

VARIABLES branch,     \* refs/heads/state: the chain of trees, <<>> when absent
          pc,         \* what each writer is doing
          work,       \* its working directory (snapshot.manifest is always written through)
          parent,     \* snapshot.parent_sha, passed as expected_parent_sha
          stamp,      \* the clock the backup names are taken from
          acked       \* writers told that a persist with their record succeeded

vars == <<branch, pc, work, parent, stamp, acked>>

ReportStates == {"IDLE", "PENDING_REPORT", "REPORT_PUBLISHED"}
Database     == [file : {"missing", "sound", "corrupt"}, runs : SUBSET Runs]
Manifest     == [report : ReportStates, sha : Database, backups : SUBSET (1..MaxStamps)]
Tree         == [db : Database, manifest : Manifest, files : SUBSET (1..MaxStamps)]
Control      == {"idle", "loaded", "rotating", "committing", "conflict", "failed"}

NoDatabase    == [file |-> "missing", runs |-> {}]
EmptyManifest == [report |-> "IDLE", sha |-> NoDatabase, backups |-> {}]
EmptyTree     == [db |-> NoDatabase, manifest |-> EmptyManifest, files |-> {}]

FirstDatabase == [file |-> "sound", runs |-> {}]
FirstTree     == [EmptyTree EXCEPT !.db = FirstDatabase, !.manifest.sha = FirstDatabase]

Tip(chain) == chain[Len(chain)]

Init ==
    /\ branch = IF BranchExists THEN <<FirstTree>> ELSE <<>>
    /\ pc = [r \in Runs |-> "idle"]
    /\ work = [r \in Runs |-> EmptyTree]
    /\ parent = [r \in Runs |-> <<>>]
    /\ stamp = 0
    /\ acked = {}

RefreshedNever(m, db) == m    \* mutant

(* `_write_manifest`: refresh the digest of a database that is there. *)
Refreshed(m, db) == IF db.file = "missing" THEN m ELSE [m EXCEPT !.sha = db]

(* Mutant: a directory that already holds a database is taken as it is. *)
CheckedOutStale(dir, chain) == IF chain = <<>> \/ dir.db.file # "missing" THEN dir ELSE Tip(chain)

(* `git checkout <parent> -- .` replaces the files the tree has and leaves *)
(* every other file of the directory alone.                                *)
CheckedOut(dir, chain) ==
    IF chain = <<>> THEN dir
    ELSE [Tip(chain) EXCEPT !.files = @ \union dir.files]

-----------------------------------------------------------------------------
Load(r) ==
    /\ pc[r] \in {"idle", "conflict", "failed"}
    /\ work' = [work EXCEPT ![r] = CheckedOut(work[r], branch)]
    /\ parent' = [parent EXCEPT ![r] = branch]
    /\ pc' = [pc EXCEPT ![r] = "loaded"]
    /\ UNCHANGED <<branch, stamp, acked>>

(* The caller's own work on the loaded database: record its run. *)
Record(r) ==
    /\ pc[r] = "loaded"
    /\ work[r].db.file # "corrupt"
    /\ work' = [work EXCEPT ![r].db = [file |-> "sound", runs |-> @.runs \union {r}]]
    /\ UNCHANGED <<branch, pc, parent, stamp, acked>>

(* The file is damaged on disk: PRAGMA integrity_check would not say ok. *)
Damage(r) ==
    /\ pc[r] = "loaded"
    /\ work[r].db.file = "sound"
    /\ work' = [work EXCEPT ![r].db.file = "corrupt"]
    /\ UNCHANGED <<branch, pc, parent, stamp, acked>>

CheckpointPendingReport(r) ==
    /\ pc[r] = "loaded"
    /\ work' = [work EXCEPT ![r].manifest =
                    Refreshed([@ EXCEPT !.report = "PENDING_REPORT"], work[r].db)]
    /\ UNCHANGED <<branch, pc, parent, stamp, acked>>

(* The MaxBackups youngest: names sort by their time stamp. *)
Retained(files) == {f \in files : Cardinality({g \in files : g > f}) < MaxBackups}

(* rotate_backups writes the new archive and unlinks the stale ones ... *)
RotateFiles(r) ==
    /\ pc[r] = "loaded"
    /\ work[r].db.file # "missing"
    /\ stamp < MaxStamps
    /\ stamp' = stamp + 1
    /\ work' = [work EXCEPT ![r].files = Retained(@ \union {stamp + 1})]
    /\ pc' = [pc EXCEPT ![r] = "rotating"]
    /\ UNCHANGED <<branch, parent, acked>>

(* ... and only then indexes what is left in the manifest. *)
RotateIndex(r) ==
    /\ pc[r] = "rotating"
    /\ work' = [work EXCEPT ![r].manifest =
                    Refreshed([@ EXCEPT !.backups = work[r].files], work[r].db)]
    /\ pc' = [pc EXCEPT ![r] = "loaded"]
    /\ UNCHANGED <<branch, parent, stamp, acked>>

(* persist, first half: compare the branch with the expected parent, verify  *)
(* the database, refresh the manifest and build the tree.                    *)
PersistCheck(r) ==
    /\ pc[r] = "loaded"
    /\ Len(branch) < MaxCommits
    /\ \/ /\ branch # parent[r]                      \* StateConflict
          /\ pc' = [pc EXCEPT ![r] = "conflict"]
          /\ work' = work
       \/ /\ branch = parent[r]
          /\ work[r].db.file # "sound"               \* StateIntegrityError
          /\ pc' = [pc EXCEPT ![r] = "failed"]
          /\ work' = work
       \/ /\ branch = parent[r]
          /\ work[r].db.file = "sound"
          /\ work' = [work EXCEPT ![r].manifest = Refreshed(@, work[r].db)]
          /\ pc' = [pc EXCEPT ![r] = "committing"]
    /\ UNCHANGED <<branch, parent, stamp, acked>>

RefMovesBlind(r) == TRUE    \* mutant

(* `git update-ref <ref> <commit> <current>` compares and swaps; without a   *)
(* current commit the old value is not passed and the ref is simply set.     *)
RefMoves(r) == parent[r] = <<>> \/ branch = parent[r]

(* persist, second half: commit-tree and update-ref. *)
PersistCommit(r) ==
    /\ pc[r] = "committing"
    /\ IF RefMoves(r)
         THEN /\ branch' = Append(parent[r], work[r])
              /\ parent' = [parent EXCEPT ![r] = branch']
              /\ pc' = [pc EXCEPT ![r] = "loaded"]
              /\ acked' = acked \union ({r} \intersect work[r].db.runs)
         ELSE /\ pc' = [pc EXCEPT ![r] = "conflict"]
              /\ UNCHANGED <<branch, parent, acked>>
    /\ UNCHANGED <<work, stamp>>

(* The process dies; its directory stays as it is. *)
Crash(r) ==
    /\ pc[r] \in {"loaded", "rotating", "committing"}
    /\ pc' = [pc EXCEPT ![r] = "idle"]
    /\ UNCHANGED <<branch, work, parent, stamp, acked>>

Next == \E r \in Runs :
    \/ Load(r)
    \/ Record(r)
    \/ Damage(r)
    \/ CheckpointPendingReport(r)
    \/ RotateFiles(r)
    \/ RotateIndex(r)
    \/ PersistCheck(r)
    \/ PersistCommit(r)
    \/ Crash(r)

Spec == Init /\ [][Next]_vars

-----------------------------------------------------------------------------
(* Every variable stays within its type. *)
TypeOK ==
    /\ branch \in Seq(Tree)
    /\ pc \in [Runs -> Control]
    /\ work \in [Runs -> Tree]
    /\ parent \in [Runs -> Seq(Tree)]
    /\ stamp \in 0..MaxStamps
    /\ acked \subseteq Runs

(* A run whose persist succeeded is recorded in the newest snapshot for      *)
(* good: no later writer, however it interleaves with the others or crashes, *)
(* replaces that snapshot by one that does not know the run.                 *)
AcknowledgedRunsSurvive == acked # {} => branch # <<>> /\ acked \subseteq Tip(branch).db.runs

(* What gets committed is whole: a sound database, a manifest with the       *)
(* digest of exactly that database, and every backup the manifest names.     *)
CommittedTreesAreWhole ==
    \A i \in 1..Len(branch) :
        /\ branch[i].db.file = "sound"
        /\ branch[i].manifest.sha = branch[i].db
        /\ branch[i].manifest.backups \subseteq branch[i].files

(* "two concurrent runs can never overwrite each other" (state_branch.py:    *)
(* 4-5): the branch only ever moves to a commit on top of the one it was on. *)
NeverOverwritten ==
    [][branch' # branch => /\ Len(branch') = Len(branch) + 1
                           /\ SubSeq(branch', 1, Len(branch)) = branch]_vars

(* The branch implements the append-only history its writers rely on. *)
Recorded == [i \in 1..Len(branch) |-> branch[i].db.runs]
History  == INSTANCE LinearHistory WITH log <- Recorded, Records <- Runs
ImplementsLinearHistory == History!Spec
=============================================================================
