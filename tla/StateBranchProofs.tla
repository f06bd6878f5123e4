-------------------------- MODULE StateBranchProofs --------------------------
(***************************************************************************)
(* Theorems about StateBranch for every set of runs and every bound: type  *)
(* correctness, and, once the branch exists, that no writer overwrites     *)
(* another, that every commit holds a whole tree, and that the branch      *)
(* implements LinearHistory.  At the end, the type of GitHubClient, the    *)
(* client all of it goes through.                                          *)
(***************************************************************************)
EXTENDS StateBranch, GitHubClient, SequenceTheorems, TLAPS

(* The shape of a working directory survives every operation on it. *)
LEMMA TreeFacts ==
    /\ NoDatabase \in Database
    /\ FirstDatabase \in Database
    /\ EmptyTree \in Tree
    /\ FirstTree \in Tree
    /\ \A m \in Manifest, d \in Database : Refreshed(m, d) \in Manifest
  BY DEF NoDatabase, FirstDatabase, EmptyTree, EmptyManifest, FirstTree, Tree,
         Manifest, Database, ReportStates, Refreshed

LEMMA CheckedOutType ==
    ASSUME NEW dir \in Tree, NEW chain \in Seq(Tree)
    PROVE  CheckedOut(dir, chain) \in Tree
<1>1. CASE chain = <<>>
  BY <1>1 DEF CheckedOut
<1>2. CASE chain # <<>>
  <2>1. Tip(chain) \in Tree
    BY <1>2 DEF Tip
  <2>2. QED
    BY <1>2, <2>1 DEF CheckedOut, Tree
<1>3. QED
  BY <1>1, <1>2

(* TypeOK is inductive. *)
LEMMA TypeInductive == TypeOK /\ [Next]_vars => TypeOK'
<1> SUFFICES ASSUME TypeOK, [Next]_vars PROVE TypeOK'
  OBVIOUS
<1> USE StateBranchAssumption DEF TypeOK, Control
<1>1. ASSUME NEW r \in Runs, Load(r) PROVE TypeOK'
  BY <1>1, CheckedOutType DEF Load
<1>2. ASSUME NEW r \in Runs, Record(r) PROVE TypeOK'
  BY <1>2 DEF Record, Tree, Database
<1>3. ASSUME NEW r \in Runs, Damage(r) PROVE TypeOK'
  BY <1>3 DEF Damage, Tree, Database
<1>4. ASSUME NEW r \in Runs, CheckpointPendingReport(r) PROVE TypeOK'
  <2>1. [work[r].manifest EXCEPT !.report = "PENDING_REPORT"] \in Manifest
    BY DEF Tree, Manifest, ReportStates
  <2>2. QED
    BY <1>4, <2>1, TreeFacts DEF CheckpointPendingReport, Tree
<1>5. ASSUME NEW r \in Runs, RotateFiles(r) PROVE TypeOK'
  <2>1. Retained(work[r].files \union {stamp + 1}) \subseteq 1..MaxStamps
    BY <1>5 DEF RotateFiles, Retained, Tree
  <2>2. [work[r] EXCEPT !.files = Retained(@ \union {stamp + 1})] \in Tree
    BY <2>1 DEF Tree
  <2>3. work' \in [Runs -> Tree]
    BY <1>5, <2>2 DEF RotateFiles
  <2>4. stamp' \in 0..MaxStamps
    BY <1>5 DEF RotateFiles
  <2>5. QED
    BY <1>5, <2>3, <2>4 DEF RotateFiles
<1>6. ASSUME NEW r \in Runs, RotateIndex(r) PROVE TypeOK'
  <2>1. [work[r].manifest EXCEPT !.backups = work[r].files] \in Manifest
    BY DEF Tree, Manifest
  <2>2. QED
    BY <1>6, <2>1, TreeFacts DEF RotateIndex, Tree
<1>7. ASSUME NEW r \in Runs, PersistCheck(r) PROVE TypeOK'
  <2>1. Refreshed(work[r].manifest, work[r].db) \in Manifest
    BY TreeFacts DEF Tree
  <2>2. QED
    BY <1>7, <2>1 DEF PersistCheck, Tree
<1>8. ASSUME NEW r \in Runs, PersistCommit(r) PROVE TypeOK'
  <2>1. Append(parent[r], work[r]) \in Seq(Tree)
    OBVIOUS
  <2>2. CASE RefMoves(r)
    BY <1>8, <2>1, <2>2 DEF PersistCommit
  <2>3. CASE ~RefMoves(r)
    BY <1>8, <2>3 DEF PersistCommit
  <2>4. QED
    BY <2>2, <2>3
<1>9. ASSUME NEW r \in Runs, Crash(r) PROVE TypeOK'
  BY <1>9 DEF Crash
<1>10. CASE UNCHANGED vars
  BY <1>10 DEF vars
<1>11. QED
  BY <1>1, <1>2, <1>3, <1>4, <1>5, <1>6, <1>7, <1>8, <1>9, <1>10 DEF Next

(* Every reachable state is well typed, for any writers and bounds. *)
THEOREM TypeCorrect == Spec => []TypeOK
<1>1. Init => TypeOK
  BY TreeFacts, StateBranchAssumption DEF Init, TypeOK, Control
<1>2. QED
  BY <1>1, TypeInductive, PTL DEF Spec

-----------------------------------------------------------------------------
(* The strengthening.  While a writer holds a loaded snapshot its parent is  *)
(* a real commit, and its directory still has every run that commit's        *)
(* database had: this is what makes the compare-and-swap enough.             *)
Holding(r) == pc[r] \in {"loaded", "rotating", "committing"}

CarriesParent(r) ==
    Holding(r) => /\ parent[r] # <<>>
                  /\ Tip(parent[r]).db.runs \subseteq work[r].db.runs

IInv ==
    /\ TypeOK
    /\ branch # <<>>
    /\ acked \subseteq Tip(branch).db.runs
    /\ \A r \in Runs : CarriesParent(r)

LEMMA TipOfAppend ==
    ASSUME NEW chain \in Seq(Tree), NEW tree \in Tree
    PROVE  /\ Append(chain, tree) # <<>>
           /\ Tip(Append(chain, tree)) = tree
  BY DEF Tip

(* What a commit does to the branch, for a writer that carries its parent. *)
LEMMA CommitExtends ==
    ASSUME IInv, NEW r \in Runs, PersistCommit(r)
    PROVE  \/ /\ branch' = Append(branch, work[r])
              /\ parent' = [parent EXCEPT ![r] = branch']
              /\ Tip(branch).db.runs \subseteq work[r].db.runs
              /\ acked' = acked \union ({r} \intersect work[r].db.runs)
              /\ pc' = [pc EXCEPT ![r] = "loaded"]
           \/ /\ UNCHANGED <<branch, parent, acked>>
              /\ pc' = [pc EXCEPT ![r] = "conflict"]
<1>1. parent[r] # <<>> /\ Tip(parent[r]).db.runs \subseteq work[r].db.runs
  BY DEF IInv, CarriesParent, Holding, PersistCommit
<1>2. CASE RefMoves(r)
  <2>1. branch = parent[r]
    BY <1>1, <1>2 DEF RefMoves
  <2>2. QED
    BY <1>1, <1>2, <2>1 DEF PersistCommit
<1>3. CASE ~RefMoves(r)
  BY <1>3 DEF PersistCommit
<1>4. QED
  BY <1>2, <1>3

(* A step of r that leaves the branch alone, keeps r's directory at least as *)
(* full and touches no other writer preserves the invariant.                 *)
LEMMA LocalStep ==
    ASSUME IInv, TypeOK', NEW r \in Runs,
           UNCHANGED <<branch, acked>>,
           \A q \in Runs \ {r} : UNCHANGED <<pc[q], work[q], parent[q]>>,
           CarriesParent(r)'
    PROVE  IInv'
<1>1. ASSUME NEW q \in Runs PROVE CarriesParent(q)'
  <2>1. CASE q = r
    BY <2>1
  <2>2. CASE q # r
    BY <2>2 DEF IInv, CarriesParent, Holding
  <2>3. QED
    BY <2>1, <2>2
<1>2. QED
  BY <1>1 DEF IInv

(* IInv is inductive. *)
LEMMA Inductive == IInv /\ [Next]_vars => IInv'
<1> SUFFICES ASSUME IInv, [Next]_vars PROVE IInv'
  OBVIOUS
<1>0. TypeOK /\ TypeOK'
  BY TypeInductive DEF IInv
<1>a. ASSUME NEW r \in Runs PROVE CarriesParent(r)
  BY DEF IInv
<1>1. ASSUME NEW r \in Runs, Load(r) PROVE IInv'
  <2>1. CarriesParent(r)'
    <3>1. work'[r] = CheckedOut(work[r], branch) /\ parent'[r] = branch
      BY <1>0, <1>1 DEF Load, TypeOK
    <3>2. CheckedOut(work[r], branch).db = Tip(branch).db
      <4>1. Tip(branch) \in Tree
        BY <1>0 DEF IInv, TypeOK, Tip
      <4>2. QED
        BY <4>1 DEF IInv, CheckedOut, Tree
    <3>3. QED
      BY <3>1, <3>2 DEF CarriesParent, IInv
  <2>2. QED
    BY <1>0, <1>1, <2>1, LocalStep DEF Load, TypeOK
<1>2. ASSUME NEW r \in Runs, Record(r) PROVE IInv'
  <2>1. work'[r].db.runs = work[r].db.runs \union {r}
    BY <1>0, <1>2 DEF Record, TypeOK, Tree
  <2>2. CarriesParent(r)'
    BY <1>a, <1>2, <2>1 DEF CarriesParent, Holding, Record
  <2>3. QED
    BY <1>0, <1>2, <2>2, LocalStep DEF Record, TypeOK
<1>3. ASSUME NEW r \in Runs, Damage(r) PROVE IInv'
  <2>1. work'[r].db.runs = work[r].db.runs
    BY <1>0, <1>3 DEF Damage, TypeOK, Tree, Database
  <2>2. CarriesParent(r)'
    BY <1>a, <1>3, <2>1 DEF CarriesParent, Holding, Damage
  <2>3. QED
    BY <1>0, <1>3, <2>2, LocalStep DEF Damage, TypeOK
<1>4. ASSUME NEW r \in Runs, CheckpointPendingReport(r) PROVE IInv'
  <2>1. work'[r].db = work[r].db
    BY <1>0, <1>4 DEF CheckpointPendingReport, TypeOK, Tree
  <2>2. CarriesParent(r)'
    BY <1>a, <1>4, <2>1 DEF CarriesParent, Holding, CheckpointPendingReport
  <2>3. QED
    BY <1>0, <1>4, <2>2, LocalStep DEF CheckpointPendingReport, TypeOK
<1>5. ASSUME NEW r \in Runs, RotateFiles(r) PROVE IInv'
  <2>1. work'[r].db = work[r].db
    BY <1>0, <1>5 DEF RotateFiles, TypeOK, Tree
  <2>2. CarriesParent(r)'
    BY <1>a, <1>5, <2>1 DEF CarriesParent, Holding, RotateFiles
  <2>3. QED
    BY <1>0, <1>5, <2>2, LocalStep DEF RotateFiles, TypeOK
<1>6. ASSUME NEW r \in Runs, RotateIndex(r) PROVE IInv'
  <2>1. work'[r].db = work[r].db
    BY <1>0, <1>6 DEF RotateIndex, TypeOK, Tree
  <2>2. CarriesParent(r)'
    BY <1>a, <1>6, <2>1 DEF CarriesParent, Holding, RotateIndex
  <2>3. QED
    BY <1>0, <1>6, <2>2, LocalStep DEF RotateIndex, TypeOK
<1>7. ASSUME NEW r \in Runs, PersistCheck(r) PROVE IInv'
  <2>1. work'[r].db = work[r].db
    BY <1>0, <1>7 DEF PersistCheck, TypeOK, Tree
  <2>2. CarriesParent(r)'
    BY <1>a, <1>7, <2>1 DEF CarriesParent, Holding, PersistCheck
  <2>3. QED
    BY <1>0, <1>7, <2>2, LocalStep DEF PersistCheck, TypeOK
<1>8. ASSUME NEW r \in Runs, PersistCommit(r) PROVE IInv'
  <2>1. CASE UNCHANGED <<branch, parent, acked>> /\ pc' = [pc EXCEPT ![r] = "conflict"]
    <3>1. CarriesParent(r)'
      BY <1>0, <2>1 DEF CarriesParent, Holding, TypeOK
    <3>2. QED
      BY <1>0, <1>8, <2>1, <3>1, LocalStep DEF PersistCommit, TypeOK
  <2>2. CASE /\ branch' = Append(branch, work[r])
             /\ parent' = [parent EXCEPT ![r] = branch']
             /\ Tip(branch).db.runs \subseteq work[r].db.runs
             /\ acked' = acked \union ({r} \intersect work[r].db.runs)
             /\ pc' = [pc EXCEPT ![r] = "loaded"]
    <3>1. branch' # <<>> /\ Tip(branch') = work[r]
      BY <1>0, <2>2, TipOfAppend DEF TypeOK
    <3>2. acked' \subseteq Tip(branch)'.db.runs
      BY <2>2, <3>1 DEF IInv, Tip
    <3>3. ASSUME NEW q \in Runs PROVE CarriesParent(q)'
      <4>1. work' = work
        BY <1>8 DEF PersistCommit
      <4>2. CASE q = r
        BY <1>0, <2>2, <3>1, <4>1, <4>2 DEF CarriesParent, TypeOK
      <4>3. CASE q # r
        BY <1>0, <1>a, <2>2, <4>1, <4>3 DEF CarriesParent, Holding, TypeOK
      <4>4. QED
        BY <4>2, <4>3
    <3>4. QED
      BY <1>0, <3>1, <3>2, <3>3 DEF IInv
  <2>3. QED
    BY <1>8, <2>1, <2>2, CommitExtends
<1>9. ASSUME NEW r \in Runs, Crash(r) PROVE IInv'
  <2>1. CarriesParent(r)'
    BY <1>0, <1>9 DEF CarriesParent, Holding, Crash, TypeOK
  <2>2. QED
    BY <1>0, <1>9, <2>1, LocalStep DEF Crash, TypeOK
<1>10. CASE UNCHANGED vars
  BY <1>0, <1>10 DEF vars, IInv, CarriesParent, Holding
<1>11. QED
  BY <1>1, <1>2, <1>3, <1>4, <1>5, <1>6, <1>7, <1>8, <1>9, <1>10 DEF Next

LEMMA Initial == ASSUME BranchExists PROVE Init => IInv
<1> SUFFICES ASSUME Init PROVE IInv
  OBVIOUS
<1>1. TypeOK
  BY TreeFacts, StateBranchAssumption DEF Init, TypeOK, Control
<1>2. branch = <<FirstTree>> /\ acked = {}
  BY DEF Init
<1>3. \A r \in Runs : CarriesParent(r)
  BY DEF Init, CarriesParent, Holding
<1>4. QED
  BY <1>1, <1>2, <1>3 DEF IInv

(* With the branch in place, a run told that its persist succeeded stays in  *)
(* the newest snapshot whatever any number of writers do.                    *)
THEOREM AcknowledgedRunsSurviveAlways ==
    ASSUME BranchExists PROVE Spec => []AcknowledgedRunsSurvive
<1>1. IInv => AcknowledgedRunsSurvive
  BY DEF IInv, AcknowledgedRunsSurvive
<1>2. QED
  BY <1>1, Initial, Inductive, PTL DEF Spec

(* With the branch in place it only ever grows by one commit on top. *)
THEOREM NeverOverwrittenAlways ==
    ASSUME BranchExists PROVE Spec => NeverOverwritten
<1>1. ASSUME IInv, Next, branch' # branch
      PROVE  /\ Len(branch') = Len(branch) + 1
             /\ SubSeq(branch', 1, Len(branch)) = branch
  <2>1. PICK r \in Runs : PersistCommit(r)
    BY <1>1 DEF Next, Load, Record, Damage, CheckpointPendingReport,
                RotateFiles, RotateIndex, PersistCheck, Crash
  <2>2. branch' = Append(branch, work[r]) /\ branch \in Seq(Tree) /\ work[r] \in Tree
    BY <1>1, <2>1, CommitExtends DEF IInv, TypeOK
  <2>3. QED
    BY <2>2
<1>2. IInv /\ [Next]_vars =>
        [branch' # branch => /\ Len(branch') = Len(branch) + 1
                             /\ SubSeq(branch', 1, Len(branch)) = branch]_vars
  BY <1>1 DEF vars
<1>3. QED
  BY <1>2, Initial, Inductive, PTL DEF Spec, NeverOverwritten

-----------------------------------------------------------------------------
(* What a writer holds: the backups of its manifest are there, except between *)
(* the two halves of a rotation, and what it commits has been verified.       *)
Indexes(tree)  == tree.manifest.backups \subseteq tree.files
IsWhole(tree)  == tree.db.file = "sound" /\ tree.manifest.sha = tree.db /\ Indexes(tree)
KeepsBackups(r) ==
    /\ pc[r] = "loaded" => Indexes(work[r])
    /\ pc[r] = "committing" => IsWhole(work[r])
WInv == CommittedTreesAreWhole /\ \A r \in Runs : KeepsBackups(r)

(* A step of r that leaves the branch alone, and no other writer touched.     *)
LEMMA LocalKeeps ==
    ASSUME WInv, NEW r \in Runs, branch' = branch,
           \A q \in Runs \ {r} : UNCHANGED <<pc[q], work[q]>>,
           KeepsBackups(r)'
    PROVE  WInv'
<1>1. ASSUME NEW q \in Runs PROVE KeepsBackups(q)'
  <2>1. CASE q # r
    BY <2>1 DEF WInv, KeepsBackups
  <2> QED
    BY <2>1
<1> QED
  BY <1>1 DEF WInv, CommittedTreesAreWhole

LEMMA LoadedIndexes ==
    ASSUME IInv, WInv, NEW dir \in Tree
    PROVE  Indexes(CheckedOut(dir, branch))
<1>1. branch \in Seq(Tree) /\ branch # <<>> /\ Tip(branch) \in Tree /\ Len(branch) \in 1..Len(branch)
  BY DEF IInv, TypeOK, Tip
<1>2. Indexes(Tip(branch))
  BY <1>1 DEF WInv, CommittedTreesAreWhole, Tip, Indexes
<1>3. CheckedOut(dir, branch) = [Tip(branch) EXCEPT !.files = @ \union dir.files]
  BY <1>1 DEF CheckedOut
<1>4. /\ CheckedOut(dir, branch).manifest = Tip(branch).manifest
      /\ Tip(branch).files \subseteq CheckedOut(dir, branch).files
  BY <1>1, <1>3 DEF Tree
<1> QED
  BY <1>2, <1>4 DEF Indexes

LEMMA WholeInductive == IInv /\ WInv /\ [Next]_vars => WInv'
<1> SUFFICES ASSUME IInv, WInv, [Next]_vars PROVE WInv'
  OBVIOUS
<1>0. /\ TypeOK /\ DOMAIN pc = Runs /\ DOMAIN work = Runs /\ DOMAIN parent = Runs
      /\ \A r \in Runs : /\ KeepsBackups(r) /\ work[r] \in Tree
                         /\ work[r] = [db |-> work[r].db, manifest |-> work[r].manifest, files |-> work[r].files]
                         /\ work[r].manifest = [report |-> work[r].manifest.report,
                                                sha |-> work[r].manifest.sha, backups |-> work[r].manifest.backups]
  BY DEF IInv, WInv, TypeOK, Tree, Manifest
<1>m. \A m \in Manifest : \A d : /\ Refreshed(m, d).backups = m.backups
                                 /\ d.file = "sound" => Refreshed(m, d).sha = d
  BY DEF Refreshed, Manifest
<1>1. ASSUME NEW r \in Runs, Load(r) PROVE WInv'
  <2>1. pc'[r] = "loaded" /\ Indexes(work'[r])
    BY <1>0, <1>1, LoadedIndexes DEF Load
  <2>2. KeepsBackups(r)'
    BY <2>1 DEF KeepsBackups
  <2> QED
    BY <1>0, <1>1, <2>2, LocalKeeps DEF Load
<1>2. ASSUME NEW r \in Runs, Record(r) \/ Damage(r) PROVE WInv'
  <2>1. /\ pc' = pc /\ branch' = branch /\ pc[r] = "loaded"
        /\ work'[r].manifest = work[r].manifest /\ work'[r].files = work[r].files
        /\ \A q \in Runs \ {r} : work'[q] = work[q]
    BY <1>0, <1>2 DEF Record, Damage
  <2>2. KeepsBackups(r)'
    BY <1>0, <2>1 DEF KeepsBackups, Indexes
  <2> QED
    BY <2>1, <2>2, LocalKeeps
<1>3. ASSUME NEW r \in Runs, CheckpointPendingReport(r) PROVE WInv'
  <2>1. /\ pc' = pc /\ branch' = branch /\ pc[r] = "loaded" /\ work'[r].files = work[r].files
        /\ work'[r].manifest = Refreshed([work[r].manifest EXCEPT !.report = "PENDING_REPORT"], work[r].db)
        /\ \A q \in Runs \ {r} : work'[q] = work[q]
    BY <1>0, <1>3 DEF CheckpointPendingReport
  <2>2. PICK m \in Manifest : m.backups = work[r].manifest.backups /\ work'[r].manifest = Refreshed(m, work[r].db)
    <3>1. /\ [work[r].manifest EXCEPT !.report = "PENDING_REPORT"] \in Manifest
          /\ [work[r].manifest EXCEPT !.report = "PENDING_REPORT"].backups = work[r].manifest.backups
      BY <1>0 DEF Tree, Manifest, ReportStates
    <3> QED
      BY <2>1, <3>1, Zenon
  <2>3. work'[r].manifest.backups = work[r].manifest.backups /\ Indexes(work[r])
    <3>1. work'[r].manifest.backups = work[r].manifest.backups
      BY <1>m, <2>2
    <3> QED
      BY <1>0, <2>1, <3>1, Zenon DEF KeepsBackups
  <2>4. KeepsBackups(r)'
    BY <2>1, <2>3 DEF KeepsBackups, Indexes
  <2> QED
    BY <2>1, <2>4, LocalKeeps
<1>4. ASSUME NEW r \in Runs, RotateFiles(r) PROVE WInv'
  <2>1. /\ branch' = branch /\ pc'[r] = "rotating"
        /\ \A q \in Runs \ {r} : pc'[q] = pc[q] /\ work'[q] = work[q]
    BY <1>0, <1>4 DEF RotateFiles
  <2>2. KeepsBackups(r)'
    BY <2>1 DEF KeepsBackups
  <2> QED
    BY <2>1, <2>2, LocalKeeps
<1>5. ASSUME NEW r \in Runs, RotateIndex(r) PROVE WInv'
  <2>1. /\ branch' = branch /\ pc'[r] = "loaded" /\ work'[r].files = work[r].files
        /\ work'[r].manifest = Refreshed([work[r].manifest EXCEPT !.backups = work[r].files], work[r].db)
        /\ \A q \in Runs \ {r} : pc'[q] = pc[q] /\ work'[q] = work[q]
    BY <1>0, <1>5 DEF RotateIndex
  <2>2. PICK m \in Manifest : m.backups = work[r].files /\ work'[r].manifest = Refreshed(m, work[r].db)
    <3>1. /\ [work[r].manifest EXCEPT !.backups = work[r].files] \in Manifest
          /\ [work[r].manifest EXCEPT !.backups = work[r].files].backups = work[r].files
      BY <1>0 DEF Tree, Manifest
    <3> QED
      BY <2>1, <3>1, Zenon
  <2>3. work'[r].manifest.backups = work[r].files
    BY <1>m, <2>2
  <2>4. KeepsBackups(r)'
    BY <2>1, <2>3 DEF KeepsBackups, Indexes
  <2> QED
    BY <2>1, <2>4, LocalKeeps
<1>6. ASSUME NEW r \in Runs, PersistCheck(r) PROVE WInv'
  <2>1. CASE pc'[r] \in {"conflict", "failed"}
    BY <1>0, <1>6, <2>1, LocalKeeps DEF PersistCheck, KeepsBackups
  <2>2. CASE /\ work[r].db.file = "sound"
             /\ work' = [work EXCEPT ![r].manifest = Refreshed(@, work[r].db)]
             /\ pc' = [pc EXCEPT ![r] = "committing"]
    <3>1. /\ branch' = branch /\ pc'[r] = "committing" /\ pc[r] = "loaded"
          /\ work'[r].files = work[r].files /\ work'[r].db = work[r].db
          /\ work'[r].manifest = Refreshed(work[r].manifest, work[r].db)
          /\ \A q \in Runs \ {r} : pc'[q] = pc[q] /\ work'[q] = work[q]
      BY <1>0, <1>6, <2>2 DEF PersistCheck
    <3>2. work[r].manifest \in Manifest
      BY <1>0 DEF Tree
    <3>3. /\ work'[r].manifest.backups = work[r].manifest.backups /\ work'[r].manifest.sha = work[r].db
          /\ Indexes(work[r])
      <4>1. work'[r].manifest.backups = work[r].manifest.backups /\ work'[r].manifest.sha = work[r].db
        BY <1>m, <2>2, <3>1, <3>2
      <4> QED
        BY <1>0, <3>1, <4>1, Zenon DEF KeepsBackups
    <3>4. KeepsBackups(r)'
      BY <2>2, <3>1, <3>3 DEF KeepsBackups, Indexes, IsWhole
    <3> QED
      BY <3>1, <3>4, LocalKeeps
  <2> QED
    BY <1>0, <1>6, <2>1, <2>2 DEF PersistCheck
<1>7. ASSUME NEW r \in Runs, PersistCommit(r) PROVE WInv'
  <2>1. /\ work' = work /\ pc[r] = "committing" /\ pc'[r] \in {"loaded", "conflict"}
        /\ \A q \in Runs \ {r} : pc'[q] = pc[q]
    BY <1>0, <1>7 DEF PersistCommit
  <2>2. IsWhole(work[r])
    BY <1>0, <2>1 DEF KeepsBackups
  <2>3. KeepsBackups(r)'
    BY <2>1, <2>2 DEF KeepsBackups, IsWhole
  <2>4. CASE branch' = branch
    BY <2>1, <2>3, <2>4, LocalKeeps
  <2>5. CASE branch' = Append(branch, work[r])
    <3>1. /\ Len(branch) \in Nat /\ Len(branch') = Len(branch) + 1
          /\ \A i \in 1..Len(branch) : branch'[i] = branch[i]
          /\ branch'[Len(branch) + 1] = work[r]
      BY <1>0, <2>5 DEF TypeOK
    <3>2. \A i \in 1..(Len(branch) + 1) : i \in 1..Len(branch) \/ i = Len(branch) + 1
      BY <3>1
    <3>3. CommittedTreesAreWhole'
      BY <2>2, <3>1, <3>2 DEF CommittedTreesAreWhole, WInv, IsWhole, Indexes
    <3>4. \A q \in Runs : KeepsBackups(q)'
      BY <1>0, <2>1, <2>3 DEF KeepsBackups
    <3> QED
      BY <3>3, <3>4 DEF WInv
  <2> QED
    BY <1>7, <2>4, <2>5, CommitExtends
<1>8. ASSUME NEW r \in Runs, Crash(r) PROVE WInv'
  <2>1. pc'[r] = "idle" /\ branch' = branch /\ \A q \in Runs \ {r} : pc'[q] = pc[q] /\ work'[q] = work[q]
    BY <1>0, <1>8 DEF Crash
  <2>2. KeepsBackups(r)'
    BY <2>1 DEF KeepsBackups
  <2> QED
    BY <2>1, <2>2, LocalKeeps
<1>9. CASE UNCHANGED vars
  BY <1>9 DEF vars, WInv, KeepsBackups, CommittedTreesAreWhole
<1> QED
  BY <1>1, <1>2, <1>3, <1>4, <1>5, <1>6, <1>7, <1>8, <1>9 DEF Next

(* rotate_backups and persist: with the branch in place, whatever commit it   *)
(* has is a sound database under its own digest with every backup it names,   *)
(* also when a writer died between unlinking a backup and indexing the rest.  *)
THEOREM CommittedTreesAreAlwaysWhole ==
    ASSUME BranchExists PROVE Spec => []CommittedTreesAreWhole
<1>1. Init => WInv
  <2> SUFFICES ASSUME Init PROVE WInv
    OBVIOUS
  <2>1. branch = <<FirstTree>> /\ Len(branch) = 1 /\ branch[1] = FirstTree
    BY DEF Init
  <2>2. /\ FirstTree.db.file = "sound" /\ FirstTree.manifest.sha = FirstTree.db
        /\ FirstTree.manifest.backups = {}
    BY DEF FirstTree, EmptyTree, EmptyManifest, FirstDatabase
  <2>3. CommittedTreesAreWhole
    <3>1. \A i \in 1..1 : i = 1
      OBVIOUS
    <3> QED
      BY <2>1, <2>2, <3>1 DEF CommittedTreesAreWhole
  <2> QED
    BY <2>3 DEF Init, WInv, KeepsBackups
<1>2. WInv => CommittedTreesAreWhole
  BY DEF WInv
<1> QED
  BY <1>1, <1>2, Initial, Inductive, WholeInductive, PTL DEF Spec

-----------------------------------------------------------------------------
(* The refinement: what Recorded does when the branch grows by one tree. *)
LEMMA RecordedType ==
    ASSUME NEW chain \in Seq(Tree)
    PROVE  [i \in 1..Len(chain) |-> chain[i].db.runs] \in Seq(SUBSET Runs)
<1>1. ASSUME NEW i \in 1..Len(chain) PROVE chain[i].db.runs \in SUBSET Runs
  <2>1. chain[i] \in Tree
    BY ElementOfSeq
  <2>2. QED
    BY <2>1 DEF Tree, Database
<1>2. QED
  BY <1>1

LEMMA RecordedAppend ==
    ASSUME branch \in Seq(Tree), NEW tree \in Tree, branch' = Append(branch, tree)
    PROVE  Recorded' = Append(Recorded, tree.db.runs)
<1>1. Recorded \in Seq(SUBSET Runs) /\ Len(Recorded) = Len(branch)
  BY RecordedType DEF Recorded
<1>2. branch' \in Seq(Tree) /\ Len(branch') = Len(branch) + 1
  OBVIOUS
<1>3. Recorded' \in Seq(SUBSET Runs) /\ Len(Recorded') = Len(branch) + 1
  BY <1>2, RecordedType DEF Recorded
<1>4. tree.db.runs \in SUBSET Runs
  BY DEF Tree, Database
<1>5. Append(Recorded, tree.db.runs) \in Seq(SUBSET Runs)
      /\ Len(Append(Recorded, tree.db.runs)) = Len(branch) + 1
  BY <1>1, <1>4
<1>6. ASSUME NEW i \in 1..Len(Recorded')
      PROVE  Recorded'[i] = Append(Recorded, tree.db.runs)[i]
  <2>1. i \in 1..(Len(branch) + 1) /\ Recorded'[i] = branch'[i].db.runs
    BY <1>2, <1>3, <1>6 DEF Recorded
  <2>2. CASE i = Len(branch) + 1
    BY <1>1, <1>4, <2>1, <2>2
  <2>3. CASE i # Len(branch) + 1
    <3>1. i \in 1..Len(branch)
      BY <2>1, <2>3
    <3>2. Recorded[i] = branch[i].db.runs
      BY <3>1 DEF Recorded
    <3>3. branch'[i] = branch[i]
      BY <3>1
    <3>4. Append(Recorded, tree.db.runs)[i] = Recorded[i]
      BY <1>1, <1>4, <3>1
    <3>5. QED
      BY <2>1, <3>2, <3>3, <3>4
  <2>4. QED
    BY <2>2, <2>3
<1>7. QED
  BY <1>3, <1>5, <1>6, SeqEqual

(* With the branch in place the manager implements the append-only history:  *)
(* every step appends a snapshot holding all the newest one held, or stutters.*)
THEOREM RefinesLinearHistory ==
    ASSUME BranchExists PROVE Spec => ImplementsLinearHistory
<1>1. Init => History!Init
  <2> SUFFICES ASSUME Init PROVE Recorded = <<{}>>
    BY DEF History!Init
  <2>2. branch = <<FirstTree>> /\ FirstTree.db.runs = {}
    BY DEF Init, FirstTree, FirstDatabase, EmptyTree
  <2>3. QED
    BY <2>2 DEF Recorded
<1>2. IInv /\ [Next]_vars => [History!Next]_Recorded
  <2> SUFFICES ASSUME IInv, Next, branch' # branch PROVE History!Next
    BY DEF vars, Recorded
  <2>1. PICK r \in Runs : PersistCommit(r)
    BY DEF Next, Load, Record, Damage, CheckpointPendingReport,
           RotateFiles, RotateIndex, PersistCheck, Crash
  <2>2. /\ branch' = Append(branch, work[r])
        /\ Tip(branch).db.runs \subseteq work[r].db.runs
    BY <2>1, CommitExtends
  <2>3. branch \in Seq(Tree) /\ branch # <<>> /\ work[r] \in Tree
    BY DEF IInv, TypeOK
  <2>4. Recorded' = Append(Recorded, work[r].db.runs)
    BY <2>2, <2>3, RecordedAppend
  <2>5. History!Newest = Tip(branch).db.runs
    <3>1. Len(Recorded) = Len(branch) /\ Len(branch) \in Nat \ {0}
      BY <2>3 DEF Recorded
    <3>2. Recorded # <<>>
      <4>1. Recorded \in Seq(SUBSET Runs)
        BY <2>3, RecordedType DEF Recorded
      <4>2. QED
        BY <3>1, <4>1
    <3>3. Recorded[Len(branch)] = branch[Len(branch)].db.runs
      BY <3>1 DEF Recorded
    <3>4. QED
      BY <3>1, <3>2, <3>3 DEF History!Newest, Tip
  <2>6. work[r].db.runs \in SUBSET Runs
    BY <2>3 DEF Tree, Database
  <2>7. History!Publish(work[r].db.runs)
    BY <2>2, <2>4, <2>5 DEF History!Publish
  <2>8. QED
    BY <2>6, <2>7 DEF History!Next
<1>3. QED
  BY <1>1, <1>2, Initial, Inductive, PTL DEF Spec, ImplementsLinearHistory, History!Spec

-----------------------------------------------------------------------------
Budgets == [resource : Buckets \union {"none"}, remaining : Nat, search : Nat]

(* The bounds of a call relative to the attempts made so far: no more sleep   *)
(* than they can have cost, and no more resources than requests.              *)
Sleeping == slept <= attempt * BackoffMax
Creating == created <= attempt + (IF mode = "idle" THEN 1 ELSE 0)
Pending  == mode = "trying" => outcome = "none"
Bounded  == ClientTypeOK /\ Sleeping /\ Creating /\ Pending /\ LimitIsVisible

(* What an attempt makes of the server and of the budget.                     *)
Reached == /\ quota' \in [Buckets -> Nat] /\ created' \in Nat /\ created' <= created + 1
           /\ budget' \in Budgets

LEMMA BackoffBound ==
    ASSUME NEW n \in 0..MaxRetries
    PROVE  Backoff(n) \in Nat /\ Backoff(n) <= BackoffMax
<1>1. BackoffBase * 2^n \in Nat
  BY BackoffAssumption
<1> QED
  BY <1>1, ClientAssumption DEF Backoff, Smaller, ClientAssumption

LEMMA SleepGrows ==
    ASSUME NEW n \in Nat, NEW s \in Nat, NEW d \in Nat, NEW b \in Nat, s <= n * b, d <= b
    PROVE  s + d <= (n + 1) * b
<1>1. (n + 1) * b = n * b + b
  OBVIOUS
<1>2. n * b \in Nat
  OBVIOUS
<1> QED
  BY <1>1, <1>2

LEMMA SleepBounded ==
    ASSUME NEW n \in Nat, NEW m \in Nat, NEW b \in Nat, n <= m
    PROVE  n * b <= m * b
<1>1. PICK d \in Nat : m = n + d
  BY m - n \in Nat
<1>2. (n + d) * b = n * b + d * b
  OBVIOUS
<1>3. n * b \in Nat /\ d * b \in Nat
  OBVIOUS
<1> QED
  BY <1>1, <1>2, <1>3

LEMMA SendReaches ==
    ASSUME ClientTypeOK, NEW applied \in BOOLEAN, Send(applied)
    PROVE  /\ quota' \in [Buckets -> Nat] /\ created' \in Nat /\ created' <= created + 1
           /\ quota'[request.bucket] \in Nat
  BY DEF ClientTypeOK, Send

LEMMA AbsorbTyped ==
    ASSUME ClientTypeOK, NEW left \in Nat
    PROVE  Absorb(budget, left) \in Budgets
  BY DEF ClientTypeOK, Absorb, Budgets, Buckets

LEMMA AnswerReaches ==
    ASSUME ClientTypeOK, NEW applied \in BOOLEAN, Send(applied), Answered
    PROVE  Reached
<1>1. Absorb(budget, quota'[request.bucket]) \in Budgets
  BY SendReaches, AbsorbTyped
<1>2. budget \in Budgets
  BY DEF ClientTypeOK, Budgets
<1> QED
  BY <1>1, <1>2, SendReaches DEF Answered, Reached

(* A call that ends without telling a limit, and one that goes on.            *)
LEMMA EndKeeps ==
    ASSUME Bounded, Reached, mode = "trying", sticky' \in BOOLEAN,
           NEW result \in Outcomes, End(result),
           result = "rate_limited" => RateLimited'
    PROVE  Bounded'
<1>1. ClientTypeOK'
  BY DEF Bounded, ClientTypeOK, Reached, Budgets, End, Outcomes
<1>2. Sleeping'
  BY DEF Bounded, Sleeping, End
<1>3. Creating'
  BY DEF Bounded, ClientTypeOK, Creating, Reached, End
<1>4. LimitIsVisible' /\ Pending'
  BY DEF End, LimitIsVisible, Pending
<1> QED
  BY <1>1, <1>2, <1>3, <1>4 DEF Bounded

LEMMA RetryKeeps ==
    ASSUME Bounded, Reached, mode = "trying", UNCHANGED sticky,
           attempt < MaxRetries, NEW delay \in Nat, delay <= BackoffMax, Retry(delay)
    PROVE  Bounded'
<1>1. ClientTypeOK'
  BY ClientAssumption DEF Bounded, ClientTypeOK, Reached, Budgets, Retry, ClientAssumption
<1>2. Sleeping'
  <2>1. slept + delay <= (attempt + 1) * BackoffMax
    BY SleepGrows, ClientAssumption DEF Bounded, ClientTypeOK, Sleeping, ClientAssumption
  <2> QED
    BY <2>1 DEF Sleeping, Retry
<1>3. Creating'
  BY DEF Bounded, ClientTypeOK, Creating, Reached, Retry
<1>4. LimitIsVisible' /\ Pending'
  BY DEF Bounded, Retry, LimitIsVisible, Pending
<1> QED
  BY <1>1, <1>2, <1>3, <1>4 DEF Bounded

(* The last step of an attempt: sit a delay out, or give up.                  *)
LEMMA BackoffKeeps ==
    ASSUME Bounded, Reached, mode = "trying", UNCHANGED sticky, NEW failure \in {"error", "server_error"},
           IF attempt >= MaxRetries THEN End(failure) ELSE Retry(Backoff(attempt))
    PROVE  Bounded'
<1>1. CASE attempt >= MaxRetries
  BY <1>1, EndKeeps DEF Outcomes, Bounded, ClientTypeOK
<1>2. CASE ~(attempt >= MaxRetries)
  <2>1. attempt \in 0..MaxRetries /\ attempt < MaxRetries
    BY <1>2, ClientAssumption DEF Bounded, ClientTypeOK, ClientAssumption
  <2> QED
    BY <1>2, <2>1, BackoffBound, RetryKeeps
<1> QED
  BY <1>1, <1>2

LEMMA SignalKeeps ==
    ASSUME Bounded, Reached, mode = "trying",
           NEW wait \in {0, BackoffMax, BackoffMax + 1, Unknown}, SignalLimit(wait)
    PROVE  Bounded'
<1>1. CASE Worth(wait) /\ Retry(wait) /\ UNCHANGED sticky
  <2>1. wait \in Nat /\ wait <= BackoffMax
    BY <1>1, ClientAssumption DEF Worth, ClientAssumption, Unknown, Buckets
  <2> QED
    BY <1>1, <2>1, RetryKeeps DEF Worth
<1>2. CASE sticky' = TRUE /\ End("rate_limited")
  BY <1>2, EndKeeps DEF Outcomes, RateLimited
<1> QED
  BY <1>1, <1>2 DEF SignalLimit

LEMMA CallKeeps ==
    ASSUME Bounded, NEW method \in {"GET", "POST"}, NEW bucket \in Buckets, Call(method, bucket)
    PROVE  Bounded'
<1>1. ClientTypeOK'
  BY ClientAssumption DEF Bounded, ClientTypeOK, Call, ClientAssumption, Outcomes
<1>2. Sleeping'
  <2>1. 0 <= 0 * BackoffMax
    BY ClientAssumption DEF ClientAssumption
  <2> QED
    BY <2>1 DEF Call, Sleeping
<1>3. Creating' /\ Pending' /\ LimitIsVisible'
  BY DEF Call, Creating, Pending, LimitIsVisible
<1> QED
  BY <1>1, <1>2, <1>3 DEF Bounded

LEMMA AttemptKeeps ==
    ASSUME Bounded, Attempt
    PROVE  Bounded'
<1>1. Reached \/ Refuse
  <2>1. CASE LoseAnswer
    <3>1. budget' \in Budgets
      BY <2>1 DEF LoseAnswer, Bounded, ClientTypeOK, Budgets
    <3>2. CASE \E applied \in BOOLEAN : Send(applied)
      BY <3>1, <3>2, SendReaches DEF Reached, Bounded
    <3>3. CASE UNCHANGED server
      BY <3>1, <3>3 DEF Reached, Bounded, ClientTypeOK, server
    <3> QED
      BY <2>1, <3>2, <3>3 DEF LoseAnswer
  <2>2. CASE Succeed \/ Reject \/ FailServer \/ Limit
    BY <2>2, AnswerReaches DEF Bounded, Succeed, Reject, FailServer, Limit
  <2>3. CASE Exhausted
    <3>1. budget' \in Budgets
      BY <2>3, AbsorbTyped DEF Exhausted, Bounded
    <3> QED
      BY <2>3, <3>1 DEF Exhausted, Reached, Bounded, ClientTypeOK, server
  <2> QED
    BY <2>1, <2>2, <2>3 DEF Attempt
<1>2. CASE Refuse
  <2>1. Reached
    BY <1>2 DEF Refuse, Reached, Bounded, ClientTypeOK, Budgets, server
  <2>2. RateLimited'
    BY <1>2 DEF Refuse, RateLimited
  <2> QED
    BY <1>2, <2>1, <2>2, EndKeeps DEF Refuse, Outcomes, Bounded, ClientTypeOK
<1>3. ASSUME Reached, LoseAnswer \/ FailServer
      PROVE  Bounded'
  <2>1. mode = "trying" /\ UNCHANGED sticky
    BY <1>3 DEF LoseAnswer, FailServer, Send
  <2>2. \E failure \in {"error", "server_error"} :
          IF attempt >= MaxRetries THEN End(failure) ELSE Retry(Backoff(attempt))
    BY <1>3 DEF LoseAnswer, FailServer
  <2> QED
    BY <1>3, <2>1, <2>2, BackoffKeeps
<1>4. ASSUME Reached, Succeed \/ Reject
      PROVE  Bounded'
  <2>1. mode = "trying" /\ UNCHANGED sticky
    BY <1>4 DEF Succeed, Reject, Send
  <2>2. \E result \in Outcomes \ {"rate_limited"} : End(result)
    BY <1>4 DEF Succeed, Reject, Outcomes
  <2> QED
    BY <1>4, <2>1, <2>2, EndKeeps DEF Bounded, ClientTypeOK
<1>5. ASSUME Reached, Limit \/ Exhausted
      PROVE  Bounded'
  <2>1. mode = "trying"
    BY <1>5 DEF Limit, Exhausted, Send
  <2>2. \E wait \in {0, BackoffMax, BackoffMax + 1, Unknown} : SignalLimit(wait)
    BY <1>5 DEF Limit, Exhausted
  <2> QED
    BY <1>5, <2>1, <2>2, SignalKeeps
<1> QED
  BY <1>1, <1>2, <1>3, <1>4, <1>5 DEF Attempt

(* Bounded is inductive: types, the limit remembered wherever one was met,    *)
(* and the counters of a call's loop within its number of retries.            *)
THEOREM BoundedAlways == ClientSpec => []Bounded
<1>1. ClientInit => Bounded
  <2>1. ASSUME ClientInit
        PROVE  ClientTypeOK
    <3>1. Unknown \in Nat
      <4>1. Quota["core"] \in Nat /\ Quota["search"] \in Nat
        BY ClientAssumption DEF ClientAssumption, Buckets
      <4> QED
        BY <4>1, ClientAssumption DEF ClientAssumption, Unknown
    <3>2. budget \in [resource : Buckets \union {"none"}, remaining : Nat, search : Nat]
      BY <2>1, <3>1 DEF ClientInit
    <3>3. request \in [method : {"GET", "POST"}, bucket : Buckets]
      BY <2>1 DEF ClientInit, Buckets
    <3>4. mode \in {"idle", "trying"} /\ sticky \in BOOLEAN /\ outcome \in Outcomes
      BY <2>1, Zenon DEF ClientInit, Outcomes
    <3>5. attempt \in 0..MaxRetries /\ calls \in 0..MaxCalls /\ slept \in Nat /\ created \in Nat
      BY <2>1, ClientAssumption DEF ClientInit, ClientAssumption
    <3>6. quota \in [Buckets -> Nat]
      BY <2>1, ClientAssumption DEF ClientInit, ClientAssumption
    <3> QED
      BY <3>2, <3>3, <3>4, <3>5, <3>6 DEF ClientTypeOK
  <2>2. ASSUME ClientInit
        PROVE  Sleeping
    <3>1. 0 <= 0 * BackoffMax
      BY ClientAssumption DEF ClientAssumption
    <3> QED
      BY <2>2, <3>1 DEF ClientInit, Sleeping
  <2>3. ASSUME ClientInit
        PROVE  Creating /\ Pending /\ LimitIsVisible
    BY <2>3 DEF ClientInit, Creating, Pending, LimitIsVisible
  <2> QED
    BY <2>1, <2>2, <2>3 DEF Bounded
<1>2. Bounded /\ [ClientNext]_clientVars => Bounded'
  <2> SUFFICES ASSUME Bounded, [ClientNext]_clientVars
               PROVE  Bounded'
    OBVIOUS
  <2>1. CASE \E method \in {"GET", "POST"}, bucket \in Buckets : Call(method, bucket)
    BY <2>1, CallKeeps
  <2>2. CASE Attempt
    BY <2>2, AttemptKeeps
  <2>3. CASE UNCHANGED clientVars
    BY <2>3 DEF clientVars, client, server, Bounded, ClientTypeOK, Sleeping, Creating, Pending,
                LimitIsVisible, RateLimited, Zone
  <2> QED
    BY <2>1, <2>2, <2>3 DEF ClientNext
<1> QED
  BY <1>1, <1>2, PTL DEF ClientSpec

(* Every variable of the client keeps its type, for any quota, floors,        *)
(* retries and delays.                                                        *)
THEOREM ClientTypeCorrect == ClientSpec => []ClientTypeOK
<1>1. Bounded => ClientTypeOK
  BY DEF Bounded
<1> QED
  BY <1>1, BoundedAlways, PTL

(* _request's loop: whatever mix of failures and Retry-After headers a call   *)
(* meets, the sleeping and the requests of one call are bounded.              *)
THEOREM CallsAreBounded == ClientSpec => []BoundedCall
<1>1. Bounded => BoundedCall
  <2> SUFFICES ASSUME Bounded
               PROVE  BoundedCall
    OBVIOUS
  <2>1. /\ attempt \in Nat /\ MaxRetries \in Nat /\ attempt <= MaxRetries
        /\ BackoffMax \in Nat /\ slept \in Nat /\ created \in Nat
    BY ClientAssumption DEF Bounded, ClientTypeOK, ClientAssumption
  <2>2. slept <= MaxRetries * BackoffMax
    <3>1. attempt * BackoffMax <= MaxRetries * BackoffMax
      BY <2>1, SleepBounded
    <3>2. /\ attempt * BackoffMax \in Nat /\ MaxRetries * BackoffMax \in Nat
          /\ slept <= attempt * BackoffMax
      BY <2>1 DEF Bounded, Sleeping
    <3> QED
      BY <2>1, <3>1, <3>2
  <2>3. created <= attempt + 1
    BY <2>1 DEF Bounded, Creating
  <2> QED
    BY <2>2, <2>3 DEF BoundedCall
<1> QED
  BY <1>1, BoundedAlways, PTL

(* The orchestrator's polls of `rate_limited` see every limit any call met,   *)
(* also one whose exception a stage swallowed.                                *)
THEOREM LimitsStayVisible == ClientSpec => []LimitIsVisible
<1>1. Bounded => LimitIsVisible
  BY DEF Bounded
<1> QED
  BY <1>1, BoundedAlways, PTL

(* Once limited, always limited, and the server sees no request any more.     *)
THEOREM LimitsAreFinal == ClientSpec => LimitIsFinal
<1>1. [ClientNext]_clientVars => [RateLimited => RateLimited' /\ quota' = quota]_clientVars
  <2> SUFFICES ASSUME [ClientNext]_clientVars, RateLimited
               PROVE  RateLimited' /\ quota' = quota
    OBVIOUS
  <2>1. CASE \E method \in {"GET", "POST"}, bucket \in Buckets : Call(method, bucket)
    BY <2>1 DEF Call, RateLimited
  <2>2. CASE Attempt
    <3>1. ~LoseAnswer /\ ~Succeed /\ ~Reject /\ ~FailServer /\ ~Limit /\ ~Exhausted
      BY DEF LoseAnswer, Succeed, Reject, FailServer, Limit, Exhausted, Send
    <3>2. Refuse
      BY <2>2, <3>1 DEF Attempt
    <3> QED
      BY <3>2 DEF Refuse, RateLimited, server
  <2>3. CASE UNCHANGED clientVars
    BY <2>3 DEF clientVars, client, server, RateLimited, Zone
  <2> QED
    BY <2>1, <2>2, <2>3 DEF ClientNext
<1> QED
  BY <1>1, PTL DEF ClientSpec, LimitIsFinal
================================================================================
