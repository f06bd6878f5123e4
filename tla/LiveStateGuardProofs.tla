------------------------ MODULE LiveStateGuardProofs ------------------------
(***************************************************************************)
(* For any number of jobs, runs and backups, and whatever rots, is edited  *)
(* or cancelled: the published history only grows, nothing is lost while a *)
(* run is staged, what is published is whole, its backups are the states   *)
(* that were published before it, and only damage and an inherited index   *)
(* are ever refused.                                                       *)
(***************************************************************************)
EXTENDS LiveStateGuard, FiniteSetTheorems, TLAPS

IsSeq(s)     == s \in Seq(ToSet(s))
HasFields(t) == t = [db |-> t.db, manifest |-> t.manifest, archives |-> t.archives]

Staging == {"backed_up", "copied", "indexed", "staged"}
Copied  == {"copied", "indexed", "staged"}
Fresh   == {"checked_out", "ready", "ran", "backed_up"}

(* What the variables hold, as far as the proofs look at it.                  *)
Shaped ==
    /\ IsSeq(remote) /\ Len(remote) > 0
    /\ \A k \in DOMAIN remote : HasFields(remote[k])
    /\ pc \in [Jobs -> Control]
    /\ DOMAIN base = Jobs /\ DOMAIN dir = Jobs /\ DOMAIN app = Jobs /\ DOMAIN tainted = Jobs
    /\ \A j \in Jobs : HasFields(dir[j])

(* A job works on what it checked out, and stages what continues it.          *)
Working(j) ==
    /\ pc[j] \in Fresh => dir[j].db = Old(j).db
    /\ pc[j] \in Staging => Continuous(Old(j).db, app[j].db, LastRun(app[j].db))
    /\ pc[j] \in Copied => dir[j].db = app[j].db

(* The rows of a published state are finite in number, its notes have a run.  *)
Recorded(db) ==
    /\ IsFiniteSet(DOMAIN db.runs)
    /\ \A n \in DOMAIN db.notes : db.notes[n].run \in DOMAIN db.runs
Growing ==
    /\ \A k \in DOMAIN remote : Recorded(remote[k].db)
    /\ PublishedHistoryGrows
Guarded == Shaped /\ (\A j \in Jobs : Working(j)) /\ Growing

LEMMA AppendAny ==
    ASSUME NEW s, IsSeq(s), NEW x
    PROVE  /\ IsSeq(Append(s, x)) /\ Len(Append(s, x)) = Len(s) + 1 /\ Len(s) \in Nat
           /\ DOMAIN s = 1..Len(s) /\ DOMAIN Append(s, x) = 1..(Len(s) + 1)
           /\ \A i \in 1..Len(s) : Append(s, x)[i] = s[i]
           /\ Append(s, x)[Len(s) + 1] = x
<1> DEFINE S == ToSet(s) \union {x}
<1>1. s \in Seq(S) /\ x \in S
  BY DEF IsSeq
<1> HIDE DEF S
<1>2. /\ Append(s, x) \in Seq(S) /\ Len(Append(s, x)) = Len(s) + 1 /\ Len(s) \in Nat
      /\ DOMAIN s = 1..Len(s) /\ DOMAIN Append(s, x) = 1..(Len(s) + 1)
      /\ \A i \in 1..Len(s) : Append(s, x)[i] = s[i]
      /\ Append(s, x)[Len(s) + 1] = x
  BY <1>1
<1>3. \A i \in 1..Len(Append(s, x)) : Append(s, x)[i] \in ToSet(Append(s, x))
  BY <1>2 DEF ToSet
<1>4. IsSeq(Append(s, x))
  BY <1>2, <1>3 DEF IsSeq
<1> QED
  BY <1>2, <1>4

(* A row that was kept twice was kept.                                        *)
LEMMA KeptTwice ==
    ASSUME NEW old, NEW middle, NEW new, RowKept(old, middle), RowKept(middle, new)
    PROVE  RowKept(old, new)
<1>1. CASE middle = old
  BY <1>1
<1>2. CASE /\ old.report = "PENDING_REPORT"
           /\ middle = [old EXCEPT !.report = "REPORT_PUBLISHED"]
  <2>1. CASE "report" \in DOMAIN old
    BY <1>2, <2>1 DEF RowKept
  <2>2. CASE "report" \notin DOMAIN old
    <3>1. [middle EXCEPT !.report = "REPORT_PUBLISHED"] = middle
      BY <1>2, <2>2
    <3> QED
      BY <1>2, <3>1 DEF RowKept
  <2> QED
    BY <2>1, <2>2
<1> QED
  BY <1>1, <1>2 DEF RowKept

(* One database some runs later than another.                                 *)
Grown(old, new, steps) ==
    /\ Cardinality(DOMAIN new.runs) = Cardinality(DOMAIN old.runs) + steps
    /\ \A q \in DOMAIN old.runs : q \in DOMAIN new.runs /\ RowKept(old.runs[q], new.runs[q])
    /\ \A n \in DOMAIN old.notes : n \in DOMAIN new.notes /\ new.notes[n] = old.notes[n]
    /\ \A n \in DOMAIN new.notes : new.notes[n].run \in DOMAIN new.runs

LEMMA ContinuousGrows ==
    ASSUME NEW old, NEW new, NEW r, Recorded(old), Continuous(old, new, r)
    PROVE  Grown(old, new, 1) /\ Recorded(new)
<1>1. DOMAIN new.runs = DOMAIN old.runs \union {r} /\ r \notin DOMAIN old.runs
  BY DEF Continuous
<1>2. /\ IsFiniteSet(DOMAIN new.runs)
      /\ Cardinality(DOMAIN new.runs) = Cardinality(DOMAIN old.runs) + 1
  BY <1>1, FS_AddElement DEF Recorded
<1>3. \A n \in DOMAIN new.notes : new.notes[n].run \in DOMAIN new.runs
  <2> SUFFICES ASSUME NEW n \in DOMAIN new.notes
               PROVE  new.notes[n].run \in DOMAIN new.runs
    OBVIOUS
  <2>1. CASE n \in DOMAIN old.notes
    BY <2>1 DEF Continuous, Recorded
  <2>2. CASE n \notin DOMAIN old.notes
    BY <2>2 DEF Continuous
  <2> QED
    BY <2>1, <2>2
<1>4. /\ \A q \in DOMAIN old.runs : q \in DOMAIN new.runs /\ RowKept(old.runs[q], new.runs[q])
      /\ \A n \in DOMAIN old.notes : n \in DOMAIN new.notes /\ new.notes[n] = old.notes[n]
  BY DEF Continuous
<1> QED
  BY <1>2, <1>3, <1>4 DEF Grown, Recorded

LEMMA GrownTwice ==
    ASSUME NEW old, NEW middle, NEW new, NEW m \in Nat, NEW n \in Nat,
           Cardinality(DOMAIN old.runs) \in Nat, Grown(old, middle, m), Grown(middle, new, n)
    PROVE  Grown(old, new, m + n)
<1>1. Cardinality(DOMAIN new.runs) = Cardinality(DOMAIN old.runs) + (m + n)
  BY DEF Grown
<1>2. \A q \in DOMAIN old.runs : q \in DOMAIN new.runs /\ RowKept(old.runs[q], new.runs[q])
  BY KeptTwice DEF Grown
<1>3. \A k \in DOMAIN old.notes : k \in DOMAIN new.notes /\ new.notes[k] = old.notes[k]
  BY DEF Grown
<1>4. \A k \in DOMAIN new.notes : new.notes[k].run \in DOMAIN new.runs
  BY DEF Grown
<1> QED
  BY <1>1, <1>2, <1>3, <1>4 DEF Grown

LEMMA PushGrows ==
    ASSUME Growing, IsSeq(remote), Len(remote) > 0, NEW tree, NEW r,
           Continuous(Last(remote).db, tree.db, r), remote' = Append(remote, tree)
    PROVE  Growing'
<1> DEFINE n == Len(remote)
<1>1. /\ n \in Nat /\ DOMAIN remote = 1..n /\ DOMAIN remote' = 1..(n + 1)
      /\ \A i \in 1..n : remote'[i] = remote[i]
      /\ remote'[n + 1] = tree /\ Last(remote) = remote[n] /\ n \in 1..n
  BY AppendAny DEF Last
<1> HIDE DEF n
<1>2. Grown(remote[n].db, tree.db, 1) /\ Recorded(tree.db)
  BY <1>1, ContinuousGrows DEF Growing
<1>3. ASSUME NEW i \in 1..n
      PROVE  Grown(remote[i].db, tree.db, (n + 1) - i)
  <2>1. CASE i = n
    BY <1>1, <1>2, <2>1
  <2>2. CASE i # n
    <3>1. i < n /\ n - i \in Nat /\ (n - i) + 1 = (n + 1) - i
      BY <1>1, <2>2
    <3>2. Grown(remote[i].db, remote[n].db, n - i)
      BY <1>1, <3>1 DEF Growing, PublishedHistoryGrows, Grown
    <3>3. Cardinality(DOMAIN remote[i].db.runs) \in Nat
      BY <1>1, FS_CardinalityType DEF Growing, Recorded
    <3>4. Grown(remote[i].db, tree.db, (n - i) + 1)
      BY <1>2, <3>1, <3>2, <3>3, GrownTwice
    <3> QED
      BY <3>1, <3>4
  <2> QED
    BY <2>1, <2>2
<1>4. \A k \in 1..(n + 1) : k \in 1..n \/ k = n + 1
  BY <1>1
<1>5. \A k \in DOMAIN remote' : Recorded(remote'[k].db)
  BY <1>1, <1>2, <1>4 DEF Growing
<1>6. ASSUME NEW i \in 1..(n + 1), NEW k \in 1..(n + 1), i < k
      PROVE  Grown(remote'[i].db, remote'[k].db, k - i)
  <2>1. i \in 1..n
    BY <1>1, <1>6
  <2>2. CASE k \in 1..n
    <3>1. Grown(remote[i].db, remote[k].db, k - i)
      BY <1>1, <1>6, <2>1, <2>2 DEF Growing, PublishedHistoryGrows, Grown
    <3> QED
      BY <1>1, <2>1, <2>2, <3>1
  <2>3. CASE k = n + 1
    BY <1>1, <1>3, <2>1, <2>3
  <2> QED
    BY <1>4, <2>2, <2>3
<1>7. PublishedHistoryGrows'
  BY <1>1, <1>6 DEF PublishedHistoryGrows, Grown
<1> QED
  BY <1>5, <1>7 DEF Growing

-----------------------------------------------------------------------------
LEMMA GuardedInit == Init => Guarded
<1> SUFFICES ASSUME Init
             PROVE  Guarded
  OBVIOUS
<1>1. HasFields(FirstTree) /\ HasFields(EmptyTree)
  BY DEF FirstTree, EmptyTree, HasFields
<1>2. Recorded(FirstTree.db)
  <2>1. IsFiniteSet({}) /\ IsFiniteSet({1})
    BY FS_EmptySet, FS_Singleton
  <2>2. CASE StartsEmpty
    BY <2>1, <2>2 DEF FirstTree, EmptyTree, NoDatabase, Recorded
  <2>3. CASE ~StartsEmpty
    <3>1. /\ DOMAIN FirstDatabase.runs = {1} /\ DOMAIN FirstDatabase.notes = {1}
          /\ FirstDatabase.notes[1].run = 1
      BY DEF FirstDatabase, Put, Note
    <3>2. FirstTree.db = FirstDatabase
      BY <2>3 DEF FirstTree
    <3> QED
      BY <2>1, <3>1, <3>2 DEF Recorded
  <2> QED
    BY <2>2, <2>3
<1>3. remote = <<FirstTree>> /\ Len(remote) = 1 /\ DOMAIN remote = {1} /\ remote[1] = FirstTree
  BY DEF Init
<1>4. IsSeq(remote)
  BY <1>3 DEF IsSeq, ToSet
<1>5. Shaped
  BY <1>1, <1>3, <1>4 DEF Init, Shaped, Control
<1>6. Growing
  BY <1>2, <1>3 DEF Growing, PublishedHistoryGrows
<1>7. \A j \in Jobs : Working(j)
  BY DEF Init, Working, Fresh, Staging, Copied
<1> QED
  BY <1>5, <1>6, <1>7 DEF Guarded

(* A step of one job that leaves its checkout and its app directory alone.    *)
LEMMA MoveOn ==
    ASSUME Guarded, NEW j \in Jobs, NEW place \in Control, Goto(j, place),
           UNCHANGED <<remote, base, dir, app>>, DOMAIN tainted' = Jobs,
           place \in Fresh => pc[j] \in Fresh,
           place \in Staging => pc[j] \in Staging,
           place \in Copied => pc[j] \in Copied
    PROVE  Guarded'
<1>1. pc' \in [Jobs -> Control] /\ pc'[j] = place /\ (\A i \in Jobs \ {j} : pc'[i] = pc[i])
  BY DEF Goto, Guarded, Shaped
<1>2. Shaped'
  BY <1>1 DEF Guarded, Shaped
<1>3. Growing'
  BY DEF Guarded, Growing, PublishedHistoryGrows
<1>4. ASSUME NEW i \in Jobs
      PROVE  Working(i)'
  <2>1. Working(i)
    BY DEF Guarded
  <2>2. CASE i = j
    BY <1>1, <2>1, <2>2 DEF Working, Old
  <2>3. CASE i # j
    BY <1>1, <2>1, <2>3 DEF Working, Old
  <2> QED
    BY <2>2, <2>3
<1> QED
  BY <1>2, <1>3, <1>4 DEF Guarded

(* A step of one job on its own directories.                                  *)
LEMMA WorkOn ==
    ASSUME Guarded, NEW j \in Jobs, pc' \in [Jobs -> Control],
           DOMAIN base' = Jobs, DOMAIN dir' = Jobs, DOMAIN app' = Jobs, DOMAIN tainted' = Jobs,
           HasFields(dir'[j]), remote' = remote, Working(j)',
           \A i \in Jobs \ {j} :
             pc'[i] = pc[i] /\ base'[i] = base[i] /\ dir'[i] = dir[i] /\ app'[i] = app[i]
    PROVE  Guarded'
<1>1. Shaped'
  BY DEF Guarded, Shaped
<1>2. Growing'
  BY DEF Guarded, Growing, PublishedHistoryGrows
<1>3. ASSUME NEW i \in Jobs \ {j}
      PROVE  Working(i)'
  BY <1>3 DEF Guarded, Working, Old
<1> QED
  BY <1>1, <1>2, <1>3 DEF Guarded

LEMMA GuardedStep ==
    ASSUME Guarded, NEW j \in Jobs,
           \/ Checkout(j) \/ Preflight(j) \/ RunPipeline(j) \/ Rot(j) \/ StageBackup(j)
           \/ StageDatabase(j) \/ StageManifest(j) \/ StageRotate(j) \/ Push(j) \/ End(j)
    PROVE  Guarded'
<1> USE DEF Fresh, Staging, Copied
<1>s. /\ Shaped /\ Working(j) /\ pc[j] \in Control /\ HasFields(dir[j])
      /\ DOMAIN base = Jobs /\ DOMAIN dir = Jobs /\ DOMAIN app = Jobs /\ DOMAIN tainted = Jobs
  BY DEF Guarded, Shaped
<1>t. ASSUME NEW place \in Control, Goto(j, place)
      PROVE  pc' \in [Jobs -> Control] /\ pc'[j] = place /\ (\A i \in Jobs \ {j} : pc'[i] = pc[i])
  BY <1>t, <1>s DEF Shaped, Goto
<1>1. CASE Checkout(j)
  <2>1. HasFields(Last(remote))
    BY AppendAny DEF Guarded, Shaped, Last
  <2>2. pc' \in [Jobs -> Control] /\ pc'[j] = "checked_out" /\ (\A i \in Jobs \ {j} : pc'[i] = pc[i])
    BY <1>1, <1>t DEF Checkout, Control
  <2>3. Working(j)'
    BY <1>1, <1>s, <2>2 DEF Checkout, Working, Old
  <2> QED
    BY <1>1, <1>s, <2>1, <2>2, <2>3, WorkOn DEF Checkout
<1>2. CASE Preflight(j)
  <2>1. PICK place \in {"ready", "refused"} : Goto(j, place)
    BY <1>2 DEF Preflight
  <2> QED
    BY <1>2, <1>s, <2>1, MoveOn DEF Preflight, Control
<1>3. CASE RunPipeline(j)
  <2>1. pc' \in [Jobs -> Control] /\ pc'[j] = "ran" /\ (\A i \in Jobs \ {j} : pc'[i] = pc[i])
    BY <1>3, <1>t DEF RunPipeline, Control
  <2>2. /\ UNCHANGED <<remote, base, dir>> /\ DOMAIN app' = Jobs /\ DOMAIN tainted' = Jobs
        /\ \A i \in Jobs \ {j} : app'[i] = app[i]
    BY <1>3, <1>s DEF RunPipeline
  <2>3. Working(j)'
    BY <1>3, <1>s, <2>1, <2>2 DEF RunPipeline, Working, Old
  <2> QED
    BY <1>s, <2>1, <2>2, <2>3, WorkOn
<1>4. CASE Rot(j)
  <2>1. /\ UNCHANGED <<remote, pc, base, app>> /\ DOMAIN tainted' = Jobs
        /\ DOMAIN dir' = Jobs /\ (\A i \in Jobs \ {j} : dir'[i] = dir[i])
        /\ dir'[j].db = dir[j].db /\ HasFields(dir'[j])
    BY <1>4, <1>s DEF Rot, HasFields
  <2>2. Working(j)'
    BY <1>s, <2>1 DEF Working, Old
  <2> QED
    BY <1>s, <2>1, <2>2, WorkOn DEF Shaped
<1>5. CASE StageBackup(j)
  <2>1. CASE Stageable(j)
    <3>1. pc' \in [Jobs -> Control] /\ pc'[j] = "backed_up" /\ (\A i \in Jobs \ {j} : pc'[i] = pc[i])
      BY <1>5, <2>1, <1>t DEF StageBackup, Control
    <3>2. /\ UNCHANGED <<remote, base, app, tainted>>
          /\ DOMAIN dir' = Jobs /\ (\A i \in Jobs \ {j} : dir'[i] = dir[i])
          /\ dir'[j].db = dir[j].db /\ HasFields(dir'[j])
      BY <1>5, <1>s, <2>1 DEF StageBackup, HasFields
    <3>3. Continuous(dir[j].db, app[j].db, LastRun(app[j].db)) /\ dir[j].db = Old(j).db
      BY <1>5, <1>s, <2>1 DEF StageBackup, Stageable, Working
    <3>4. Working(j)'
      BY <3>1, <3>2, <3>3 DEF Working, Old
    <3> QED
      BY <1>s, <3>1, <3>2, <3>4, WorkOn
  <2>2. CASE ~Stageable(j)
    BY <1>5, <1>s, <2>2, MoveOn DEF StageBackup, Control
  <2> QED
    BY <2>1, <2>2
<1>6. CASE StageDatabase(j)
  <2>1. CASE Restores(dir[j], ArchiveName(j))
    <3>1. pc' \in [Jobs -> Control] /\ pc'[j] = "copied" /\ (\A i \in Jobs \ {j} : pc'[i] = pc[i])
      BY <1>6, <2>1, <1>t DEF StageDatabase, Control
    <3>2. /\ UNCHANGED <<remote, base, app, tainted>>
          /\ DOMAIN dir' = Jobs /\ (\A i \in Jobs \ {j} : dir'[i] = dir[i])
          /\ dir'[j].db = app[j].db /\ HasFields(dir'[j])
      BY <1>6, <1>s, <2>1 DEF StageDatabase, HasFields
    <3>3. Working(j)'
      BY <1>6, <1>s, <3>1, <3>2 DEF StageDatabase, Working, Old
    <3> QED
      BY <1>s, <3>1, <3>2, <3>3, WorkOn
  <2>2. CASE ~Restores(dir[j], ArchiveName(j))
    BY <1>6, <1>s, <2>2, MoveOn DEF StageDatabase, Control
  <2> QED
    BY <2>1, <2>2
<1>7. CASE StageManifest(j)
  <2>1. pc' \in [Jobs -> Control] /\ pc'[j] = "indexed" /\ (\A i \in Jobs \ {j} : pc'[i] = pc[i])
    BY <1>7, <1>t DEF StageManifest, Control
  <2>2. /\ UNCHANGED <<remote, base, app, tainted>>
        /\ DOMAIN dir' = Jobs /\ (\A i \in Jobs \ {j} : dir'[i] = dir[i])
        /\ dir'[j].db = dir[j].db /\ HasFields(dir'[j])
    BY <1>7, <1>s DEF StageManifest, HasFields
  <2>3. Working(j)'
    BY <1>7, <1>s, <2>1, <2>2 DEF StageManifest, Working, Old
  <2> QED
    BY <1>s, <2>1, <2>2, <2>3, WorkOn
<1>8. CASE StageRotate(j)
  <2>1. CASE Verified(dir[j], TRUE) /\ LastRun(dir[j].db) = LastRun(app[j].db)
    <3>1. pc' \in [Jobs -> Control] /\ pc'[j] = "staged" /\ (\A i \in Jobs \ {j} : pc'[i] = pc[i])
      BY <1>8, <2>1, <1>t DEF StageRotate, Control
    <3>2. /\ UNCHANGED <<remote, base, app, tainted>>
          /\ DOMAIN dir' = Jobs /\ (\A i \in Jobs \ {j} : dir'[i] = dir[i])
          /\ dir'[j].db = dir[j].db /\ HasFields(dir'[j])
      BY <1>8, <1>s, <2>1 DEF StageRotate, HasFields
    <3>3. Working(j)'
      BY <1>8, <1>s, <3>1, <3>2 DEF StageRotate, Working, Old
    <3> QED
      BY <1>s, <3>1, <3>2, <3>3, WorkOn
  <2>2. CASE ~(Verified(dir[j], TRUE) /\ LastRun(dir[j].db) = LastRun(app[j].db))
    BY <1>8, <1>s, <2>2, MoveOn DEF StageRotate, Control
  <2> QED
    BY <2>1, <2>2
<1>9. CASE Push(j)
  <2>1. CASE remote' = remote
    <3>1. PICK place \in {"refused", "rejected", "pushed"} : Goto(j, place)
      BY <1>9 DEF Push
    <3> QED
      BY <1>9, <1>s, <2>1, <3>1, MoveOn DEF Push, Control
  <2>2. CASE FastForward(j) /\ remote' = Append(base[j], dir[j]) /\ Goto(j, "pushed")
    <3>1. /\ remote' = Append(remote, dir[j]) /\ Old(j) = Last(remote)
          /\ Continuous(Last(remote).db, dir[j].db, LastRun(app[j].db))
      BY <1>9, <1>s, <2>2 DEF Push, FastForward, Old, Working
    <3>2. Growing'
      BY <3>1, PushGrows DEF Guarded, Shaped
    <3>3. IsSeq(remote') /\ Len(remote') > 0 /\ (\A k \in DOMAIN remote' : HasFields(remote'[k]))
      BY <1>s, <3>1, AppendAny DEF Shaped
    <3>4. pc' \in [Jobs -> Control] /\ pc'[j] = "pushed" /\ (\A i \in Jobs \ {j} : pc'[i] = pc[i])
      BY <2>2, <1>t DEF Control
    <3>5. UNCHANGED <<base, dir, app, tainted>>
      BY <1>9 DEF Push
    <3>6. Shaped'
      BY <1>s, <3>3, <3>4, <3>5 DEF Shaped
    <3>7. \A i \in Jobs : Working(i)'
      BY <3>4, <3>5 DEF Guarded, Working, Old
    <3> QED
      BY <3>2, <3>6, <3>7 DEF Guarded
  <2> QED
    BY <1>9, <2>1, <2>2 DEF Push
<1>10. CASE End(j)
  <2>1. pc' \in [Jobs -> Control] /\ pc'[j] = "idle" /\ (\A i \in Jobs \ {j} : pc'[i] = pc[i])
    BY <1>10, <1>t DEF End, Control
  <2>2. Working(j)'
    BY <2>1 DEF Working
  <2>3. HasFields(EmptyTree)
    BY DEF EmptyTree, HasFields
  <2> QED
    BY <1>10, <1>s, <2>1, <2>2, <2>3, WorkOn DEF End
<1> QED
  BY <1>1, <1>2, <1>3, <1>4, <1>5, <1>6, <1>7, <1>8, <1>9, <1>10

(* _verify_history_continuity and the push without force: of what is          *)
(* published no run and no note is lost, added without its run or rewritten,  *)
(* over any number of cycles and whatever the app directory was turned into.  *)
THEOREM PublishedHistoryAlwaysGrows == Spec => []PublishedHistoryGrows
<1>1. Guarded /\ [Next]_vars => Guarded'
  <2>1. ASSUME Guarded, UNCHANGED vars
        PROVE  Guarded'
    BY <2>1 DEF vars, Guarded, Shaped, Working, Old, Growing, PublishedHistoryGrows
  <2> QED
    BY <2>1, GuardedStep DEF Next
<1>2. Guarded => PublishedHistoryGrows
  BY DEF Guarded, Growing
<1> QED
  BY <1>1, <1>2, GuardedInit, PTL DEF Spec

-----------------------------------------------------------------------------
(* The archive of the old database, once written: nothing but damage takes it *)
(* away, for its name is new and the youngest.                                *)
Indexed(t) == IsSeq(t.manifest.backups)
Archived(j) ==
    /\ pc[j] \in Fresh \union {"copied"} => dir[j].manifest = Old(j).manifest
    /\ pc[j] # "idle" => Indexed(Old(j))
    /\ pc[j] \in Staging => ArchiveName(j) \notin ToSet(Old(j).manifest.backups)
    /\ pc[j] \in Staging /\ ~tainted[j] =>
         ArchiveName(j) \in DOMAIN dir[j].archives /\ dir[j].archives[ArchiveName(j)] = Old(j).db
Restorable(j) ==
    pc[j] # "idle" /\ ~tainted[j] =>
        \/ dir[j].db = Old(j).db
        \/ \E name \in DOMAIN dir[j].archives : dir[j].archives[name] = Old(j).db
Safe == /\ \A k \in DOMAIN remote : Indexed(remote[k])
        /\ \A j \in Jobs : Archived(j) /\ Restorable(j)
        /\ \A j \in Jobs : Indexed(dir[j])

LEMMA YoungestIsASequence ==
    ASSUME NEW names, IsSeq(names)
    PROVE  IsSeq(Youngest(names))
<1> DEFINE S == ToSet(names)  first == Len(names) + 1 - Cardinality(Retained(names))
           y == Youngest(names)
<1>1. names \in Seq(S) /\ Len(names) \in Nat /\ DOMAIN names = 1..Len(names)
  BY DEF IsSeq
<1>2. first \in 1..(Len(names) + 1)
  <2>1. IsFiniteSet(DOMAIN names) /\ Cardinality(DOMAIN names) = Len(names)
    <3>1. IsFiniteSet(1..Len(names)) /\ Cardinality(1..Len(names)) = IF 1 > Len(names) THEN 0 ELSE Len(names) - 1 + 1
      BY <1>1, FS_Interval
    <3> QED
      BY <1>1, <3>1
  <2>2. Retained(names) \subseteq DOMAIN names
    BY DEF Retained
  <2>3. Cardinality(Retained(names)) \in Nat /\ Cardinality(Retained(names)) <= Len(names)
    BY <2>1, <2>2, FS_Subset, FS_CardinalityType
  <2> QED
    BY <1>1, <2>3
<1>3. y = SubSeq(names, first, Len(names))
  BY DEF Youngest
<1> HIDE DEF S, first, y
<1>4. y \in Seq(S)
  BY <1>1, <1>2, <1>3
<1>5. \A i \in 1..Len(y) : y[i] \in ToSet(y)
  BY <1>4 DEF ToSet
<1>6. IsSeq(y)
  BY <1>4, <1>5 DEF IsSeq
<1> QED
  BY <1>6 DEF y

(* The newest name is not rotated away.                                       *)
LEMMA NewestIsKept ==
    ASSUME NEW names, IsSeq(names), NEW newest, newest \notin ToSet(names)
    PROVE  newest \notin Stale(Append(names, newest))
<1> DEFINE all == Append(names, newest)
<1>1. /\ Len(names) \in Nat /\ Len(all) = Len(names) + 1 /\ DOMAIN all = 1..(Len(names) + 1)
      /\ DOMAIN names = 1..Len(names)
      /\ \A i \in 1..Len(names) : all[i] = names[i]
  BY AppendAny
<1> HIDE DEF all
<1>2. ASSUME NEW i \in DOMAIN all \ Retained(all)
      PROVE  all[i] # newest
  <2>1. i + MaxBackups <= Len(all) /\ i \in 1..(Len(names) + 1)
    BY <1>1, <1>2, GuardAssumption DEF Retained, GuardAssumption
  <2>2. i \in 1..Len(names)
    BY <1>1, <2>1, GuardAssumption DEF GuardAssumption
  <2>3. names[i] \in ToSet(names)
    BY <1>1, <2>2 DEF ToSet
  <2> QED
    BY <1>1, <2>2, <2>3
<1>3. newest \notin Stale(all)
  BY <1>2 DEF Stale
<1> QED
  BY <1>3 DEF all

LEMMA SafeInit == Init => Safe
<1> SUFFICES ASSUME Init
             PROVE  Safe
  OBVIOUS
<1>1. Indexed(FirstTree) /\ Indexed(EmptyTree)
  <2>1. FirstTree.manifest.backups = <<>> /\ EmptyTree.manifest.backups = <<>>
    BY DEF FirstTree, EmptyTree, NoManifest, ManifestOf
  <2> QED
    BY <2>1 DEF Indexed, IsSeq
<1> QED
  BY <1>1 DEF Init, Safe, Archived, Restorable, Fresh, Staging

LEMMA SafeOthers ==
    ASSUME Safe, NEW j \in Jobs, NEW i \in Jobs \ {j},
           pc'[i] = pc[i] /\ base'[i] = base[i] /\ dir'[i] = dir[i] /\ app'[i] = app[i],
           tainted'[i] = tainted[i]
    PROVE  Archived(i)' /\ Restorable(i)' /\ Indexed(dir'[i])
<1>1. Archived(i) /\ Restorable(i) /\ Indexed(dir[i])
  BY DEF Safe
<1>2. Old(i)' = Old(i) /\ ArchiveName(i)' = ArchiveName(i)
  BY DEF Old, ArchiveName
<1> QED
  BY <1>1, <1>2 DEF Archived, Restorable

(* A step that leaves the commit, the run and the checkout of a job alone.    *)
LEMMA SafeMoveOn ==
    ASSUME Safe, NEW j \in Jobs, pc[j] # "idle", UNCHANGED <<base, app, dir>>,
           tainted'[j] = tainted[j], pc'[j] \in {"ready", "refused", "rejected", "pushed"},
           pc'[j] = "ready" => pc[j] \in Fresh
    PROVE  Archived(j)' /\ Restorable(j)' /\ Indexed(dir'[j])
<1>1. Archived(j) /\ Restorable(j) /\ Indexed(dir[j])
  BY DEF Safe
<1>2. Old(j)' = Old(j)
  BY DEF Old
<1> QED
  BY <1>1, <1>2 DEF Archived, Restorable, Fresh, Staging

LEMMA SafeStep ==
    ASSUME Guarded, Safe, NEW j \in Jobs,
           \/ Checkout(j) \/ Preflight(j) \/ RunPipeline(j) \/ Rot(j) \/ StageBackup(j)
           \/ StageDatabase(j) \/ StageManifest(j) \/ StageRotate(j) \/ Push(j) \/ End(j)
    PROVE  Safe'
<1> USE DEF Fresh, Staging
<1>s. /\ Archived(j) /\ Restorable(j) /\ Indexed(dir[j]) /\ Working(j) /\ HasFields(dir[j])
      /\ DOMAIN base = Jobs /\ DOMAIN dir = Jobs /\ DOMAIN app = Jobs /\ DOMAIN tainted = Jobs
      /\ DOMAIN pc = Jobs
  BY DEF Safe, Guarded, Shaped
<1>q. ASSUME Archived(j)', Restorable(j)', Indexed(dir'[j]), remote' = remote,
             \A i \in Jobs \ {j} : /\ pc'[i] = pc[i] /\ base'[i] = base[i] /\ dir'[i] = dir[i]
                                   /\ app'[i] = app[i] /\ tainted'[i] = tainted[i]
      PROVE  Safe'
  BY <1>q, SafeOthers DEF Safe
<1>1. CASE Checkout(j)
  <2>1. Indexed(Last(remote))
    BY AppendAny DEF Guarded, Shaped, Safe, Last
  <2>2. pc'[j] = "checked_out" /\ dir'[j] = Last(remote) /\ Old(j)' = Last(remote)
    BY <1>1, <1>s DEF Checkout, Goto, Old
  <2>3. Archived(j)' /\ Restorable(j)' /\ Indexed(dir'[j])
    BY <2>1, <2>2 DEF Archived, Restorable
  <2> QED
    BY <1>1, <1>s, <1>q, <2>3 DEF Checkout, Goto
<1>2. CASE Preflight(j)
  <2>1. pc'[j] \in {"ready", "refused"}
    BY <1>2, <1>s DEF Preflight, Goto
  <2>2. Archived(j)' /\ Restorable(j)' /\ Indexed(dir'[j])
    BY <1>2, <2>1, SafeMoveOn DEF Preflight
  <2> QED
    BY <1>2, <1>s, <1>q, <2>2 DEF Preflight, Goto
<1>3. CASE RunPipeline(j)
  <2>1. /\ UNCHANGED <<remote, base, dir>> /\ pc'[j] = "ran"
        /\ \A i \in Jobs \ {j} : pc'[i] = pc[i] /\ app'[i] = app[i] /\ tainted'[i] = tainted[i]
    BY <1>3, <1>s DEF RunPipeline, Goto
  <2>2. Old(j)' = Old(j) /\ pc[j] = "ready" /\ dir[j].db = Old(j).db
    BY <1>3, <1>s, <2>1 DEF RunPipeline, Old, Working
  <2>3. Archived(j)' /\ Restorable(j)' /\ Indexed(dir'[j])
    BY <1>s, <2>1, <2>2 DEF Archived, Restorable
  <2> QED
    BY <1>q, <2>1, <2>3
<1>4. CASE Rot(j)
  <2>1. /\ UNCHANGED <<remote, pc, base, app>> /\ tainted'[j] = TRUE
        /\ \A i \in Jobs \ {j} : dir'[i] = dir[i] /\ tainted'[i] = tainted[i]
        /\ dir'[j].manifest = dir[j].manifest
    BY <1>4, <1>s DEF Rot, HasFields
  <2>2. Old(j)' = Old(j) /\ ArchiveName(j)' = ArchiveName(j)
    BY <2>1 DEF Old, ArchiveName
  <2>3. Archived(j)' /\ Restorable(j)' /\ Indexed(dir'[j])
    BY <1>s, <2>1, <2>2 DEF Archived, Restorable, Indexed
  <2> QED
    BY <1>q, <2>1, <2>3
<1>5. CASE StageBackup(j)
  <2>1. CASE Stageable(j)
    <3>1. /\ UNCHANGED <<remote, base, app, tainted>> /\ pc'[j] = "backed_up" /\ pc[j] = "ran"
          /\ \A i \in Jobs \ {j} : pc'[i] = pc[i] /\ dir'[i] = dir[i]
          /\ dir'[j].manifest = dir[j].manifest /\ dir'[j].db = dir[j].db
          /\ dir'[j].archives = Put(dir[j].archives, ArchiveName(j), dir[j].db)
      BY <1>5, <1>s, <2>1 DEF StageBackup, Goto, HasFields
    <3>2. Old(j)' = Old(j) /\ ArchiveName(j)' = ArchiveName(j)
      BY <3>1 DEF Old, ArchiveName
    <3>3. dir[j].db = Old(j).db /\ dir[j].manifest = Old(j).manifest
      BY <1>s, <3>1 DEF Working, Archived
    <3>4. /\ ArchiveName(j) \in DOMAIN dir'[j].archives
          /\ dir'[j].archives[ArchiveName(j)] = Old(j).db
      BY <3>1, <3>3 DEF Put
    <3>5. ArchiveName(j) \notin ToSet(Old(j).manifest.backups)
      <4>1. \A i \in DOMAIN dir[j].manifest.backups : dir[j].manifest.backups[i] \in DOMAIN dir[j].archives
        BY <2>1 DEF Stageable, Verified, Restores
      <4>2. ArchiveName(j) \notin DOMAIN dir[j].archives
        BY <2>1 DEF Stageable
      <4> QED
        BY <3>3, <4>1, <4>2 DEF ToSet
    <3>6. Archived(j)' /\ Restorable(j)' /\ Indexed(dir'[j])
      BY <1>s, <3>1, <3>2, <3>3, <3>4, <3>5 DEF Archived, Restorable, Indexed
    <3> QED
      BY <1>q, <3>1, <3>6
  <2>2. CASE ~Stageable(j)
    <3>1. Archived(j)' /\ Restorable(j)' /\ Indexed(dir'[j])
      BY <1>5, <1>s, <2>2, SafeMoveOn DEF StageBackup, Goto
    <3> QED
      BY <1>5, <1>s, <1>q, <2>2, <3>1 DEF StageBackup, Goto
  <2> QED
    BY <2>1, <2>2
<1>6. CASE StageDatabase(j)
  <2>1. CASE Restores(dir[j], ArchiveName(j))
    <3>1. /\ UNCHANGED <<remote, base, app, tainted>> /\ pc'[j] = "copied" /\ pc[j] = "backed_up"
          /\ \A i \in Jobs \ {j} : pc'[i] = pc[i] /\ dir'[i] = dir[i]
          /\ dir'[j].manifest = dir[j].manifest /\ dir'[j].archives = dir[j].archives
      BY <1>6, <1>s, <2>1 DEF StageDatabase, Goto, HasFields
    <3>2. Old(j)' = Old(j) /\ ArchiveName(j)' = ArchiveName(j)
      BY <3>1 DEF Old, ArchiveName
    <3>3. Archived(j)' /\ Restorable(j)' /\ Indexed(dir'[j])
      BY <1>s, <3>1, <3>2 DEF Archived, Restorable, Indexed
    <3> QED
      BY <1>q, <3>1, <3>3
  <2>2. CASE ~Restores(dir[j], ArchiveName(j))
    <3>1. Archived(j)' /\ Restorable(j)' /\ Indexed(dir'[j])
      BY <1>6, <1>s, <2>2, SafeMoveOn DEF StageDatabase, Goto
    <3> QED
      BY <1>6, <1>s, <1>q, <2>2, <3>1 DEF StageDatabase, Goto
  <2> QED
    BY <2>1, <2>2
<1>7. CASE StageManifest(j)
  <2>1. /\ UNCHANGED <<remote, base, app, tainted>> /\ pc'[j] = "indexed" /\ pc[j] = "copied"
        /\ \A i \in Jobs \ {j} : pc'[i] = pc[i] /\ dir'[i] = dir[i]
        /\ dir'[j].archives = dir[j].archives
        /\ dir'[j].manifest = [app[j].manifest EXCEPT !.backups = Youngest(AllBackups(j))]
    BY <1>7, <1>s DEF StageManifest, Goto, HasFields
  <2>2. Old(j)' = Old(j) /\ ArchiveName(j)' = ArchiveName(j)
    BY <2>1 DEF Old, ArchiveName
  <2>3. Indexed(dir'[j])
    <3>1. IsSeq(AllBackups(j))
      BY <1>s, <2>1, AppendAny DEF AllBackups, Archived, Indexed
    <3>2. IsSeq(Youngest(AllBackups(j)))
      BY <3>1, YoungestIsASequence
    <3> QED
      BY <2>1, <3>2 DEF Indexed
  <2>4. Archived(j)' /\ Restorable(j)'
    BY <1>s, <2>1, <2>2 DEF Archived, Restorable
  <2> QED
    BY <1>q, <2>1, <2>3, <2>4
<1>8. CASE StageRotate(j)
  <2>1. CASE Verified(dir[j], TRUE) /\ LastRun(dir[j].db) = LastRun(app[j].db)
    <3>1. /\ UNCHANGED <<remote, base, app, tainted>> /\ pc'[j] = "staged" /\ pc[j] = "indexed"
          /\ \A i \in Jobs \ {j} : pc'[i] = pc[i] /\ dir'[i] = dir[i]
          /\ dir'[j].manifest = dir[j].manifest
          /\ dir'[j].archives = Restrict(dir[j].archives, DOMAIN dir[j].archives \ Stale(AllBackups(j)))
      BY <1>8, <1>s, <2>1 DEF StageRotate, Goto, HasFields
    <3>2. Old(j)' = Old(j) /\ ArchiveName(j)' = ArchiveName(j)
      BY <3>1 DEF Old, ArchiveName
    <3>3. ArchiveName(j) \notin Stale(AllBackups(j))
      BY <1>s, <3>1, NewestIsKept DEF AllBackups, Archived, Indexed
    <3>4. Archived(j)' /\ Restorable(j)'
      BY <1>s, <3>1, <3>2, <3>3 DEF Archived, Restorable, Restrict
    <3>5. Indexed(dir'[j])
      BY <1>s, <3>1 DEF Indexed
    <3> QED
      BY <1>q, <3>1, <3>4, <3>5
  <2>2. CASE ~(Verified(dir[j], TRUE) /\ LastRun(dir[j].db) = LastRun(app[j].db))
    <3>1. Archived(j)' /\ Restorable(j)' /\ Indexed(dir'[j])
      BY <1>8, <1>s, <2>2, SafeMoveOn DEF StageRotate, Goto
    <3> QED
      BY <1>8, <1>s, <1>q, <2>2, <3>1 DEF StageRotate, Goto
  <2> QED
    BY <2>1, <2>2
<1>9. CASE Push(j)
  <2>1. /\ UNCHANGED <<base, dir, app, tainted>> /\ pc'[j] \in {"refused", "rejected", "pushed"}
        /\ \A i \in Jobs \ {j} : pc'[i] = pc[i]
        /\ remote' = remote \/ remote' = Append(remote, dir[j])
    BY <1>9, <1>s DEF Push, Goto, FastForward
  <2>2. pc[j] = "staged"
    BY <1>9 DEF Push
  <2>3. Archived(j)' /\ Restorable(j)' /\ Indexed(dir'[j])
    BY <2>1, <2>2, SafeMoveOn
  <2>4. \A k \in DOMAIN remote' : Indexed(remote'[k])
    BY <1>s, <2>1, AppendAny DEF Safe, Guarded, Shaped
  <2> QED
    BY <2>1, <2>3, <2>4, SafeOthers DEF Safe
<1>10. CASE End(j)
  <2>1. pc'[j] = "idle" /\ dir'[j] = EmptyTree
    BY <1>10, <1>s DEF End, Goto
  <2>2. Archived(j)' /\ Restorable(j)'
    BY <2>1 DEF Archived, Restorable
  <2>3. Indexed(dir'[j])
    <3>1. EmptyTree.manifest.backups = <<>>
      BY DEF EmptyTree, NoManifest
    <3> QED
      BY <2>1, <3>1 DEF Indexed, IsSeq
  <2> QED
    BY <1>10, <1>s, <1>q, <2>2, <2>3 DEF End, Goto
<1> QED
  BY <1>1, <1>2, <1>3, <1>4, <1>5, <1>6, <1>7, <1>8, <1>9, <1>10

(* stage_live: at every point of staging, also where it is cancelled or       *)
(* refused, the history of before can be gone back to, for any number of      *)
(* backups kept.                                                              *)
THEOREM NothingIsEverLostWhileStaging == Spec => []NothingLostWhileStaging
<1>1. Guarded /\ Safe /\ [Next]_vars => Guarded' /\ Safe'
  <2>1. ASSUME Guarded, Safe, UNCHANGED vars
        PROVE  Guarded' /\ Safe'
    BY <2>1 DEF vars, Guarded, Shaped, Working, Old, Growing, PublishedHistoryGrows,
                Safe, Archived, Restorable, ArchiveName
  <2> QED
    BY <2>1, GuardedStep, SafeStep DEF Next
<1>2. Safe => NothingLostWhileStaging
  BY DEF Safe, Restorable, NothingLostWhileStaging
<1> QED
  BY <1>1, <1>2, GuardedInit, SafeInit, PTL DEF Spec

-----------------------------------------------------------------------------
(* The rotation: the last MaxBackups names stay, in their order, and are      *)
(* exactly those that are not stale.                                          *)
LEMMA YoungestAre ==
    ASSUME NEW names, IsSeq(names)
    PROVE  /\ Len(names) \in Nat /\ DOMAIN names = 1..Len(names)
           /\ Len(Youngest(names)) = IF Len(names) < MaxBackups THEN Len(names) ELSE MaxBackups
           /\ DOMAIN Youngest(names) = 1..Len(Youngest(names))
           /\ \A i \in 1..Len(Youngest(names)) :
                Youngest(names)[i] = names[Len(names) - Len(Youngest(names)) + i]
<1> DEFINE S == ToSet(names)
           n == Len(names)
           first == IF n < MaxBackups THEN 1 ELSE n - MaxBackups + 1
           y == Youngest(names)
<1>1. names \in Seq(S) /\ n \in Nat /\ DOMAIN names = 1..n
  BY DEF IsSeq
<1>2. MaxBackups \in 1..10
  BY GuardAssumption DEF GuardAssumption
<1>3. first \in 1..(n + 1) /\ (n > 0 => first <= n)
  BY <1>1, <1>2
<1>4. Retained(names) = first..n
  BY <1>1, <1>2 DEF Retained
<1>5. Cardinality(Retained(names)) = IF first > n THEN 0 ELSE n - first + 1
  <2> HIDE DEF n, first
  <2>1. Cardinality(first..n) = IF first > n THEN 0 ELSE n - first + 1
    BY <1>1, <1>3, FS_Interval
  <2> QED
    BY <1>4, <2>1
<1>6. y = SubSeq(names, first, n)
  <2>1. n + 1 - Cardinality(Retained(names)) = first
    BY <1>1, <1>3, <1>5
  <2> QED
    BY <2>1 DEF Youngest
<1> HIDE DEF S, y
<1>7. y \in Seq(S) /\ Len(y) = n - first + 1 /\ \A i \in 1..(n - first + 1) : y[i] = names[first + i - 1]
  <2> HIDE DEF n, first
  <2> QED
    BY <1>1, <1>3, <1>6 DEF n
<1>8. Len(y) = IF n < MaxBackups THEN n ELSE MaxBackups
  BY <1>1, <1>2, <1>7
<1>9. DOMAIN y = 1..Len(y)
  BY <1>7
<1>10. \A i \in 1..Len(y) : y[i] = names[n - Len(y) + i]
  BY <1>1, <1>2, <1>7, <1>8
<1> QED
  BY <1>1, <1>8, <1>9, <1>10 DEF y

LEMMA RotatedAway ==
    ASSUME NEW names, IsSeq(names), IsInjective(names)
    PROVE  /\ ToSet(names) \ Stale(names) = ToSet(Youngest(names))
           /\ IsInjective(Youngest(names))
<1> DEFINE n == Len(names)
           y == Youngest(names)
           m == Len(y)
<1>1. /\ n \in Nat /\ DOMAIN names = 1..n /\ m = IF n < MaxBackups THEN n ELSE MaxBackups
      /\ DOMAIN y = 1..m /\ \A i \in 1..m : y[i] = names[n - m + i]
  BY YoungestAre
<1>2. MaxBackups \in 1..10
  BY GuardAssumption DEF GuardAssumption
<1> HIDE DEF n, y, m
<1>3. m \in 0..n
  BY <1>1, <1>2
<1>4. Retained(names) = (n - m + 1)..n
  <2>1. Retained(names) = {i \in 1..n : i + MaxBackups > n}
    BY <1>1 DEF Retained, n
  <2> QED
    BY <1>1, <1>2, <2>1
<1>5. \A i, k \in 1..n : names[i] = names[k] => i = k
  BY <1>1 DEF IsInjective
<1>6. \A i \in 1..m : n - m + i \in 1..n
  BY <1>1, <1>3
<1>7. \A i, k \in 1..m : y[i] = y[k] => i = k
  <2> SUFFICES ASSUME NEW i \in 1..m, NEW k \in 1..m, y[i] = y[k] PROVE i = k
    OBVIOUS
  <2>1. n - m + i = n - m + k
    BY <1>1, <1>5, <1>6
  <2> QED
    BY <1>1, <1>3, <2>1
<1>8. IsInjective(y)
  BY <1>1, <1>7 DEF IsInjective
<1>9. ASSUME NEW x
      PROVE  x \in ToSet(names) \ Stale(names) <=> x \in ToSet(y)
  <2>1. x \in ToSet(names) \ Stale(names) <=> \E i \in Retained(names) : x = names[i]
    <3>1. \A i \in Retained(names) : i \in 1..n
      BY <1>1, <1>3, <1>4
    <3> QED
      BY <1>1, <1>5, <3>1 DEF ToSet, Stale
  <2>2. x \in ToSet(y) <=> \E i \in 1..m : x = names[n - m + i]
    BY <1>1 DEF ToSet
  <2>3. ASSUME NEW i \in Retained(names)
        PROVE  i - (n - m) \in 1..m /\ n - m + (i - (n - m)) = i
    <3>1. m \in Int /\ n \in Int
      BY <1>1, <1>3
    <3>2. i \in Int /\ n - m + 1 <= i /\ i <= n
      BY <1>4, <3>1
    <3> QED
      BY <3>1, <3>2
  <2>4. \A i \in 1..m : n - m + i \in Retained(names)
    BY <1>1, <1>3, <1>4
  <2> QED
    BY <2>1, <2>2, <2>3, <2>4
<1> QED
  BY <1>8, <1>9 DEF y

-----------------------------------------------------------------------------
(* The index of a state: no name twice, and an archive for exactly these.     *)
Catalog(t) ==
    /\ IsInjective(t.manifest.backups)
    /\ DOMAIN t.archives = ToSet(t.manifest.backups)

(* From the checkout on the archives are those of the commit; then the one of *)
(* the old database comes, and in the end the stale ones go.                  *)
Catalogued(j) ==
    /\ pc[j] # "idle" => Catalog(Old(j))
    /\ pc[j] \in {"checked_out", "ready", "ran"} => DOMAIN dir[j].archives = DOMAIN Old(j).archives
    /\ pc[j] \in {"backed_up", "copied", "indexed"} => DOMAIN dir[j].archives = ToSet(AllBackups(j))
    /\ pc[j] \in {"indexed", "staged"} => dir[j].manifest.backups = Youngest(AllBackups(j))
    /\ pc[j] = "staged" =>
         /\ Catalog(dir[j])
         /\ ~dir[j].db.runs[LastRun(dir[j].db)].dry

Whole ==
    /\ \A k \in DOMAIN remote : Catalog(remote[k])
    /\ \A j \in Jobs : Catalogued(j)
    /\ PublishedStatesAreWhole
    /\ BackupsAreThePreviousStates

(* What stage_live makes of the index of a commit.                            *)
LEMMA AllBackupsAre ==
    ASSUME Guarded, Safe, NEW j \in Jobs, pc[j] \in Staging, Catalog(Old(j))
    PROVE  /\ IsSeq(AllBackups(j)) /\ IsInjective(AllBackups(j))
           /\ ToSet(AllBackups(j)) = ToSet(Old(j).manifest.backups) \union {ArchiveName(j)}
<1> DEFINE names == Old(j).manifest.backups
           new == ArchiveName(j)
           all == AllBackups(j)
<1>1. IsSeq(names) /\ new \notin ToSet(names) /\ IsInjective(names)
  BY DEF Safe, Archived, Indexed, Staging, Catalog
<1>2. all = Append(names, new)
  BY DEF AllBackups
<1> HIDE DEF names, new, all
<1>3. /\ IsSeq(all) /\ Len(names) \in Nat /\ DOMAIN names = 1..Len(names) /\ DOMAIN all = 1..(Len(names) + 1)
      /\ \A i \in 1..Len(names) : all[i] = names[i]
      /\ all[Len(names) + 1] = new
  BY <1>1, <1>2, AppendAny
<1>4. \A i \in 1..Len(names) : names[i] # new
  BY <1>1, <1>3 DEF ToSet
<1>5. \A i \in 1..(Len(names) + 1) : i \in 1..Len(names) \/ i = Len(names) + 1
  BY <1>3
<1>6. \A i, k \in 1..(Len(names) + 1) : all[i] = all[k] => i = k
  BY <1>1, <1>3, <1>4, <1>5 DEF IsInjective
<1>7. IsInjective(all)
  BY <1>3, <1>6 DEF IsInjective
<1>8. ToSet(all) = ToSet(names) \union {new}
  <2>1. \A i \in 1..Len(names) : i \in 1..(Len(names) + 1)
    BY <1>3
  <2>2. Len(names) + 1 \in 1..(Len(names) + 1)
    BY <1>3
  <2> QED
    BY <1>3, <1>5, <2>1, <2>2 DEF ToSet
<1> QED
  BY <1>3, <1>7, <1>8 DEF names, new, all

LEMMA WholeInit == Init => Whole
<1> SUFFICES ASSUME Init PROVE Whole
  OBVIOUS
<1>1. FirstTree.manifest.backups = <<>> /\ FirstTree.archives = <<>>
  BY DEF FirstTree, EmptyTree, NoManifest, ManifestOf
<1>2. remote = <<FirstTree>> /\ Len(remote) = 1 /\ DOMAIN remote = {1} /\ remote[1] = FirstTree
  BY DEF Init
<1>3. Catalog(FirstTree)
  BY <1>1 DEF Catalog, IsInjective, ToSet
<1>4. PublishedStatesAreWhole
  BY <1>2 DEF PublishedStatesAreWhole
<1>5. BackupsAreThePreviousStates
  BY <1>1, <1>2, GuardAssumption DEF BackupsAreThePreviousStates, GuardAssumption
<1>6. \A j \in Jobs : Catalogued(j)
  BY DEF Init, Catalogued
<1> QED
  BY <1>2, <1>3, <1>4, <1>5, <1>6 DEF Whole

(* A push puts the whole checkout on top of the chain it was made from.       *)
LEMMA PushedIsWhole ==
    ASSUME Guarded, Safe, Whole, NEW j \in Jobs, pc[j] = "staged", Verified(dir[j], FALSE),
           base[j] = remote, remote' = Append(remote, dir[j])
    PROVE  /\ \A k \in DOMAIN remote' : Catalog(remote'[k])
           /\ PublishedStatesAreWhole'
           /\ BackupsAreThePreviousStates'
<1> DEFINE n == Len(remote)
           names == remote[n].manifest.backups
           all == AllBackups(j)
           y == dir[j].manifest.backups
<1>1. /\ n \in Nat /\ n \in 1..n /\ DOMAIN remote = 1..n /\ DOMAIN remote' = 1..(n + 1)
      /\ \A i \in 1..n : remote'[i] = remote[i]
      /\ remote'[n + 1] = dir[j] /\ Old(j) = remote[n]
  BY AppendAny DEF Guarded, Shaped, Old, Last
<1>2. /\ Catalog(Old(j)) /\ Catalog(dir[j]) /\ y = Youngest(all)
      /\ ~dir[j].db.runs[LastRun(dir[j].db)].dry
  BY DEF Whole, Catalogued
<1>3. MaxBackups \in 1..10
  BY GuardAssumption DEF GuardAssumption
<1>4. IsSeq(all) /\ IsSeq(names)
  BY <1>1, <1>2, AllBackupsAre DEF Staging, Safe, Indexed
<1>5. /\ Len(all) \in Nat /\ DOMAIN all = 1..Len(all)
      /\ Len(y) = (IF Len(all) < MaxBackups THEN Len(all) ELSE MaxBackups)
      /\ DOMAIN y = 1..Len(y)
      /\ \A i \in 1..Len(y) : y[i] = all[Len(all) - Len(y) + i]
  BY <1>2, <1>4, YoungestAre
<1>6. /\ Len(all) = Len(names) + 1 /\ Len(names) \in Nat /\ DOMAIN names = 1..Len(names)
      /\ \A i \in 1..Len(names) : all[i] = names[i]
      /\ all[Len(names) + 1] = ArchiveName(j)
  <2>1. all = Append(names, ArchiveName(j))
    BY <1>1 DEF AllBackups
  <2> QED
    BY <1>4, <2>1, AppendAny
<1>7. ArchiveName(j).sha = remote[n].db
  BY <1>1 DEF ArchiveName
<1>8. /\ Len(names) = (IF n - 1 < MaxBackups THEN n - 1 ELSE MaxBackups)
      /\ \A i \in 1..Len(names) : names[i].sha = remote[n - 1 - Len(names) + i].db
  <2>1. LET l == remote[n].manifest.backups
        IN /\ Len(l) = IF n - 1 < MaxBackups THEN n - 1 ELSE MaxBackups
           /\ \A i \in DOMAIN l : l[i].sha = remote[n - 1 - Len(l) + i].db
    <3> HIDE DEF n
    <3> QED
      BY <1>1, Zenon DEF Whole, BackupsAreThePreviousStates
  <2> QED
    BY <1>6, <2>1
<1>9. Verified(dir[j], TRUE)
  BY <1>2 DEF Verified
<1> HIDE DEF n, names, all, y
<1>10. Len(y) = IF n < MaxBackups THEN n ELSE MaxBackups
  BY <1>1, <1>3, <1>5, <1>6, <1>8
<1>11. \A i \in 1..Len(all) : all[i].sha = remote[n - Len(all) + i].db
  <2> SUFFICES ASSUME NEW i \in 1..Len(all) PROVE all[i].sha = remote[n - Len(all) + i].db
    OBVIOUS
  <2>1. CASE i = Len(names) + 1
    <3>1. n - Len(all) + i = n
      BY <1>1, <1>6, <2>1
    <3> QED
      BY <1>6, <1>7, <2>1, <3>1
  <2>2. CASE i # Len(names) + 1
    <3>1. i \in 1..Len(names) /\ n - Len(all) + i = n - 1 - Len(names) + i
      BY <1>1, <1>6, <2>2
    <3> QED
      BY <1>6, <1>8, <3>1
  <2> QED
    BY <2>1, <2>2
<1>12. \A i \in 1..Len(y) : y[i].sha = remote[n - Len(y) + i].db /\ n - Len(y) + i \in 1..n
  <2> SUFFICES ASSUME NEW i \in 1..Len(y)
               PROVE  y[i].sha = remote[n - Len(y) + i].db /\ n - Len(y) + i \in 1..n
    OBVIOUS
  <2> DEFINE a == Len(all)
             b == Len(y)
  <2>1. /\ a - b + i \in 1..a /\ n - b + i \in 1..n
        /\ n - a + (a - b + i) = n - b + i
    <3>1. /\ a \in Nat /\ b = (IF a < MaxBackups THEN a ELSE MaxBackups)
          /\ b = (IF n < MaxBackups THEN n ELSE MaxBackups) /\ i \in 1..b /\ n \in Nat
      BY <1>1, <1>5, <1>10
    <3> HIDE DEF a, b
    <3>2. a \in Int /\ n \in Int /\ b \in Int /\ b <= a /\ b <= n
      BY <1>3, <3>1
    <3>3. i \in Int /\ 1 <= i /\ i <= b
      BY <3>1, <3>2
    <3> QED
      BY <3>2, <3>3
  <2> QED
    BY <1>5, <1>11, <2>1
<1>13. \A k \in 1..(n + 1) : k \in 1..n \/ k = n + 1
  BY <1>1
<1>14. \A k \in DOMAIN remote' : Catalog(remote'[k])
  BY <1>1, <1>2, <1>13 DEF Whole
<1>15. PublishedStatesAreWhole'
  <2> SUFFICES ASSUME NEW k \in 1..(n + 1), k > 1
               PROVE  /\ Verified(remote'[k], TRUE)
                      /\ Len(remote'[k].manifest.backups) <= MaxBackups
                      /\ DOMAIN remote'[k].archives = ToSet(remote'[k].manifest.backups)
    BY <1>1 DEF PublishedStatesAreWhole
  <2>1. CASE k \in 1..n
    BY <1>1, <2>1 DEF Whole, PublishedStatesAreWhole
  <2>2. CASE k = n + 1
    <3>1. Len(y) <= MaxBackups
      BY <1>1, <1>3, <1>10
    <3> QED
      BY <1>1, <1>2, <1>9, <2>2, <3>1 DEF Catalog, y
  <2> QED
    BY <1>13, <2>1, <2>2
<1>16. BackupsAreThePreviousStates'
  <2> DEFINE ok(s, k) ==
               /\ Len(s[k].manifest.backups) = IF k - 1 < MaxBackups THEN k - 1 ELSE MaxBackups
               /\ \A i \in DOMAIN s[k].manifest.backups :
                    s[k].manifest.backups[i].sha = s[k - 1 - Len(s[k].manifest.backups) + i].db
  <2>1. ASSUME NEW k \in 1..n
        PROVE  ok(remote', k)
    <3>1. ok(remote, k) /\ IsSeq(remote[k].manifest.backups)
      BY <1>1 DEF Whole, BackupsAreThePreviousStates, Safe, Indexed
    <3>2. DOMAIN remote[k].manifest.backups = 1..Len(remote[k].manifest.backups)
      BY <3>1 DEF IsSeq
    <3>3. \A i \in DOMAIN remote[k].manifest.backups : k - 1 - Len(remote[k].manifest.backups) + i \in 1..n
      <4> DEFINE l == Len(remote[k].manifest.backups)
      <4>1. l = IF k - 1 < MaxBackups THEN k - 1 ELSE MaxBackups
        BY <3>1
      <4> HIDE DEF l
      <4>2. \A i \in 1..l : k - 1 - l + i \in 1..n
        BY <1>1, <1>3, <4>1
      <4> QED
        BY <3>2, <4>2 DEF l
    <3>4. remote'[k] = remote[k]
      BY <1>1
    <3>5. \A i \in DOMAIN remote[k].manifest.backups :
            remote'[k - 1 - Len(remote[k].manifest.backups) + i] = remote[k - 1 - Len(remote[k].manifest.backups) + i]
      BY <1>1, <3>3
    <3> DEFINE l == remote[k].manifest.backups
    <3>6. /\ Len(l) = IF k - 1 < MaxBackups THEN k - 1 ELSE MaxBackups
          /\ \A i \in DOMAIN l : l[i].sha = remote'[k - 1 - Len(l) + i].db
      BY <3>1, <3>5
    <3> HIDE DEF l
    <3> QED
      BY <3>4, <3>6 DEF l
  <2>2. ok(remote', n + 1)
    <3>1. remote'[n + 1].manifest.backups = y /\ (n + 1) - 1 = n
      BY <1>1 DEF y
    <3> QED
      BY <1>1, <1>5, <1>10, <1>12, <3>1
  <2>3. \A k \in DOMAIN remote' : ok(remote', k)
    <3> HIDE DEF ok
    <3> QED
      BY <1>1, <1>13, <2>1, <2>2
  <2> QED
    BY <2>3 DEF BackupsAreThePreviousStates
<1> QED
  BY <1>14, <1>15, <1>16

LEMMA WholeOthers ==
    ASSUME Whole, NEW i \in Jobs,
           pc'[i] = pc[i] /\ base'[i] = base[i] /\ dir'[i] = dir[i] /\ app'[i] = app[i]
    PROVE  Catalogued(i)'
<1>1. Catalogued(i)
  BY DEF Whole
<1>2. Old(i)' = Old(i) /\ AllBackups(i)' = AllBackups(i)
  BY DEF Old, AllBackups, ArchiveName
<1> QED
  BY <1>1, <1>2 DEF Catalogued

LEMMA WholeStep ==
    ASSUME Guarded, Safe, Whole, NEW j \in Jobs,
           \/ Checkout(j) \/ Preflight(j) \/ RunPipeline(j) \/ Rot(j) \/ StageBackup(j)
           \/ StageDatabase(j) \/ StageManifest(j) \/ StageRotate(j) \/ Push(j) \/ End(j)
    PROVE  Whole'
<1>s. /\ Archived(j) /\ Catalogued(j) /\ HasFields(dir[j])
      /\ DOMAIN base = Jobs /\ DOMAIN dir = Jobs /\ DOMAIN app = Jobs /\ DOMAIN pc = Jobs
  BY DEF Safe, Whole, Guarded, Shaped
<1>q. ASSUME Catalogued(j)', remote' = remote,
             \A i \in Jobs \ {j} : pc'[i] = pc[i] /\ base'[i] = base[i] /\ dir'[i] = dir[i] /\ app'[i] = app[i]
      PROVE  Whole'
  BY <1>q, WholeOthers DEF Whole, PublishedStatesAreWhole, BackupsAreThePreviousStates
<1>r. ASSUME UNCHANGED <<remote, base, app, dir>>, Goto(j, "refused") \/ Goto(j, "rejected"), pc[j] # "idle"
      PROVE  Whole'
  <2>1. pc'[j] \in {"refused", "rejected"} /\ Old(j)' = Old(j)
    BY <1>r, <1>s DEF Goto, Old
  <2>2. Catalogued(j)'
    BY <1>r, <1>s, <2>1 DEF Catalogued
  <2> QED
    BY <1>r, <1>s, <1>q, <2>2 DEF Goto
<1>1. CASE Checkout(j)
  <2>1. Catalog(Last(remote))
    BY AppendAny DEF Guarded, Shaped, Whole, Last
  <2>2. pc'[j] = "checked_out" /\ dir'[j] = Last(remote) /\ Old(j)' = Last(remote)
    BY <1>1, <1>s DEF Checkout, Goto, Old
  <2>3. Catalogued(j)'
    BY <2>1, <2>2 DEF Catalogued
  <2> QED
    BY <1>1, <1>s, <1>q, <2>3 DEF Checkout, Goto
<1>2. CASE Preflight(j)
  <2>1. pc'[j] \in {"ready", "refused"} /\ pc[j] = "checked_out" /\ UNCHANGED <<remote, base, app, dir>>
    BY <1>2, <1>s DEF Preflight, Goto
  <2>2. Old(j)' = Old(j)
    BY <2>1 DEF Old
  <2>3. Catalogued(j)'
    BY <1>s, <2>1, <2>2 DEF Catalogued
  <2> QED
    BY <1>2, <1>s, <1>q, <2>3 DEF Preflight, Goto
<1>3. CASE RunPipeline(j)
  <2>1. /\ UNCHANGED <<remote, base, dir>> /\ pc'[j] = "ran" /\ pc[j] = "ready"
        /\ \A i \in Jobs \ {j} : pc'[i] = pc[i] /\ app'[i] = app[i]
    BY <1>3, <1>s DEF RunPipeline, Goto
  <2>2. Old(j)' = Old(j)
    BY <2>1 DEF Old
  <2>3. Catalogued(j)'
    BY <1>s, <2>1, <2>2 DEF Catalogued
  <2> QED
    BY <1>q, <2>1, <2>3
<1>4. CASE Rot(j)
  <2>1. /\ UNCHANGED <<remote, pc, base, app>> /\ pc[j] # "staged"
        /\ \A i \in Jobs \ {j} : dir'[i] = dir[i]
        /\ dir'[j].manifest = dir[j].manifest /\ DOMAIN dir'[j].archives = DOMAIN dir[j].archives
    BY <1>4, <1>s DEF Rot, HasFields
  <2>2. Old(j)' = Old(j) /\ AllBackups(j)' = AllBackups(j)
    BY <2>1 DEF Old, AllBackups, ArchiveName
  <2>3. Catalogued(j)'
    BY <1>s, <2>1, <2>2 DEF Catalogued
  <2> QED
    BY <1>q, <2>1, <2>3
<1>5. CASE StageBackup(j)
  <2>1. CASE Stageable(j)
    <3>1. /\ UNCHANGED <<remote, base, app>> /\ pc'[j] = "backed_up" /\ pc[j] = "ran"
          /\ \A i \in Jobs \ {j} : pc'[i] = pc[i] /\ dir'[i] = dir[i]
          /\ dir'[j].archives = Put(dir[j].archives, ArchiveName(j), dir[j].db)
      BY <1>5, <1>s, <2>1 DEF StageBackup, Goto, HasFields
    <3>2. Old(j)' = Old(j) /\ AllBackups(j)' = AllBackups(j)
      BY <3>1 DEF Old, AllBackups, ArchiveName
    <3>3. DOMAIN dir'[j].archives = ToSet(Old(j).manifest.backups) \union {ArchiveName(j)}
      BY <1>s, <3>1 DEF Catalogued, Catalog, Put
    <3>4. ToSet(AllBackups(j)) = ToSet(Old(j).manifest.backups) \union {ArchiveName(j)}
      <4> DEFINE names == Old(j).manifest.backups
      <4>1. IsSeq(names)
        BY <1>s, <3>1 DEF Archived, Indexed
      <4> HIDE DEF names
      <4>2. /\ Len(names) \in Nat /\ DOMAIN names = 1..Len(names)
            /\ DOMAIN Append(names, ArchiveName(j)) = 1..(Len(names) + 1)
            /\ \A i \in 1..Len(names) : Append(names, ArchiveName(j))[i] = names[i]
            /\ Append(names, ArchiveName(j))[Len(names) + 1] = ArchiveName(j)
        BY <4>1, AppendAny
      <4>3. \A i : i \in 1..(Len(names) + 1) <=> i \in 1..Len(names) \/ i = Len(names) + 1
        BY <4>2
      <4>4. ToSet(Append(names, ArchiveName(j))) = ToSet(names) \union {ArchiveName(j)}
        BY <4>2, <4>3 DEF ToSet
      <4> QED
        BY <4>4 DEF AllBackups, names
    <3>5. Catalogued(j)'
      BY <1>s, <3>1, <3>2, <3>3, <3>4 DEF Catalogued
    <3> QED
      BY <1>q, <3>1, <3>5
  <2>2. CASE ~Stageable(j)
    BY <1>5, <1>r, <2>2 DEF StageBackup
  <2> QED
    BY <2>1, <2>2
<1>6. CASE StageDatabase(j)
  <2>1. CASE Restores(dir[j], ArchiveName(j))
    <3>1. /\ UNCHANGED <<remote, base, app>> /\ pc'[j] = "copied" /\ pc[j] = "backed_up"
          /\ \A i \in Jobs \ {j} : pc'[i] = pc[i] /\ dir'[i] = dir[i]
          /\ dir'[j].archives = dir[j].archives
      BY <1>6, <1>s, <2>1 DEF StageDatabase, Goto, HasFields
    <3>2. Old(j)' = Old(j) /\ AllBackups(j)' = AllBackups(j)
      BY <3>1 DEF Old, AllBackups, ArchiveName
    <3>3. Catalogued(j)'
      BY <1>s, <3>1, <3>2 DEF Catalogued
    <3> QED
      BY <1>q, <3>1, <3>3
  <2>2. CASE ~Restores(dir[j], ArchiveName(j))
    BY <1>6, <1>r, <2>2 DEF StageDatabase
  <2> QED
    BY <2>1, <2>2
<1>7. CASE StageManifest(j)
  <2>1. /\ UNCHANGED <<remote, base, app>> /\ pc'[j] = "indexed" /\ pc[j] = "copied"
        /\ \A i \in Jobs \ {j} : pc'[i] = pc[i] /\ dir'[i] = dir[i]
        /\ dir'[j].archives = dir[j].archives
        /\ dir'[j].manifest = [app[j].manifest EXCEPT !.backups = Youngest(AllBackups(j))]
    BY <1>7, <1>s DEF StageManifest, Goto, HasFields
  <2>2. Old(j)' = Old(j) /\ AllBackups(j)' = AllBackups(j)
    BY <2>1 DEF Old, AllBackups, ArchiveName
  <2>3. dir'[j].manifest.backups = Youngest(AllBackups(j))
    BY <2>1
  <2>4. Catalogued(j)'
    BY <1>s, <2>1, <2>2, <2>3 DEF Catalogued
  <2> QED
    BY <1>q, <2>1, <2>4
<1>8. CASE StageRotate(j)
  <2>1. CASE Verified(dir[j], TRUE) /\ LastRun(dir[j].db) = LastRun(app[j].db)
    <3>1. /\ UNCHANGED <<remote, base, app>> /\ pc'[j] = "staged" /\ pc[j] = "indexed"
          /\ \A i \in Jobs \ {j} : pc'[i] = pc[i] /\ dir'[i] = dir[i]
          /\ dir'[j].manifest = dir[j].manifest /\ dir'[j].db = dir[j].db
          /\ dir'[j].archives = Restrict(dir[j].archives, DOMAIN dir[j].archives \ Stale(AllBackups(j)))
      BY <1>8, <1>s, <2>1 DEF StageRotate, Goto, HasFields
    <3>2. Old(j)' = Old(j) /\ AllBackups(j)' = AllBackups(j)
      BY <3>1 DEF Old, AllBackups, ArchiveName
    <3>3. IsSeq(AllBackups(j)) /\ IsInjective(AllBackups(j))
      BY <1>s, <3>1, AllBackupsAre DEF Catalogued, Staging
    <3>4. /\ ToSet(AllBackups(j)) \ Stale(AllBackups(j)) = ToSet(Youngest(AllBackups(j)))
          /\ IsInjective(Youngest(AllBackups(j)))
      BY <3>3, RotatedAway
    <3>5. /\ dir[j].manifest.backups = Youngest(AllBackups(j))
          /\ DOMAIN dir'[j].archives = ToSet(AllBackups(j)) \ Stale(AllBackups(j))
      BY <1>s, <3>1 DEF Catalogued, Restrict
    <3>6. Catalog(dir'[j])
      BY <3>1, <3>4, <3>5 DEF Catalog
    <3>7. ~dir'[j].db.runs[LastRun(dir'[j].db)].dry
      BY <2>1, <3>1 DEF Verified
    <3>8. Catalogued(j)'
      BY <1>s, <3>1, <3>2, <3>5, <3>6, <3>7 DEF Catalogued
    <3> QED
      BY <1>q, <3>1, <3>8
  <2>2. CASE ~(Verified(dir[j], TRUE) /\ LastRun(dir[j].db) = LastRun(app[j].db))
    BY <1>8, <1>r, <2>2 DEF StageRotate
  <2> QED
    BY <2>1, <2>2
<1>9. CASE Push(j)
  <2>1. CASE remote' = remote /\ (Goto(j, "refused") \/ Goto(j, "rejected"))
    BY <1>9, <1>r, <2>1 DEF Push
  <2>2. CASE Verified(dir[j], FALSE) /\ FastForward(j) /\ remote' = Append(base[j], dir[j]) /\ Goto(j, "pushed")
    <3>1. /\ UNCHANGED <<base, dir, app>> /\ pc'[j] = "pushed" /\ pc[j] = "staged"
          /\ \A i \in Jobs \ {j} : pc'[i] = pc[i]
      BY <1>9, <1>s, <2>2 DEF Push, Goto
    <3>2. Old(j)' = Old(j)
      BY <3>1 DEF Old
    <3>3. Catalogued(j)'
      BY <1>s, <3>1, <3>2 DEF Catalogued
    <3>4. /\ \A k \in DOMAIN remote' : Catalog(remote'[k])
          /\ PublishedStatesAreWhole' /\ BackupsAreThePreviousStates'
      BY <2>2, <3>1, PushedIsWhole DEF FastForward
    <3> QED
      BY <3>1, <3>3, <3>4, WholeOthers DEF Whole
  <2> QED
    BY <1>9, <2>1, <2>2 DEF Push
<1>10. CASE End(j)
  <2>1. pc'[j] = "idle"
    BY <1>10, <1>s DEF End, Goto
  <2>2. Catalogued(j)'
    BY <2>1 DEF Catalogued
  <2> QED
    BY <1>10, <1>s, <1>q, <2>2 DEF End, Goto
<1> QED
  BY <1>1, <1>2, <1>3, <1>4, <1>5, <1>6, <1>7, <1>8, <1>9, <1>10

LEMMA AlwaysWhole == Spec => [](Guarded /\ Safe /\ Whole)
<1>1. Guarded /\ Safe /\ Whole /\ [Next]_vars => Guarded' /\ Safe' /\ Whole'
  <2>1. ASSUME Guarded, Safe, Whole, UNCHANGED vars
        PROVE  Guarded' /\ Safe' /\ Whole'
    <3>1. Guarded' /\ Safe'
      BY <2>1 DEF vars, Guarded, Shaped, Working, Old, Growing, PublishedHistoryGrows,
                  Safe, Archived, Restorable, ArchiveName
    <3>2. UNCHANGED <<remote, pc, base, dir, app>>
      BY <2>1 DEF vars
    <3>3. Whole'
      BY <2>1, <3>2, WholeOthers DEF Whole, PublishedStatesAreWhole, BackupsAreThePreviousStates
    <3> QED
      BY <3>1, <3>3
  <2> QED
    BY <2>1, GuardedStep, SafeStep, WholeStep DEF Next
<1> QED
  BY <1>1, GuardedInit, SafeInit, WholeInit, PTL DEF Spec

(* "Persist state branch" verifies what it pushes: whatever rotted before, a  *)
(* published state verifies as a live one, and its archives are those its     *)
(* manifest indexes, MaxBackups of them at most.                              *)
THEOREM PublishedStatesAreAlwaysWhole == Spec => []PublishedStatesAreWhole
<1>1. Guarded /\ Safe /\ Whole => PublishedStatesAreWhole
  BY DEF Whole
<1> QED BY <1>1, AlwaysWhole, PTL

(* stage_live and its rotation: the archives of any published state restore   *)
(* to exactly the states published before it, one by one, as far back as      *)
(* MaxBackups reaches and however many cycles there were.                     *)
THEOREM BackupsAreAlwaysThePreviousStates == Spec => []BackupsAreThePreviousStates
<1>1. Guarded /\ Safe /\ Whole => BackupsAreThePreviousStates
  BY DEF Whole
<1> QED BY <1>1, AlwaysWhole, PTL

-----------------------------------------------------------------------------
(* A database of runs and notes up to number n.                               *)
IsRecord(db) == db = [sound |-> db.sound, runs |-> db.runs, notes |-> db.notes]
UpTo(db, n)  == DOMAIN db.runs \subseteq 1..n /\ DOMAIN db.notes \subseteq 1..n
Usable(db, n) ==
    /\ IsRecord(db) /\ UpTo(db, n)
    /\ LastRun(db) \in DOMAIN db.runs

LEMMA PutHasDomain ==
    ASSUME NEW table, NEW id, NEW row
    PROVE  /\ DOMAIN Put(table, id, row) = DOMAIN table \union {id}
           /\ Put(table, id, row)[id] = row
           /\ \A k \in DOMAIN table : k # id => Put(table, id, row)[k] = table[k]
  BY DEF Put

(* A run that completes leaves a database that continues the old one.         *)
LEMMA OutcomeContinues ==
    ASSUME NEW n \in Nat, NEW old, Usable(old, n), Readable(old), NEW db \in Outcomes(old, n + 1)
    PROVE  /\ IsRecord(db) /\ UpTo(db, n + 1)
           /\ DOMAIN db.runs = DOMAIN old.runs \union {n + 1}
           /\ LastRun(db) = n + 1 /\ Readable(db) /\ ~db.runs[n + 1].dry
           /\ Continuous(old, db, n + 1)
<1> DEFINE r == n + 1
<1>0. db \in Outcomes(old, r)
  OBVIOUS
<1>r. r = n + 1 /\ r \in Nat
  OBVIOUS
<1> HIDE DEF r
<1>1. PICK runs \in Confirmed(old.runs), notes \in {old.notes, Put(old.notes, r, Note(r))},
           report \in {"NONE", "REPORT_PUBLISHED"} : db = Completed(old, r, runs, notes, report)
  BY <1>0 DEF Outcomes
<1>2. PICK sound, oldRuns, oldNotes : old = [sound |-> sound, runs |-> oldRuns, notes |-> oldNotes]
  BY DEF Usable, IsRecord
<1>3. /\ old.sound = sound /\ old.runs = oldRuns /\ old.notes = oldNotes
      /\ db = [sound |-> sound, runs |-> Put(runs, r, Row(report)), notes |-> notes]
  BY <1>1, <1>2 DEF Completed
<1>4. /\ db.sound = old.sound /\ db.runs = Put(runs, r, Row(report))
      /\ db.notes = notes /\ IsRecord(db)
  BY <1>3 DEF IsRecord
<1>5. DOMAIN runs = DOMAIN old.runs /\ \A q \in DOMAIN old.runs : RowKept(old.runs[q], runs[q])
  <2>1. CASE runs = old.runs
    BY <2>1 DEF RowKept
  <2>2. CASE runs # old.runs
    <3>1. PICK p \in DOMAIN old.runs : /\ old.runs[p].report = "PENDING_REPORT"
                                       /\ runs = [old.runs EXCEPT ![p].report = "REPORT_PUBLISHED"]
      BY <2>2, <1>1 DEF Confirmed
    <3>2. /\ DOMAIN runs = DOMAIN old.runs
          /\ runs[p] = [old.runs[p] EXCEPT !.report = "REPORT_PUBLISHED"]
          /\ \A q \in DOMAIN old.runs : q # p => runs[q] = old.runs[q]
      BY <3>1
    <3> QED
      BY <3>1, <3>2 DEF RowKept
  <2> QED
    BY <2>1, <2>2
<1>6. r \notin DOMAIN old.runs /\ r \notin DOMAIN old.notes /\ UpTo(old, n) /\ r \in 1..r
  BY <1>r DEF Usable, UpTo
<1>7. /\ DOMAIN db.runs = DOMAIN old.runs \union {r} /\ db.runs[r] = Row(report)
      /\ \A q \in DOMAIN old.runs : db.runs[q] = runs[q]
  <2>1. /\ DOMAIN Put(runs, r, Row(report)) = DOMAIN runs \union {r}
        /\ Put(runs, r, Row(report))[r] = Row(report)
        /\ \A k \in DOMAIN runs : k # r => Put(runs, r, Row(report))[k] = runs[k]
    BY DEF Put
  <2> QED
    BY <1>4, <1>5, <1>6, <2>1
<1>8. /\ DOMAIN db.notes = DOMAIN old.notes \/ DOMAIN db.notes = DOMAIN old.notes \union {r}
      /\ r \in DOMAIN db.notes => db.notes[r] = Note(r)
      /\ \A k \in DOMAIN old.notes : k \in DOMAIN db.notes /\ db.notes[k] = old.notes[k]
  <2>1. CASE notes = Put(old.notes, r, Note(r))
    <3>1. /\ DOMAIN Put(old.notes, r, Note(r)) = DOMAIN old.notes \union {r}
          /\ Put(old.notes, r, Note(r))[r] = Note(r)
          /\ \A k \in DOMAIN old.notes : k # r => Put(old.notes, r, Note(r))[k] = old.notes[k]
      BY DEF Put
    <3>2. db.notes = Put(old.notes, r, Note(r))
      BY <1>4, <2>1
    <3> QED
      BY <1>6, <3>1, <3>2
  <2>2. CASE notes = old.notes
    BY <1>4, <1>6, <2>2
  <2> QED
    BY <1>1, <2>1, <2>2
<1>9. UpTo(db, r)
  <2>1. 1..n \subseteq 1..r
    BY <1>r
  <2> QED
    BY <1>6, <1>7, <1>8, <2>1 DEF UpTo
<1>10. LastRun(db) = r
  <2>1. r \in DOMAIN db.runs /\ \A q \in DOMAIN db.runs : q \in 1..r
    BY <1>7, <1>9 DEF UpTo
  <2>2. \A q \in DOMAIN db.runs : q <= r
    BY <1>r, <2>1
  <2>3. \A x \in DOMAIN db.runs : (\A q \in DOMAIN db.runs : q <= x) => x = r
    <3> SUFFICES ASSUME NEW x \in DOMAIN db.runs, \A q \in DOMAIN db.runs : q <= x PROVE x = r
      OBVIOUS
    <3>1. r <= x /\ x \in 1..r
      BY <2>1
    <3> QED
      BY <1>r, <3>1
  <2>4. \E x \in DOMAIN db.runs : \A q \in DOMAIN db.runs : q <= x
    BY <2>1, <2>2
  <2> QED
    BY <2>3, <2>4, Zenon DEF LastRun
<1>11. Readable(db)
  <2>1. db.runs # <<>>
    BY <1>7
  <2> QED
    BY <1>4, <2>1 DEF Readable
<1>12. ~db.runs[r].dry
  BY <1>7 DEF Row
<1>13. Continuous(old, db, r)
  <2>1. \A k \in DOMAIN db.notes \ DOMAIN old.notes : db.notes[k].run \in DOMAIN db.runs
    BY <1>7, <1>8 DEF Note
  <2>2. DOMAIN db.runs \ DOMAIN old.runs = {r}
    BY <1>6, <1>7
  <2>3. \A q \in DOMAIN old.runs : RowKept(old.runs[q], db.runs[q])
    BY <1>5, <1>7
  <2> QED
    BY <1>7, <1>8, <2>1, <2>2, <2>3 DEF Continuous
<1> QED
  BY <1>r, <1>4, <1>7, <1>9, <1>10, <1>11, <1>12, <1>13

(* What becomes of it by mishap has no note of the future, and of its runs    *)
(* none either, unless one too many.                                          *)
LEMMA MishapsAreBounded ==
    ASSUME NEW n \in Nat, NEW db, IsRecord(db), UpTo(db, n), n \in DOMAIN db.runs, NEW bad \in Mishaps(db, n)
    PROVE  /\ IsRecord(bad) /\ DOMAIN bad.notes \subseteq 1..n
           /\ \/ DOMAIN bad.runs \subseteq DOMAIN db.runs
              \/ \E q : q \notin DOMAIN db.runs /\ DOMAIN bad.runs = DOMAIN db.runs \union {q}
<1>1. PICK sound, runs, notes : db = [sound |-> sound, runs |-> runs, notes |-> notes]
  BY DEF IsRecord
<1>2. db.runs = runs /\ db.notes = notes /\ DOMAIN runs \subseteq 1..n /\ DOMAIN notes \subseteq 1..n /\ n \in 1..n
  BY <1>1 DEF UpTo
<1>3. ASSUME NEW s, NEW t, NEW u, bad = [sound |-> s, runs |-> t, notes |-> u], DOMAIN u \subseteq 1..n,
             \/ DOMAIN t \subseteq DOMAIN runs
             \/ \E q : q \notin DOMAIN runs /\ DOMAIN t = DOMAIN runs \union {q}
      PROVE  /\ IsRecord(bad) /\ DOMAIN bad.notes \subseteq 1..n
             /\ \/ DOMAIN bad.runs \subseteq DOMAIN db.runs
                \/ \E q : q \notin DOMAIN db.runs /\ DOMAIN bad.runs = DOMAIN db.runs \union {q}
  <2>1. bad.runs = t /\ bad.notes = u /\ IsRecord(bad)
    BY <1>3 DEF IsRecord
  <2> QED
    BY <1>2, <1>3, <2>1
<1>4. CASE \E q \in DOMAIN db.runs : bad = [db EXCEPT !.runs = Restrict(@, DOMAIN @ \ {q})]
  <2>1. PICK q \in DOMAIN runs :
          bad = [sound |-> sound, runs |-> Restrict(runs, DOMAIN runs \ {q}), notes |-> notes]
    BY <1>1, <1>2, <1>4
  <2>2. DOMAIN Restrict(runs, DOMAIN runs \ {q}) \subseteq DOMAIN runs
    BY DEF Restrict
  <2> QED
    BY <1>2, <1>3, <2>1, <2>2
<1>5. CASE \/ \E q \in DOMAIN db.runs : bad = [db EXCEPT !.runs[q].rest = "rewritten"]
           \/ \E q \in DOMAIN db.runs : bad = [db EXCEPT !.runs[q].report = "UNCONFIRMED"]
           \/ bad = [db EXCEPT !.runs[n].dry = TRUE]
  <2>1. \E q, row : bad = [sound |-> sound, runs |-> [runs EXCEPT ![q] = row], notes |-> notes]
    <3>1. CASE \E q \in DOMAIN db.runs : bad = [db EXCEPT !.runs[q].rest = "rewritten"]
      <4>1. PICK q \in DOMAIN db.runs : bad = [db EXCEPT !.runs[q].rest = "rewritten"]
        BY <3>1
      <4>2. bad = [sound |-> sound, runs |-> [runs EXCEPT ![q] = [runs[q] EXCEPT !.rest = "rewritten"]],
                   notes |-> notes]
        BY <1>1, <4>1
      <4> QED
        BY <4>2
    <3>2. CASE \E q \in DOMAIN db.runs : bad = [db EXCEPT !.runs[q].report = "UNCONFIRMED"]
      <4>1. PICK q \in DOMAIN db.runs : bad = [db EXCEPT !.runs[q].report = "UNCONFIRMED"]
        BY <3>2
      <4>2. bad = [sound |-> sound, runs |-> [runs EXCEPT ![q] = [runs[q] EXCEPT !.report = "UNCONFIRMED"]],
                   notes |-> notes]
        BY <1>1, <4>1
      <4> QED
        BY <4>2
    <3>3. CASE bad = [db EXCEPT !.runs[n].dry = TRUE]
      BY <1>1, <3>3
    <3> QED
      BY <1>5, <3>1, <3>2, <3>3
  <2>2. PICK q, row : bad = [sound |-> sound, runs |-> [runs EXCEPT ![q] = row], notes |-> notes]
    BY <2>1
  <2>3. DOMAIN [runs EXCEPT ![q] = row] \subseteq DOMAIN runs
    OBVIOUS
  <2> QED
    BY <1>2, <1>3, <2>2, <2>3
<1>6. CASE \E q \in RunIds \ DOMAIN db.runs : bad = [db EXCEPT !.runs = Put(@, q, Row("NONE"))]
  <2>1. PICK q \in RunIds \ DOMAIN runs :
          bad = [sound |-> sound, runs |-> Put(runs, q, Row("NONE")), notes |-> notes]
    BY <1>1, <1>2, <1>6
  <2>2. DOMAIN Put(runs, q, Row("NONE")) = DOMAIN runs \union {q}
    BY PutHasDomain
  <2> QED
    BY <1>2, <1>3, <2>1, <2>2
<1>7. CASE \/ \E k \in DOMAIN db.notes : bad = [db EXCEPT !.notes = Restrict(@, DOMAIN @ \ {k})]
           \/ \E k \in DOMAIN db.notes : bad = [db EXCEPT !.notes[k].rest = "rewritten"]
           \/ bad = [db EXCEPT !.notes = Put(@, n, Note(0))]
  <2>1. \E u : bad = [sound |-> sound, runs |-> runs, notes |-> u] /\ DOMAIN u \subseteq 1..n
    <3>1. CASE \E k \in DOMAIN db.notes : bad = [db EXCEPT !.notes = Restrict(@, DOMAIN @ \ {k})]
      <4>1. PICK k \in DOMAIN notes :
              bad = [sound |-> sound, runs |-> runs, notes |-> Restrict(notes, DOMAIN notes \ {k})]
        BY <1>1, <1>2, <3>1
      <4>2. DOMAIN Restrict(notes, DOMAIN notes \ {k}) \subseteq 1..n
        BY <1>2 DEF Restrict
      <4> QED
        BY <4>1, <4>2
    <3>2. CASE \E k \in DOMAIN db.notes : bad = [db EXCEPT !.notes[k].rest = "rewritten"]
      <4>3. PICK k \in DOMAIN db.notes : bad = [db EXCEPT !.notes[k].rest = "rewritten"]
        BY <3>2
      <4>4. bad = [sound |-> sound, runs |-> runs,
                   notes |-> [notes EXCEPT ![k] = [notes[k] EXCEPT !.rest = "rewritten"]]]
        BY <1>1, <4>3
      <4>1. PICK row : bad = [sound |-> sound, runs |-> runs, notes |-> [notes EXCEPT ![k] = row]]
        BY <4>4
      <4>2. DOMAIN [notes EXCEPT ![k] = row] \subseteq 1..n
        BY <1>2
      <4> QED
        BY <4>1, <4>2
    <3>3. CASE bad = [db EXCEPT !.notes = Put(@, n, Note(0))]
      <4>1. bad = [sound |-> sound, runs |-> runs, notes |-> Put(notes, n, Note(0))]
        BY <1>1, <3>3
      <4>2. DOMAIN Put(notes, n, Note(0)) \subseteq 1..n
        <5>1. DOMAIN Put(notes, n, Note(0)) = DOMAIN notes \union {n}
          BY PutHasDomain, Zenon
        <5> QED
          BY <1>2, <5>1
      <4> QED
        BY <4>1, <4>2
    <3> QED
      BY <1>7, <3>1, <3>2, <3>3
  <2> QED
    BY <1>3, <2>1
<1>8. CASE bad = [db EXCEPT !.sound = FALSE]
  <2>1. bad = [sound |-> FALSE, runs |-> runs, notes |-> notes]
    BY <1>1, <1>8
  <2> QED
    BY <1>2, <1>3, <2>1
<1>9. \/ \E q \in DOMAIN db.runs : bad = [db EXCEPT !.runs = Restrict(@, DOMAIN @ \ {q})]
      \/ \E q \in DOMAIN db.runs : bad = [db EXCEPT !.runs[q].rest = "rewritten"]
      \/ \E q \in DOMAIN db.runs : bad = [db EXCEPT !.runs[q].report = "UNCONFIRMED"]
      \/ \E q \in RunIds \ DOMAIN db.runs : bad = [db EXCEPT !.runs = Put(@, q, Row("NONE"))]
      \/ bad = [db EXCEPT !.runs[n].dry = TRUE]
      \/ \E k \in DOMAIN db.notes : bad = [db EXCEPT !.notes = Restrict(@, DOMAIN @ \ {k})]
      \/ \E k \in DOMAIN db.notes : bad = [db EXCEPT !.notes[k].rest = "rewritten"]
      \/ bad = [db EXCEPT !.notes = Put(@, n, Note(0))]
      \/ bad = [db EXCEPT !.sound = FALSE]
  BY DEF Mishaps
<1> QED
  BY <1>4, <1>5, <1>6, <1>7, <1>8, <1>9

-----------------------------------------------------------------------------
(* A state that a job can go on from: it verifies, and run n + 1 is new to it *)
(* and to the names of its archives.                                          *)
Published(t, n) ==
    /\ Usable(t.db, n)
    /\ Verified(t, FALSE)
    /\ \A name \in DOMAIN t.archives : name.run \in 1..n

(* An app directory that stage_live accepts.                                  *)
Acceptable(j) ==
    /\ Verified(app[j], TRUE)
    /\ LastRun(Old(j).db) # LastRun(app[j].db)
    /\ Continuous(Old(j).db, app[j].db, LastRun(app[j].db))
    /\ ArchiveName(j) \notin DOMAIN Old(j).archives

(* What the run left there, damaged or not.                                   *)
Carried(j) == IF j \in Carriers THEN Old(j).manifest.backups ELSE <<>>
Completing(j) ==
    /\ IsRecord(app[j].db)
    /\ app[j].manifest = ManifestOf(app[j].db, Carried(j))
    /\ DOMAIN app[j].archives = {}
    /\ DOMAIN app[j].db.notes \subseteq 1..started
    /\ DOMAIN app[j].db.runs \ DOMAIN Old(j).db.runs = {LastRun(app[j].db)} =>
         DOMAIN app[j].db.runs \subseteq 1..started

(* What a job that nothing damaged and no inherited index burdens can rely on.*)
Careful(j) ==
    /\ pc[j] # "idle" => Published(Old(j), started)
    /\ pc[j] = "checked_out" => ~tainted[j]
    /\ pc[j] \in {"checked_out", "ready", "ran"} /\ ~tainted[j] => dir[j] = Old(j)
    /\ pc[j] \in Staging \union {"ran"} =>
         Completing(j) /\ (~tainted[j] /\ ~Burdened(j) => Acceptable(j))
    /\ pc[j] \in Staging \union {"pushed"} => ~Burdened(j)
    /\ pc[j] \in {"backed_up", "copied", "indexed"} /\ ~tainted[j] =>
         \A name \in DOMAIN Old(j).archives : dir[j].archives[name] = Old(j).archives[name]
    /\ pc[j] = "indexed" =>
         dir[j].manifest.sha = app[j].db /\ dir[j].manifest.last = LastRun(app[j].db)
    /\ pc[j] = "staged" => Verified(dir[j], FALSE)
    /\ pc[j] = "refused" => tainted[j] \/ Burdened(j)

Unharmed ==
    /\ started \in Nat
    /\ \A k \in DOMAIN remote : Published(remote[k], started)
    /\ \A j \in Jobs : Careful(j)

LEMMA PublishedLater ==
    ASSUME NEW t, NEW n \in Nat, Published(t, n)
    PROVE  Published(t, n + 1)
<1>1. 1..n \subseteq 1..(n + 1)
  OBVIOUS
<1> QED
  BY <1>1 DEF Published, Usable, UpTo

LEMMA UnharmedInit == ASSUME ~StartsEmpty PROVE Init => Unharmed
<1> SUFFICES ASSUME Init PROVE Unharmed
  OBVIOUS
<1> DEFINE runs == Put(<<>>, 1, Row("PENDING_REPORT"))
           notes == Put(<<>>, 1, Note(1))
<1>1. DOMAIN runs = {1} /\ DOMAIN notes = {1}
  <2>1. DOMAIN <<>> = {}
    OBVIOUS
  <2> QED
    BY <2>1 DEF Put
<1> HIDE DEF runs, notes
<1>2. FirstDatabase = [sound |-> TRUE, runs |-> runs, notes |-> notes]
  BY DEF FirstDatabase, runs, notes
<1>3. FirstTree = [db |-> FirstDatabase, manifest |-> ManifestOf(FirstDatabase, <<>>), archives |-> <<>>]
  BY DEF FirstTree
<1>4. LastRun(FirstDatabase) = 1
  <2>1. \A r \in {1} : (\A q \in {1} : q <= r) <=> r = 1
    OBVIOUS
  <2> QED
    BY <1>1, <1>2, <2>1 DEF LastRun
<1>5. Usable(FirstDatabase, 1)
  <2>1. {1} \subseteq 1..1
    OBVIOUS
  <2> QED
    BY <1>1, <1>2, <1>4, <2>1 DEF Usable, IsRecord, UpTo
<1>6. Verified(FirstTree, FALSE)
  <2>1. runs # <<>>
    BY <1>1
  <2>2. Readable(FirstDatabase)
    BY <1>2, <2>1 DEF Readable
  <2> QED
    BY <1>3, <2>2 DEF Verified, ManifestOf
<1>7. Published(FirstTree, 1)
  <2>1. DOMAIN FirstTree.archives = {}
    BY <1>3
  <2> QED
    BY <1>3, <1>5, <1>6, <2>1 DEF Published
<1>8. started = 1 /\ DOMAIN remote = {1} /\ remote[1] = FirstTree
  BY DEF Init
<1>9. \A j \in Jobs : Careful(j)
  BY DEF Init, Careful, Staging
<1> QED
  BY <1>7, <1>8, <1>9 DEF Unharmed

LEMMA CarefulOthers ==
    ASSUME Unharmed, NEW i \in Jobs, started' \in {started, started + 1},
           pc'[i] = pc[i] /\ base'[i] = base[i] /\ dir'[i] = dir[i] /\ app'[i] = app[i] /\ tainted'[i] = tainted[i]
    PROVE  Careful(i)'
<1>1. Careful(i) /\ started \in Nat /\ started' \in Nat /\ 1..started \subseteq 1..started'
  BY DEF Unharmed
<1>2. /\ Old(i)' = Old(i) /\ ArchiveName(i)' = ArchiveName(i)
      /\ Carried(i)' = Carried(i) /\ Burdened(i)' = Burdened(i)
  BY DEF Old, ArchiveName, Carried, Burdened
<1>3. pc[i] # "idle" => Published(Old(i), started')
  BY <1>1, PublishedLater DEF Careful
<1>4. Completing(i) => Completing(i)'
  BY <1>1, <1>2 DEF Completing
<1>5. Acceptable(i) => Acceptable(i)'
  BY <1>2 DEF Acceptable
<1> QED
  BY <1>1, <1>2, <1>3, <1>4, <1>5 DEF Careful

(* `hidden-gems run --live`: what it leaves can be accepted unless something  *)
(* outside damaged it.                                                        *)
LEMMA RunIsCareful ==
    ASSUME Guarded, Safe, Unharmed, NEW j \in Jobs, RunPipeline(j)
    PROVE  Careful(j)'
<1>1. /\ pc[j] = "ready" /\ pc'[j] = "ran" /\ started' = started + 1 /\ started \in Nat
      /\ UNCHANGED <<remote, base, dir>> /\ Careful(j)
      /\ DOMAIN app = Jobs /\ DOMAIN tainted = Jobs
  BY DEF RunPipeline, Goto, Unharmed, Guarded, Shaped
<1> DEFINE n == started
           r == n + 1
           old == Old(j).db
<1>2. /\ Old(j)' = Old(j) /\ Published(Old(j), n) /\ dir[j].db = old
      /\ Carried(j)' = Carried(j) /\ Burdened(j)' = Burdened(j)
  BY <1>1 DEF Old, Careful, Guarded, Working, Fresh, Carried, Burdened
<1>3. Usable(old, n) /\ Readable(old)
  BY <1>2 DEF Published, Verified
<1>4. PICK db \in Outcomes(old, r) :
        \/ /\ app' = [app EXCEPT ![j] = [db |-> db, manifest |-> ManifestOf(db, Carried(j)), archives |-> <<>>]]
           /\ UNCHANGED tainted
        \/ \E bad \in Mishaps(db, r) :
             /\ app' = [app EXCEPT ![j] = [db |-> bad, manifest |-> ManifestOf(bad, Carried(j)), archives |-> <<>>]]
             /\ tainted' = [tainted EXCEPT ![j] = TRUE]
  <2>1. Inherited(j) = Carried(j)
    BY <1>1 DEF Inherited, Carried, Safe, Archived, Fresh
  <2> QED
    BY <1>2, <2>1 DEF RunPipeline
<1> HIDE DEF r, old, n
<1>5. n \in Nat /\ r = n + 1 /\ r \in Nat /\ started' = r
  BY <1>1 DEF n, r
<1>6. /\ IsRecord(db) /\ UpTo(db, r) /\ DOMAIN db.runs = DOMAIN old.runs \union {r}
      /\ LastRun(db) = r /\ Readable(db) /\ ~db.runs[r].dry /\ Continuous(old, db, r)
  BY <1>3, <1>4, <1>5, OutcomeContinues
<1>7. r \notin DOMAIN old.runs
  <2>1. DOMAIN old.runs \subseteq 1..n
    BY <1>3 DEF Usable, UpTo
  <2>2. r \notin 1..n
    BY <1>5
  <2> QED
    BY <2>1, <2>2
<1>8. Published(Old(j), r)
  BY <1>2, <1>5, PublishedLater
<1>9. CASE /\ app' = [app EXCEPT ![j] = [db |-> db, manifest |-> ManifestOf(db, Carried(j)), archives |-> <<>>]]
           /\ UNCHANGED tainted
  <2>1. /\ app'[j].db = db /\ app'[j].manifest = ManifestOf(db, Carried(j)) /\ app'[j].archives = <<>>
        /\ tainted'[j] = tainted[j]
    BY <1>1, <1>9
  <2>2. Completing(j)'
    BY <1>2, <1>5, <1>6, <2>1 DEF Completing, UpTo
  <2>3. ASSUME ~Burdened(j)
        PROVE  Verified(app[j], TRUE)'
    <3>1. DOMAIN ManifestOf(db, Carried(j)).backups = {}
      BY <2>3 DEF ManifestOf, Burdened, Carried
    <3>2. /\ app'[j].manifest.sha = db /\ app'[j].manifest.last = LastRun(db)
          /\ DOMAIN app'[j].manifest.backups = {}
      BY <2>1, <3>1 DEF ManifestOf
    <3> QED
      BY <1>6, <2>1, <3>2 DEF Verified
  <2>4. LastRun(old) # r
    BY <1>3, <1>7 DEF Usable
  <2>5. ArchiveName(j)' \notin DOMAIN Old(j).archives
    <3>1. ArchiveName(j)'.run = r
      BY <1>6, <2>1 DEF ArchiveName
    <3>2. r \notin 1..n
      BY <1>5
    <3> QED
      BY <1>2, <3>1, <3>2 DEF Published
  <2>6. ~Burdened(j) => Acceptable(j)'
    BY <1>2, <1>6, <2>1, <2>3, <2>4, <2>5 DEF Acceptable, old
  <2>7. ~tainted'[j] => dir'[j] = Old(j)
    BY <1>1, <2>1 DEF Careful
  <2> QED
    BY <1>1, <1>2, <1>5, <1>8, <2>2, <2>6, <2>7 DEF Careful, Staging
<1>10. CASE \E bad \in Mishaps(db, r) :
             /\ app' = [app EXCEPT ![j] = [db |-> bad, manifest |-> ManifestOf(bad, Carried(j)), archives |-> <<>>]]
             /\ tainted' = [tainted EXCEPT ![j] = TRUE]
  <2>1. PICK bad \in Mishaps(db, r) :
             /\ app' = [app EXCEPT ![j] = [db |-> bad, manifest |-> ManifestOf(bad, Carried(j)), archives |-> <<>>]]
             /\ tainted' = [tainted EXCEPT ![j] = TRUE]
    BY <1>10
  <2>2. /\ app'[j].db = bad /\ app'[j].manifest = ManifestOf(bad, Carried(j)) /\ app'[j].archives = <<>>
        /\ tainted'[j]
    BY <1>1, <2>1
  <2>3. /\ IsRecord(bad) /\ DOMAIN bad.notes \subseteq 1..r
        /\ \/ DOMAIN bad.runs \subseteq DOMAIN db.runs
           \/ \E q : q \notin DOMAIN db.runs /\ DOMAIN bad.runs = DOMAIN db.runs \union {q}
    <3>1. r \in DOMAIN db.runs
      BY <1>6
    <3> QED
      BY <1>5, <1>6, <3>1, MishapsAreBounded
  <2>4. ASSUME NEW x, DOMAIN bad.runs \ DOMAIN old.runs = {x}
        PROVE  DOMAIN bad.runs \subseteq 1..r
    <3>1. ASSUME NEW q, q \notin DOMAIN db.runs, DOMAIN bad.runs = DOMAIN db.runs \union {q}
          PROVE  FALSE
      <4>1. q \in {x} /\ r \in {x}
        BY <1>6, <1>7, <2>4, <3>1
      <4> QED
        BY <1>6, <3>1, <4>1
    <3> QED
      BY <1>6, <2>3, <3>1 DEF UpTo
  <2>5. Completing(j)'
    <3>1. app'[j].manifest = ManifestOf(app'[j].db, Carried(j)') /\ DOMAIN app'[j].archives = {}
      BY <1>2, <2>2
    <3>2. IsRecord(app'[j].db) /\ DOMAIN app'[j].db.notes \subseteq 1..started'
      BY <1>5, <2>2, <2>3
    <3>3. DOMAIN app'[j].db.runs \ DOMAIN old.runs = {LastRun(app'[j].db)} =>
            DOMAIN app'[j].db.runs \subseteq 1..started'
      BY <1>5, <2>2, <2>4
    <3> QED
      BY <1>2, <3>1, <3>2, <3>3 DEF Completing, old
  <2> QED
    BY <1>1, <1>2, <1>5, <1>8, <2>2, <2>5 DEF Careful, Staging
<1> QED
  BY <1>4, <1>9, <1>10

(* The index of a state being staged: the archive it makes and archives of    *)
(* the commit before.                                                         *)
LEMMA StagedIndex ==
    ASSUME Guarded, Safe, Whole, NEW j \in Jobs, pc[j] \in {"indexed", "staged"}
    PROVE  /\ ToSet(AllBackups(j)) = DOMAIN Old(j).archives \union {ArchiveName(j)}
           /\ ToSet(Old(j).manifest.backups) = DOMAIN Old(j).archives
           /\ ToSet(AllBackups(j)) \ Stale(AllBackups(j)) = ToSet(dir[j].manifest.backups)
<1>1. Catalogued(j) /\ pc[j] \in Staging /\ Catalog(Old(j))
  BY DEF Whole, Catalogued, Staging
<1>2. /\ IsSeq(AllBackups(j)) /\ IsInjective(AllBackups(j))
      /\ ToSet(AllBackups(j)) = ToSet(Old(j).manifest.backups) \union {ArchiveName(j)}
  BY <1>1, AllBackupsAre
<1> QED
  BY <1>1, <1>2, RotatedAway DEF Catalogued, Catalog

LEMMA RotateAccepts ==
    ASSUME Guarded, Safe, Whole, Unharmed, NEW j \in Jobs, pc[j] = "indexed", ~tainted[j]
    PROVE  Verified(dir[j], TRUE) /\ LastRun(dir[j].db) = LastRun(app[j].db)
<1> DEFINE old == Old(j)
           backups == dir[j].manifest.backups
<1>1. /\ dir[j].db = app[j].db /\ Archived(j) /\ Published(old, started) /\ Acceptable(j)
      /\ \A name \in DOMAIN old.archives : dir[j].archives[name] = old.archives[name]
      /\ dir[j].manifest.sha = app[j].db /\ dir[j].manifest.last = LastRun(app[j].db)
      /\ DOMAIN dir[j].archives = ToSet(AllBackups(j))
  BY DEF Guarded, Working, Copied, Safe, Unharmed, Careful, Staging, Whole, Catalogued
<1>2. /\ ToSet(AllBackups(j)) = DOMAIN old.archives \union {ArchiveName(j)}
      /\ ToSet(old.manifest.backups) = DOMAIN old.archives
      /\ ToSet(backups) \subseteq ToSet(AllBackups(j))
  BY StagedIndex
<1> HIDE DEF old, backups
<1>3. ASSUME NEW name \in DOMAIN old.archives
      PROVE  Restores(dir[j], name)
  <2>1. PICK i \in DOMAIN old.manifest.backups : name = old.manifest.backups[i]
    BY <1>2 DEF ToSet
  <2>2. Restores(old, name)
    BY <1>1, <2>1 DEF Published, Verified
  <2>3. name \in DOMAIN dir[j].archives
    BY <1>1, <1>2
  <2> QED
    BY <1>1, <2>2, <2>3 DEF Restores
<1>4. Restores(dir[j], ArchiveName(j))
  <2>1. ArchiveName(j) \in DOMAIN dir[j].archives /\ dir[j].archives[ArchiveName(j)] = old.db
    BY <1>1 DEF Archived, Staging, old
  <2>2. ArchiveName(j).sha = old.db /\ Readable(old.db)
    BY <1>1 DEF ArchiveName, Published, Verified, old
  <2> QED
    BY <2>1, <2>2 DEF Restores
<1>5. \A i \in DOMAIN backups : Restores(dir[j], backups[i])
  <2>1. \A i \in DOMAIN backups : backups[i] \in ToSet(backups)
    BY DEF ToSet
  <2> QED
    BY <1>2, <1>3, <1>4, <2>1
<1>6. Readable(app[j].db) /\ ~app[j].db.runs[LastRun(app[j].db)].dry
  BY <1>1 DEF Acceptable, Verified
<1> QED
  BY <1>1, <1>5, <1>6 DEF Verified, backups

(* The rotation takes away no archive that the index still names.             *)
LEMMA RotatedVerifies ==
    ASSUME Guarded, Safe, Whole, NEW j \in Jobs, pc[j] = "indexed", Verified(dir[j], TRUE),
           dir'[j].db = dir[j].db, dir'[j].manifest = dir[j].manifest,
           dir'[j].archives = Restrict(dir[j].archives, DOMAIN dir[j].archives \ Stale(AllBackups(j)))
    PROVE  Verified(dir'[j], FALSE)
<1> DEFINE backups == dir[j].manifest.backups
<1>1. DOMAIN dir[j].archives = ToSet(AllBackups(j))
  BY DEF Whole, Catalogued
<1>2. /\ DOMAIN dir'[j].archives = ToSet(backups)
      /\ \A name \in ToSet(backups) : dir'[j].archives[name] = dir[j].archives[name]
  BY <1>1, StagedIndex DEF Restrict
<1>3. ASSUME NEW i \in DOMAIN backups
      PROVE  Restores(dir'[j], backups[i])
  <2>1. backups[i] \in ToSet(backups)
    BY DEF ToSet
  <2>2. Restores(dir[j], backups[i])
    BY DEF Verified
  <2> QED
    BY <1>2, <2>1, <2>2 DEF Restores
<1> QED
  BY <1>3 DEF Verified

(* A push publishes a state that the next job can go on from.                 *)
LEMMA PushedIsPublished ==
    ASSUME Guarded, Safe, Whole, Unharmed, NEW j \in Jobs, pc[j] = "staged"
    PROVE  Published(dir[j], started)
<1>1. /\ dir[j].db = app[j].db /\ Continuous(Old(j).db, app[j].db, LastRun(app[j].db))
      /\ Published(Old(j), started) /\ Completing(j) /\ Verified(dir[j], FALSE)
      /\ DOMAIN dir[j].archives = ToSet(dir[j].manifest.backups)
  BY DEF Guarded, Working, Copied, Staging, Unharmed, Careful, Whole, Catalogued, Catalog
<1>2. DOMAIN app[j].db.runs \ DOMAIN Old(j).db.runs = {LastRun(app[j].db)}
  BY <1>1 DEF Continuous
<1>3. LastRun(app[j].db) \in DOMAIN app[j].db.runs /\ DOMAIN app[j].db.runs \subseteq 1..started
  BY <1>1, <1>2 DEF Completing
<1>4. Usable(dir[j].db, started)
  BY <1>1, <1>3 DEF Usable, UpTo, Completing
<1>5. ArchiveName(j).run \in 1..started
  BY <1>3 DEF ArchiveName
<1>6. \A name \in DOMAIN dir[j].archives : name \in DOMAIN Old(j).archives \/ name = ArchiveName(j)
  BY <1>1, StagedIndex
<1> QED
  BY <1>1, <1>4, <1>5, <1>6 DEF Published

(* An inherited index names archives that the app directory does not have, so *)
(* what it burdens is not staged.                                             *)
LEMMA StagesUnburdened ==
    ASSUME Safe, NEW j \in Jobs, pc[j] = "ran", Completing(j), Verified(app[j], TRUE)
    PROVE  ~Burdened(j)
<1> SUFFICES ASSUME Burdened(j) PROVE FALSE
  OBVIOUS
<1> DEFINE names == Old(j).manifest.backups
<1>1. IsSeq(names) /\ names # <<>>
  BY DEF Burdened, Safe, Archived, Indexed
<1>2. app[j].manifest.backups = names
  BY DEF Completing, ManifestOf, Carried, Burdened
<1> HIDE DEF names
<1>3. 1 \in DOMAIN names
  BY <1>1 DEF IsSeq
<1>4. Restores(app[j], names[1])
  BY <1>2, <1>3 DEF Verified
<1> QED
  BY <1>4 DEF Restores, Completing

LEMMA UnharmedStep ==
    ASSUME Guarded, Safe, Whole, Unharmed, NEW j \in Jobs,
           \/ Checkout(j) \/ Preflight(j) \/ RunPipeline(j) \/ Rot(j) \/ StageBackup(j)
           \/ StageDatabase(j) \/ StageManifest(j) \/ StageRotate(j) \/ Push(j) \/ End(j)
    PROVE  Unharmed'
<1>s. /\ Careful(j) /\ HasFields(dir[j]) /\ started \in Nat
      /\ DOMAIN base = Jobs /\ DOMAIN dir = Jobs /\ DOMAIN app = Jobs /\ DOMAIN pc = Jobs /\ DOMAIN tainted = Jobs
  BY DEF Unharmed, Guarded, Shaped
<1>q. ASSUME Careful(j)', remote' = remote, started' = started,
             \A i \in Jobs \ {j} : /\ pc'[i] = pc[i] /\ base'[i] = base[i] /\ dir'[i] = dir[i]
                                   /\ app'[i] = app[i] /\ tainted'[i] = tainted[i]
      PROVE  Unharmed'
  BY <1>q, CarefulOthers DEF Unharmed
<1>r. ASSUME UNCHANGED <<remote, started, base, app, dir, tainted>>, pc[j] # "idle",
             Goto(j, "rejected") \/ (Goto(j, "refused") /\ (tainted[j] \/ Burdened(j)))
      PROVE  Unharmed'
  <2>1. /\ pc'[j] \in {"refused", "rejected"} /\ (pc'[j] = "refused" => tainted[j] \/ Burdened(j))
        /\ Old(j)' = Old(j) /\ Burdened(j)' = Burdened(j)
    BY <1>r, <1>s DEF Goto, Old, Burdened
  <2>2. Careful(j)'
    BY <1>r, <1>s, <2>1 DEF Careful, Staging
  <2> QED
    BY <1>r, <1>s, <1>q, <2>2 DEF Goto
<1>b. ASSUME base'[j] = base[j]
      PROVE  Old(j)' = Old(j) /\ Carried(j)' = Carried(j) /\ Burdened(j)' = Burdened(j)
  BY <1>b DEF Old, Carried, Burdened
<1>1. CASE Checkout(j)
  <2>1. Published(Last(remote), started)
    BY AppendAny DEF Guarded, Shaped, Unharmed, Last
  <2>2. /\ pc'[j] = "checked_out" /\ dir'[j] = Last(remote) /\ Old(j)' = Last(remote) /\ ~tainted'[j]
        /\ UNCHANGED <<remote, started>>
    BY <1>1, <1>s DEF Checkout, Goto, Old
  <2>3. Careful(j)'
    BY <2>1, <2>2 DEF Careful, Staging
  <2> QED
    BY <1>1, <1>s, <1>q, <2>3 DEF Checkout, Goto
<1>2. CASE Preflight(j)
  <2>1. pc[j] = "checked_out" /\ UNCHANGED <<remote, started, base, app, dir, tainted>>
    BY <1>2 DEF Preflight
  <2>2. Verified(dir[j], FALSE)
    BY <1>s, <2>1 DEF Careful, Published
  <2>3. pc'[j] = "ready" /\ Old(j)' = Old(j)
    BY <1>2, <1>s, <2>1, <2>2 DEF Preflight, Goto, Old
  <2>4. Careful(j)'
    BY <1>s, <2>1, <2>3 DEF Careful, Staging
  <2> QED
    BY <1>2, <1>s, <1>q, <2>4 DEF Preflight, Goto
<1>3. CASE RunPipeline(j)
  <2>1. /\ started' = started + 1 /\ UNCHANGED <<remote, base, dir>>
        /\ \A i \in Jobs \ {j} : pc'[i] = pc[i] /\ app'[i] = app[i] /\ tainted'[i] = tainted[i]
    BY <1>3, <1>s DEF RunPipeline, Goto
  <2>2. Careful(j)'
    BY <1>3, RunIsCareful
  <2>3. \A i \in Jobs \ {j} : Careful(i)'
    BY <2>1, CarefulOthers
  <2>4. \A k \in DOMAIN remote : Published(remote[k], started')
    BY <1>s, <2>1, PublishedLater DEF Unharmed
  <2> QED
    BY <1>s, <2>1, <2>2, <2>3, <2>4 DEF Unharmed
<1>4. CASE Rot(j)
  <2>1. /\ UNCHANGED <<remote, started, pc, base, app>> /\ tainted'[j]
        /\ pc[j] \in {"ready", "ran", "backed_up", "copied", "indexed"}
        /\ \A i \in Jobs \ {j} : dir'[i] = dir[i] /\ tainted'[i] = tainted[i]
        /\ dir'[j].manifest = dir[j].manifest
    BY <1>4, <1>s DEF Rot, HasFields
  <2>2. Old(j)' = Old(j) /\ Burdened(j)' = Burdened(j) /\ (Completing(j) => Completing(j)')
    BY <1>b, <2>1 DEF Completing
  <2>3. Careful(j)'
    BY <1>s, <2>1, <2>2 DEF Careful, Staging
  <2> QED
    BY <1>q, <2>1, <2>3
<1>5. CASE StageBackup(j)
  <2>1. CASE Stageable(j)
    <3>1. /\ UNCHANGED <<remote, started, base, app, tainted>> /\ pc'[j] = "backed_up" /\ pc[j] = "ran"
          /\ \A i \in Jobs \ {j} : pc'[i] = pc[i] /\ dir'[i] = dir[i]
          /\ dir'[j].archives = Put(dir[j].archives, ArchiveName(j), dir[j].db)
      BY <1>5, <1>s, <2>1 DEF StageBackup, Goto, HasFields
    <3>0. ~Burdened(j)
      BY <1>s, <2>1, <3>1, StagesUnburdened DEF Careful, Stageable
    <3>2. /\ Old(j)' = Old(j) /\ ArchiveName(j)' = ArchiveName(j) /\ Burdened(j)' = Burdened(j)
          /\ (Completing(j) => Completing(j)') /\ (Acceptable(j) => Acceptable(j)')
      BY <3>1 DEF Old, Carried, Burdened, ArchiveName, Completing, Acceptable
    <3>3. ~tainted[j] => \A name \in DOMAIN Old(j).archives : dir'[j].archives[name] = Old(j).archives[name]
      <4> SUFFICES ASSUME ~tainted[j], NEW name \in DOMAIN Old(j).archives
                   PROVE  dir'[j].archives[name] = Old(j).archives[name]
        OBVIOUS
      <4>1. dir[j] = Old(j) /\ name # ArchiveName(j) /\ name \in DOMAIN dir[j].archives
        BY <1>s, <3>0, <3>1 DEF Careful, Acceptable, Staging
      <4>2. Put(dir[j].archives, ArchiveName(j), dir[j].db)[name] = dir[j].archives[name]
        BY <4>1 DEF Put
      <4> QED
        BY <3>1, <4>1, <4>2
    <3>4. Careful(j)'
      BY <1>s, <3>0, <3>1, <3>2, <3>3 DEF Careful, Staging
    <3> QED
      BY <1>q, <3>1, <3>4
  <2>2. CASE ~Stageable(j)
    <3>1. pc[j] = "ran" /\ Goto(j, "refused") /\ UNCHANGED <<remote, started, base, app, dir, tainted>>
      BY <1>5, <2>2 DEF StageBackup
    <3>2. ASSUME ~tainted[j], ~Burdened(j) PROVE Stageable(j)
      <4>1. dir[j] = Old(j) /\ Acceptable(j) /\ Verified(Old(j), FALSE)
        BY <1>s, <3>1, <3>2 DEF Careful, Published
      <4> QED
        BY <4>1 DEF Stageable, Acceptable
    <3> QED
      BY <1>r, <2>2, <3>1, <3>2
  <2> QED
    BY <2>1, <2>2
<1>6. CASE StageDatabase(j)
  <2>1. CASE Restores(dir[j], ArchiveName(j))
    <3>1. /\ UNCHANGED <<remote, started, base, app, tainted>> /\ pc'[j] = "copied" /\ pc[j] = "backed_up"
          /\ \A i \in Jobs \ {j} : pc'[i] = pc[i] /\ dir'[i] = dir[i]
          /\ dir'[j].archives = dir[j].archives
      BY <1>6, <1>s, <2>1 DEF StageDatabase, Goto, HasFields
    <3>2. /\ Old(j)' = Old(j) /\ Burdened(j)' = Burdened(j)
          /\ (Completing(j) => Completing(j)') /\ (Acceptable(j) => Acceptable(j)')
      BY <3>1 DEF Old, Carried, Burdened, ArchiveName, Completing, Acceptable
    <3>3. Careful(j)'
      BY <1>s, <3>1, <3>2 DEF Careful, Staging
    <3> QED
      BY <1>q, <3>1, <3>3
  <2>2. CASE ~Restores(dir[j], ArchiveName(j))
    <3>1. pc[j] = "backed_up" /\ Goto(j, "refused") /\ UNCHANGED <<remote, started, base, app, dir, tainted>>
      BY <1>6, <2>2 DEF StageDatabase
    <3>2. ASSUME ~tainted[j] PROVE Restores(dir[j], ArchiveName(j))
      <4>1. /\ ArchiveName(j) \in DOMAIN dir[j].archives
            /\ dir[j].archives[ArchiveName(j)] = Old(j).db
            /\ Readable(Old(j).db)
        BY <1>s, <3>1, <3>2 DEF Safe, Archived, Staging, Careful, Published, Verified
      <4>2. ArchiveName(j).sha = Old(j).db
        BY DEF ArchiveName
      <4> QED
        BY <4>1, <4>2 DEF Restores
    <3> QED
      BY <1>r, <2>2, <3>1, <3>2
  <2> QED
    BY <2>1, <2>2
<1>7. CASE StageManifest(j)
  <2>1. /\ UNCHANGED <<remote, started, base, app, tainted>> /\ pc'[j] = "indexed" /\ pc[j] = "copied"
        /\ \A i \in Jobs \ {j} : pc'[i] = pc[i] /\ dir'[i] = dir[i]
        /\ dir'[j].archives = dir[j].archives
        /\ dir'[j].manifest = [app[j].manifest EXCEPT !.backups = Youngest(AllBackups(j))]
    BY <1>7, <1>s DEF StageManifest, Goto, HasFields
  <2>2. /\ Old(j)' = Old(j) /\ Burdened(j)' = Burdened(j)
        /\ (Completing(j) => Completing(j)') /\ (Acceptable(j) => Acceptable(j)')
    BY <2>1 DEF Old, Carried, Burdened, ArchiveName, Completing, Acceptable
  <2>3. dir'[j].manifest.sha = app[j].db /\ dir'[j].manifest.last = LastRun(app[j].db)
    <3>1. app[j].manifest = ManifestOf(app[j].db, Carried(j))
      BY <1>s, <2>1 DEF Careful, Completing, Staging
    <3> QED
      BY <2>1, <3>1 DEF ManifestOf
  <2>4. Careful(j)'
    BY <1>s, <2>1, <2>2, <2>3 DEF Careful, Staging
  <2> QED
    BY <1>q, <2>1, <2>4
<1>8. CASE StageRotate(j)
  <2>1. CASE Verified(dir[j], TRUE) /\ LastRun(dir[j].db) = LastRun(app[j].db)
    <3>1. /\ UNCHANGED <<remote, started, base, app, tainted>> /\ pc'[j] = "staged" /\ pc[j] = "indexed"
          /\ \A i \in Jobs \ {j} : pc'[i] = pc[i] /\ dir'[i] = dir[i]
          /\ dir'[j].manifest = dir[j].manifest /\ dir'[j].db = dir[j].db
          /\ dir'[j].archives = Restrict(dir[j].archives, DOMAIN dir[j].archives \ Stale(AllBackups(j)))
      BY <1>8, <1>s, <2>1 DEF StageRotate, Goto, HasFields
    <3>2. /\ Old(j)' = Old(j) /\ Burdened(j)' = Burdened(j)
          /\ (Completing(j) => Completing(j)') /\ (Acceptable(j) => Acceptable(j)')
      BY <3>1 DEF Old, Carried, Burdened, ArchiveName, Completing, Acceptable
    <3>3. Verified(dir'[j], FALSE)
      BY <2>1, <3>1, RotatedVerifies
    <3>4. Careful(j)'
      BY <1>s, <3>1, <3>2, <3>3 DEF Careful, Staging
    <3> QED
      BY <1>q, <3>1, <3>4
  <2>2. CASE ~(Verified(dir[j], TRUE) /\ LastRun(dir[j].db) = LastRun(app[j].db))
    <3>1. pc[j] = "indexed" /\ Goto(j, "refused") /\ UNCHANGED <<remote, started, base, app, dir, tainted>>
      BY <1>8, <2>2 DEF StageRotate
    <3>2. tainted[j]
      BY <2>2, <3>1, RotateAccepts
    <3> QED
      BY <1>r, <3>1, <3>2
  <2> QED
    BY <2>1, <2>2
<1>9. CASE Push(j)
  <2>1. CASE Goto(j, "rejected") /\ remote' = remote
    BY <1>9, <1>r, <2>1 DEF Push
  <2>2. CASE Verified(dir[j], FALSE) /\ FastForward(j) /\ remote' = Append(base[j], dir[j]) /\ Goto(j, "pushed")
    <3>1. /\ UNCHANGED <<started, base, dir, app, tainted>> /\ pc'[j] = "pushed" /\ pc[j] = "staged"
          /\ \A i \in Jobs \ {j} : pc'[i] = pc[i]
      BY <1>9, <1>s, <2>2 DEF Push, Goto
    <3>2. Careful(j)'
      <4>1. Old(j)' = Old(j) /\ Burdened(j)' = Burdened(j)
        BY <1>b, <3>1
      <4> QED
        BY <1>s, <3>1, <4>1 DEF Careful, Staging
    <3>3. \A i \in Jobs : Careful(i)'
      BY <3>1, <3>2, CarefulOthers
    <3>4. /\ DOMAIN remote = 1..Len(remote) /\ DOMAIN remote' = 1..(Len(remote) + 1) /\ Len(remote) \in Nat
          /\ \A k \in 1..Len(remote) : remote'[k] = remote[k]
          /\ remote'[Len(remote) + 1] = dir[j]
      BY <2>2, AppendAny DEF FastForward, Guarded, Shaped
    <3>5. Published(dir[j], started)
      BY <3>1, PushedIsPublished
    <3>6. \A k \in 1..(Len(remote) + 1) : k \in 1..Len(remote) \/ k = Len(remote) + 1
      BY <3>4
    <3>7. \A k \in DOMAIN remote' : Published(remote'[k], started)
      BY <3>4, <3>5, <3>6 DEF Unharmed
    <3> QED
      BY <1>s, <3>1, <3>3, <3>7 DEF Unharmed
  <2>3. Verified(dir[j], FALSE)
    BY <1>9, <1>s DEF Push, Careful
  <2> QED
    BY <1>9, <2>1, <2>2, <2>3 DEF Push
<1>10. CASE End(j)
  <2>1. pc'[j] = "idle"
    BY <1>10, <1>s DEF End, Goto
  <2>2. Careful(j)'
    BY <2>1 DEF Careful, Staging
  <2> QED
    BY <1>10, <1>s, <1>q, <2>2 DEF End, Goto
<1> QED
  BY <1>1, <1>2, <1>3, <1>4, <1>5, <1>6, <1>7, <1>8, <1>9, <1>10

(* The guard fails closed on damage and on the inherited index, and on        *)
(* nothing else: from a branch with a first state, a cycle that nothing       *)
(* outside touched and that inherits no index passes every check of the       *)
(* workflow and of stage_live, after any number of cycles, accepted or        *)
(* refused; and one that inherits an index is never staged.                   *)
THEOREM RefusalsAreAlwaysExplained ==
    ASSUME ~StartsEmpty
    PROVE  Spec => []RefusalsAreExplained
<1>1. Guarded /\ Safe /\ Whole /\ Unharmed /\ [Next]_vars => Unharmed'
  <2>1. ASSUME Unharmed, UNCHANGED vars
        PROVE  Unharmed'
    BY <2>1, CarefulOthers DEF vars, Unharmed
  <2> QED
    BY <2>1, UnharmedStep DEF Next
<1>2. Unharmed => RefusalsAreExplained
  BY DEF Unharmed, Careful, Staging, RefusalsAreExplained
<1> QED
  BY <1>1, <1>2, AlwaysWhole, UnharmedInit, PTL DEF Spec
==============================================================================
