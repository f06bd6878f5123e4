------------------------- MODULE IssuePublicationProofs -------------------------
(***************************************************************************)
(* The publish protocol, for any repositories, observations, runs, days    *)
(* and faults: the history never claims more than GitHub shows, a SUCCESS  *)
(* is complete, and the Issues implement the log of announcements.         *)
(*                                                                         *)
(* The argument follows one report through the protocol.  The decisions    *)
(* hand out triggers the history does not know (Fresh); nothing is         *)
(* remembered between there and the Issue; from the Issue on, every        *)
(* finding of the report is either saved with it or still to be saved.     *)
(***************************************************************************)
EXTENDS IssuePublication, NotificationRulesProofs, SequenceTheorems

-----------------------------------------------------------------------------
(* What the variables range over. *)
Releases    == {obs.release : obs \in Observations}
Contents    == {obs.content : obs \in Observations}
Confidences == {obs.confidence : obs \in Observations}
Parts       == {obs.parts : obs \in Observations}

AnyTrigger ==
    [kind : {"FIRST_DISCOVERY"}, gem : Gems]
      \union [kind : {"SCORE_INCREASE"}, gem : Gems, last : Nat, score : Nat]
      \union [kind : {"NEW_RELEASE"}, gem : Gems, release : Releases]
      \union [kind : {"MAJOR_CHANGE"}, gem : Gems, content : Contents]

AnyFinding ==
    [gem : Gems, score : Nat, confidence : Confidences, parts : Parts, trigger : AnyTrigger]
Marks          == [gem : Gems, trigger : AnyTrigger, score : Nat]
AnyFingerprint == (Nat \X SUBSET Marks) \union {<<>>}
AnyResult      == {"running", "SUCCESS", "SUCCESS_NO_FINDINGS", "PARTIAL_SUCCESS", "PARTIAL_SUCCESS_RATE_LIMIT"}

AnyRow ==
    [state : {"NONE", "PENDING_REPORT", "REPORT_PUBLISHED"}, fingerprint : AnyFingerprint,
     issue : Nat, result : AnyResult]
AnyNote ==
    [gem : Gems, trigger : AnyTrigger, score : Nat, issue : Nat, world : Observations \union {Unseen}]
AnyHistory == [runs : Seq(AnyRow), notes : Seq(AnyNote)]
AnyIssue   == [fingerprint : AnyFingerprint, gems : Seq(AnyFinding)]

Typed ==
    /\ day \in 1..MaxDays /\ run \in 0..MaxRuns
    /\ pc \in {"idle"} \union Started
    /\ world \in [Gems -> Observations \union {Unseen}]
    /\ report \in Seq(AnyFinding) /\ toNotify \in Seq(AnyFinding)
    /\ found \in 0..Len(issues)
    /\ failure \in {"none", "github", "stale", "unique", "database"}
    /\ db \in AnyHistory /\ pushed \in AnyHistory
    /\ issues \in Seq(AnyIssue)

-----------------------------------------------------------------------------
(* What is true of a history and of an Issue at any time. *)
MarksOf(gems) == {[gem |-> f.gem, trigger |-> f.trigger, score |-> f.score] : f \in ToSet(gems)}

Honest(is) == \A i \in DOMAIN is : is[i].fingerprint[2] = MarksOf(is[i].gems)

(* A mark of a published row is an Issue's, and so is a note. *)
RowShown(row, is) ==
    IF row.state = "REPORT_PUBLISHED"
      THEN row.issue \in DOMAIN is /\ is[row.issue].fingerprint = row.fingerprint
      ELSE row.issue = 0
NoteShown(note, is) ==
    /\ note.issue \in DOMAIN is
    /\ \E f \in ToSet(is[note.issue].gems) : f.gem = note.gem /\ f.trigger = note.trigger

Noted(notes, trigger, issue) ==
    \E i \in DOMAIN notes : notes[i].trigger = trigger /\ notes[i].issue = issue

RowComplete(row, notes) ==
    /\ row.state = "REPORT_PUBLISHED"
    /\ \A m \in row.fingerprint[2] : Noted(notes, m.trigger, row.issue)
Complete(h) == \A r \in DOMAIN h.runs : h.runs[r].result = "SUCCESS" => RowComplete(h.runs[r], h.notes)

(* A trigger names its repository and, for an increase, an earlier note. *)
Sound(notes) ==
    \A i \in DOMAIN notes :
       /\ notes[i].trigger.gem = notes[i].gem
       /\ notes[i].trigger.kind = "SCORE_INCREASE" => notes[i].trigger.last < i

TriggersOf(notes) == {notes[i].trigger : i \in DOMAIN notes}

(* Findings that can be saved: each of another repository, none known. *)
FreshOne(f, notes) ==
    /\ f.trigger.gem = f.gem
    /\ f.trigger \notin TriggersOf(notes)
    /\ f.trigger.kind = "SCORE_INCREASE" => f.trigger.last <= Len(notes)
Fresh(s, notes) ==
    /\ \A k \in DOMAIN s : FreshOne(s[k], notes)
    /\ \A i, k \in DOMAIN s : s[i].gem = s[k].gem => i = k

-----------------------------------------------------------------------------
(* Where the report is, step by step. *)
BeforeIssue == {"publishing", "pending", "searched", "found"}

Current == db.runs[Row]

ReportRow ==
    /\ pc \in {"analysing", "publishing"} => Current = NoRow
    /\ pc \in {"pending", "searched", "found"} =>
         Current.state = "PENDING_REPORT" /\ Current.fingerprint = Fingerprint(report)
    /\ pc \in Started \ {"finished"} => Current.result = "running"
    /\ pc \in {"notifying", "finishing"} /\ Current.state = "REPORT_PUBLISHED" =>
         Current.fingerprint = Fingerprint(report)

IssueFound ==
    pc \in {"found", "notifying"} =>
      found \in DOMAIN issues /\ issues[found].fingerprint = Fingerprint(report)

(* Each finding of a published report is saved, or is going to be. *)
Saving ==
    /\ pc = "notifying" =>
         /\ Current.state = "REPORT_PUBLISHED" /\ Current.issue = found
         /\ ToSet(toNotify) \subseteq ToSet(report)
         /\ \A f \in ToSet(report) : f \in ToSet(toNotify) \/ Noted(db.notes, f.trigger, found)
    /\ pc = "finishing" /\ failure = "none" /\ report # <<>> /\ found # 0 =>
         /\ Current.state = "REPORT_PUBLISHED" /\ Current.issue = found
         /\ \A f \in ToSet(report) : Noted(db.notes, f.trigger, found)

Control ==
    /\ pc = "idle" => db = pushed
    /\ pc # "idle" => Row >= 1
    /\ pc \in {"analysing"} \union BeforeIssue => db.notes = pushed.notes
    /\ pc \in {"idle", "analysing", "publishing", "pending", "searched"} => found = 0
    /\ pc \notin {"finishing", "finished"} => failure = "none"
    /\ pc \in BeforeIssue => report # <<>>
    /\ pc \in BeforeIssue \union {"notifying"} => Fresh(report, pushed.notes)
    /\ pc = "notifying" => Fresh(toNotify, db.notes)
    /\ failure \notin {"stale", "unique"}

Remembering == TriggersOf(pushed.notes) \subseteq TriggersOf(db.notes)

Kept(h, is) ==
    /\ \A r \in DOMAIN h.runs : RowShown(h.runs[r], is)
    /\ \A i \in DOMAIN h.notes : NoteShown(h.notes[i], is)
    /\ Complete(h) /\ Sound(h.notes)

Publishing ==
    /\ Typed
    /\ Honest(issues)
    /\ Kept(db, issues) /\ Kept(pushed, issues)
    /\ ReportRow /\ IssueFound /\ Saving /\ Control /\ Remembering

-----------------------------------------------------------------------------
LEMMA ElementsOfSeq ==
    ASSUME NEW T, NEW s \in Seq(T)
    PROVE  ToSet(s) \subseteq T
  BY DEF ToSet

LEMMA AnyFindingCompares ==
    ASSUME RulesAssumption, PublicationAssumption, NEW S \in SUBSET AnyFinding
    PROVE  Comparable(S)
<1> SUFFICES ASSUME NEW f \in AnyFinding
             PROVE  /\ f.score \in Int /\ f.gem \in Int
                    /\ f.parts.novelty \in Int /\ f.parts.visibility \in Int /\ f.parts.activity \in Int
  BY DEF Comparable
<1>1. f.score \in Nat
  BY DEF AnyFinding
<1>2. f.gem \in Gems
  BY DEF AnyFinding
<1>3. Nat \subseteq Int /\ Gems \subseteq Int
  BY DEF RulesAssumption
<1>4. f.score \in Int
  BY <1>1, <1>3
<1>5. f.gem \in Int
  BY <1>2, <1>3
<1>6. PICK obs \in Observations : f.parts = obs.parts
  BY DEF AnyFinding, Parts
<1>7. f.parts.novelty \in Nat /\ f.parts.visibility \in Nat /\ f.parts.activity \in Nat
  BY <1>6 DEF PublicationAssumption
<1> QED
  BY <1>3, <1>4, <1>5, <1>7

LEMMA FingerprintTyped ==
    ASSUME PublicationAssumption, day \in 1..MaxDays, NEW s \in Seq(AnyFinding)
    PROVE  /\ Fingerprint(s) \in AnyFingerprint
           /\ Fingerprint(s)[2] = MarksOf(s)
<1>1. day \in Nat
  BY DEF PublicationAssumption
<1>2. ASSUME NEW f \in ToSet(s)
      PROVE  [gem |-> f.gem, trigger |-> f.trigger, score |-> f.score] \in Marks
  <2>1. f \in AnyFinding
    BY ElementsOfSeq
  <2>2. f.gem \in Gems /\ f.trigger \in AnyTrigger /\ f.score \in Nat
    BY <2>1 DEF AnyFinding
  <2> QED
    BY <2>2 DEF Marks
<1>3. MarksOf(s) \in SUBSET Marks
  BY <1>2 DEF MarksOf
<1>4. Fingerprint(s) = <<day, MarksOf(s)>>
  BY DEF Fingerprint, MarksOf
<1> QED
  BY <1>1, <1>3, <1>4 DEF AnyFingerprint

LEMMA IssueLists ==
    ASSUME NEW is \in Seq(AnyIssue), NEW i \in DOMAIN is
    PROVE  is[i].gems \in Seq(AnyFinding)
<1>1. is[i] \in AnyIssue
  OBVIOUS
<1> QED
  BY <1>1 DEF AnyIssue

(* Same fingerprint, same announcements. *)
LEMMA SameMarks ==
    ASSUME NEW s, NEW t, MarksOf(s) = MarksOf(t), NEW f \in ToSet(s)
    PROVE  \E k \in ToSet(t) : k.gem = f.gem /\ k.trigger = f.trigger
<1>1. [gem |-> f.gem, trigger |-> f.trigger, score |-> f.score] \in MarksOf(t)
  BY DEF MarksOf
<1> QED
  BY <1>1 DEF MarksOf

LEMMA NewestRow ==
    ASSUME NEW notes \in Seq(AnyNote), NEW g, RowsOf(notes, g) # {}
    PROVE  /\ Latest(notes, g) \in RowsOf(notes, g)
           /\ \A k \in RowsOf(notes, g) : k <= Latest(notes, g)
<1> DEFINE n == Len(notes)
           R == RowsOf(notes, g)
           T == {n - i : i \in R}
<1>1. n \in Nat /\ R \subseteq 1..n
  BY DEF RowsOf
<1>2. T \subseteq Nat /\ T # {}
  BY <1>1
<1>3. PICK x \in T : \A y \in T : x <= y
  <2> HIDE DEF T
  <2> QED
    BY <1>2, LeastNatural
<1>4. PICK i \in R : x = n - i
  BY <1>3
<1>5. \A k \in R : k <= i
  <2> SUFFICES ASSUME NEW k \in R
               PROVE  k <= i
    OBVIOUS
  <2>1. n - i <= n - k
    BY <1>3, <1>4
  <2> QED
    BY <1>1, <2>1
<1> QED
  BY <1>4, <1>5 DEF Latest

(* make_notification_decision hands out triggers the history does not have.   *)
LEMMA DecisionsAreFresh ==
    ASSUME RulesAssumption, PublicationAssumption,
           NEW notes \in Seq(AnyNote), Sound(notes), NEW g \in Gems, NEW obs \in Observations,
           Decide(notes, g, obs) # None
    PROVE  /\ Finding(g, obs, Decide(notes, g, obs)) \in AnyFinding
           /\ FreshOne(Finding(g, obs, Decide(notes, g, obs)), notes)
<1> DEFINE d == Decide(notes, g, obs)
           last == Latest(notes, g)
           release == NewRelease(g, obs.release)
           content == MajorChange(g, obs.content)
<1>1. obs.score \in Nat /\ Len(notes) \in Nat /\ DOMAIN notes = 1..Len(notes)
  BY DEF PublicationAssumption
<1>2. Qualifies(obs)
  BY DEF Decide
<1>3. ASSUME NEW i \in DOMAIN notes, notes[i].trigger.gem = g
      PROVE  i \in RowsOf(notes, g)
  BY <1>3 DEF Sound, RowsOf
<1>4. SUFFICES /\ d \in AnyTrigger /\ d.gem = g
               /\ d \notin TriggersOf(notes)
               /\ d.kind = "SCORE_INCREASE" => d.last <= Len(notes)
  <2>1. obs.confidence \in Confidences /\ obs.parts \in Parts
    BY DEF Confidences, Parts
  <2> QED
    BY <1>1, <2>1, <1>4 DEF Finding, AnyFinding, FreshOne
<1>5. CASE RowsOf(notes, g) = {}
  <2>1. d = FirstDiscovery(g)
    BY <1>2, <1>5 DEF Decide
  <2>2. d \notin TriggersOf(notes)
    BY <1>3, <1>5, <2>1 DEF TriggersOf, FirstDiscovery
  <2> QED
    BY <2>1, <2>2 DEF FirstDiscovery, AnyTrigger
<1>6. CASE RowsOf(notes, g) # {}
  <2>1. last \in RowsOf(notes, g) /\ \A k \in RowsOf(notes, g) : k <= last
    BY <1>6, NewestRow
  <2>2. last \in 1..Len(notes)
    BY <1>1, <2>1 DEF RowsOf
  <2>3. d \in {ScoreIncrease(g, last, obs.score), release, content}
        /\ (d = release => ~AlreadyNotified(notes, g, release))
        /\ (d = content => ~AlreadyNotified(notes, g, content))
    <3>1. d = IF obs.score - notes[last].score >= ScoreDelta THEN ScoreIncrease(g, last, obs.score)
              ELSE IF obs.release # 0 /\ ~AlreadyNotified(notes, g, release) THEN release
              ELSE IF ~AlreadyNotified(notes, g, content) THEN content ELSE None
      BY <1>2, <1>6 DEF Decide
    <3>2. /\ release # content /\ release # ScoreIncrease(g, last, obs.score)
          /\ content # ScoreIncrease(g, last, obs.score)
      <4>1. /\ release.kind = "NEW_RELEASE" /\ content.kind = "MAJOR_CHANGE"
            /\ ScoreIncrease(g, last, obs.score).kind = "SCORE_INCREASE"
        BY DEF NewRelease, MajorChange, ScoreIncrease
      <4> QED
        BY <4>1
    <3> HIDE DEF release, content, last, d
    <3>3. d # None
      BY DEF d
    <3> QED
      BY <3>1, <3>2, <3>3
  <2>4. CASE d = ScoreIncrease(g, last, obs.score)
    <3>1. ASSUME NEW i \in DOMAIN notes, notes[i].trigger = d
          PROVE  FALSE
      <4>1. notes[i].trigger.gem = g /\ notes[i].trigger.kind = "SCORE_INCREASE" /\ notes[i].trigger.last = last
        BY <2>4, <3>1 DEF ScoreIncrease
      <4>2. last < i /\ i <= last
        BY <1>3, <2>1, <4>1 DEF Sound
      <4> QED
        BY <1>1, <2>2, <4>2
    <3> QED
      BY <1>1, <2>2, <2>4, <3>1 DEF ScoreIncrease, AnyTrigger, TriggersOf
  <2>5. CASE d = release
    <3>1. ASSUME NEW i \in DOMAIN notes, notes[i].trigger = d
          PROVE  FALSE
      <4>1. notes[i].trigger.gem = g
        BY <2>5, <3>1 DEF NewRelease
      <4> QED
        BY <1>3, <2>3, <2>5, <3>1, <4>1 DEF AlreadyNotified
    <3> QED
      BY <2>5, <3>1 DEF NewRelease, AnyTrigger, TriggersOf, Releases
  <2>6. CASE d = content
    <3>1. ASSUME NEW i \in DOMAIN notes, notes[i].trigger = d
          PROVE  FALSE
      <4>1. notes[i].trigger.gem = g
        BY <2>6, <3>1 DEF MajorChange
      <4> QED
        BY <1>3, <2>3, <2>6, <3>1, <4>1 DEF AlreadyNotified
    <3> QED
      BY <2>6, <3>1 DEF MajorChange, AnyTrigger, TriggersOf, Contents
  <2> QED
    BY <2>3, <2>4, <2>5, <2>6
<1> QED
  BY <1>5, <1>6

-----------------------------------------------------------------------------
(* How the parts of the history change. *)
WithRow(h, r, row) == [runs |-> [h.runs EXCEPT ![r] = row], notes |-> h.notes]
WithRun(h)         == [runs |-> Append(h.runs, NoRow), notes |-> h.notes]
WithNote(h, note)  == [runs |-> h.runs, notes |-> Append(h.notes, note)]

LEMMA RowReplaced ==
    ASSUME NEW h \in AnyHistory, NEW r \in DOMAIN h.runs, NEW row \in AnyRow
    PROVE  /\ WithRow(h, r, row) \in AnyHistory
           /\ WithRow(h, r, row).notes = h.notes
           /\ Len(WithRow(h, r, row).runs) = Len(h.runs)
           /\ WithRow(h, r, row).runs[r] = row
           /\ \A q \in DOMAIN h.runs : q # r => WithRow(h, r, row).runs[q] = h.runs[q]
<1>1. h.runs \in Seq(AnyRow) /\ h.notes \in Seq(AnyNote)
  BY DEF AnyHistory
<1>2. r \in 1..Len(h.runs)
  BY <1>1
<1> QED
  BY <1>1, <1>2, ExceptSeq DEF WithRow, AnyHistory

LEMMA KeptWithRow ==
    ASSUME NEW h \in AnyHistory, NEW is, Kept(h, is), NEW r \in DOMAIN h.runs, NEW row \in AnyRow,
           RowShown(row, is), row.result = "SUCCESS" => RowComplete(row, h.notes)
    PROVE  Kept(WithRow(h, r, row), is)
<1> DEFINE k == WithRow(h, r, row)
<1>1. /\ k.notes = h.notes /\ DOMAIN k.runs = DOMAIN h.runs
      /\ k.runs[r] = row
      /\ \A q \in DOMAIN h.runs : q # r => k.runs[q] = h.runs[q]
  <2>1. h.runs \in Seq(AnyRow) /\ k.runs \in Seq(AnyRow)
    BY RowReplaced DEF AnyHistory
  <2> QED
    BY <2>1, RowReplaced
<1> HIDE DEF k
<1> QED
  BY <1>1 DEF Kept, Complete, k

LEMMA RunRecorded ==
    ASSUME NEW h \in AnyHistory, NEW is, Kept(h, is)
    PROVE  /\ WithRun(h) \in AnyHistory /\ Kept(WithRun(h), is)
           /\ Len(WithRun(h).runs) = Len(h.runs) + 1
           /\ WithRun(h).runs[Len(h.runs) + 1] = NoRow
<1> DEFINE k == WithRun(h)
<1>1. NoRow \in AnyRow /\ NoRow.state = "NONE" /\ NoRow.issue = 0 /\ NoRow.result = "running"
  BY DEF NoRow, AnyRow, AnyFingerprint, AnyResult
<1>2. h.runs \in Seq(AnyRow) /\ h.notes \in Seq(AnyNote)
  BY DEF AnyHistory
<1>3. /\ k.notes = h.notes /\ k.runs \in Seq(AnyRow)
      /\ Len(k.runs) = Len(h.runs) + 1 /\ k.runs[Len(h.runs) + 1] = NoRow
      /\ \A q \in DOMAIN h.runs : k.runs[q] = h.runs[q]
  BY <1>1, <1>2, AppendProperties DEF WithRun
<1>4. \A r \in DOMAIN k.runs : r \in DOMAIN h.runs \/ k.runs[r] = NoRow
  BY <1>2, <1>3
<1>5. k \in AnyHistory
  BY <1>2, <1>3 DEF WithRun, AnyHistory
<1>6. RowShown(NoRow, is)
  BY <1>1 DEF RowShown
<1> HIDE DEF k
<1>7. Kept(k, is)
  BY <1>1, <1>3, <1>4, <1>6 DEF Kept, Complete
<1> QED
  BY <1>3, <1>5, <1>7 DEF k

LEMMA AppendedNote ==
    ASSUME NEW h \in AnyHistory, NEW note
    PROVE  [h EXCEPT !.notes = Append(@, note)] = WithNote(h, note)
<1> DEFINE more == Append(h.notes, note)
<1>1. PICK a \in Seq(AnyRow), b \in Seq(AnyNote) : h = [runs |-> a, notes |-> b]
  BY DEF AnyHistory
<1> HIDE DEF more
<1>2. [h EXCEPT !.notes = more] = [runs |-> h.runs, notes |-> more]
  BY <1>1
<1> QED
  BY <1>2 DEF WithNote, more

LEMMA NoteSaved ==
    ASSUME NEW h \in AnyHistory, NEW is, Kept(h, is), NEW note \in AnyNote,
           NoteShown(note, is), note.trigger.gem = note.gem,
           note.trigger.kind = "SCORE_INCREASE" => note.trigger.last <= Len(h.notes)
    PROVE  /\ WithNote(h, note) \in AnyHistory /\ Kept(WithNote(h, note), is)
           /\ WithNote(h, note).runs = h.runs
           /\ Len(WithNote(h, note).notes) = Len(h.notes) + 1
           /\ TriggersOf(WithNote(h, note).notes) = TriggersOf(h.notes) \union {note.trigger}
           /\ \A t, n : Noted(h.notes, t, n) => Noted(WithNote(h, note).notes, t, n)
           /\ Noted(WithNote(h, note).notes, note.trigger, note.issue)
<1> DEFINE k == WithNote(h, note)
           n == Len(h.notes)
<1>1. h.runs \in Seq(AnyRow) /\ h.notes \in Seq(AnyNote)
  BY DEF AnyHistory
<1>2. /\ k.runs = h.runs /\ k.notes \in Seq(AnyNote)
      /\ Len(k.notes) = n + 1 /\ k.notes[n + 1] = note
      /\ \A i \in DOMAIN h.notes : k.notes[i] = h.notes[i]
  BY <1>1, AppendProperties DEF WithNote
<1>3. n \in Nat /\ DOMAIN h.notes = 1..n /\ DOMAIN k.notes = 1..(n + 1)
  BY <1>1, <1>2
<1>4. k \in AnyHistory
  BY <1>1, <1>2 DEF WithNote, AnyHistory
<1> HIDE DEF k
<1>5. \A i \in DOMAIN k.notes : i \in DOMAIN h.notes \/ i = n + 1
  BY <1>3
<1>6. \A i \in DOMAIN k.notes : NoteShown(k.notes[i], is)
  BY <1>2, <1>5 DEF Kept
<1>7. Sound(k.notes)
  <2> SUFFICES ASSUME NEW i \in DOMAIN k.notes
               PROVE  /\ k.notes[i].trigger.gem = k.notes[i].gem
                      /\ k.notes[i].trigger.kind = "SCORE_INCREASE" => k.notes[i].trigger.last < i
    BY DEF Sound
  <2>1. CASE i \in DOMAIN h.notes
    BY <1>2, <2>1 DEF Kept, Sound
  <2>2. CASE i = n + 1
    <3>1. note.trigger.kind = "SCORE_INCREASE" => note.trigger.last \in Nat
      BY DEF AnyNote, AnyTrigger
    <3> QED
      BY <1>2, <1>3, <2>2, <3>1
  <2> QED
    BY <1>5, <2>1, <2>2
<1>8. \A t, m : Noted(h.notes, t, m) => Noted(k.notes, t, m)
  BY <1>2, <1>3 DEF Noted
<1>9. Complete(k)
  BY <1>2, <1>8 DEF Kept, Complete, RowComplete
<1>10. TriggersOf(k.notes) = TriggersOf(h.notes) \union {note.trigger}
  <2>1. n + 1 \in DOMAIN k.notes /\ DOMAIN h.notes \subseteq DOMAIN k.notes
    BY <1>3
  <2> QED
    BY <1>2, <1>5, <2>1 DEF TriggersOf
<1>11. Noted(k.notes, note.trigger, note.issue)
  <2>1. n + 1 \in DOMAIN k.notes
    BY <1>3
  <2> QED
    BY <1>2, <2>1 DEF Noted
<1> QED
  BY <1>2, <1>4, <1>6, <1>7, <1>8, <1>9, <1>10, <1>11 DEF Kept, k

(* Issues are only added. *)
Grown(is, js) == Len(is) <= Len(js) /\ \A i \in DOMAIN is : js[i] = is[i]

LEMMA KeptAsIssuesGrow ==
    ASSUME NEW is \in Seq(AnyIssue), NEW js \in Seq(AnyIssue), Grown(is, js), NEW h, Kept(h, is)
    PROVE  Kept(h, js)
<1>1. \A i \in DOMAIN is : i \in DOMAIN js /\ js[i] = is[i]
  BY DEF Grown
<1> QED
  BY <1>1 DEF Kept, RowShown, NoteShown

(* The selection of any findings is a report. *)
LEMMA ReportOfFindings ==
    ASSUME RulesAssumption, NEW S \in SUBSET AnyFinding, Findings(S), NEW notes,
           \A f \in S : FreshOne(f, notes)
    PROVE  /\ InOrder(Selected(S)) \in Seq(AnyFinding)
           /\ Fresh(InOrder(Selected(S)), notes)
           /\ S # {} => InOrder(Selected(S)) # <<>>
<1> DEFINE E == Exceptional(S)
           N == Top(S \ E, NormalMax)
           T == Top(N \union E, AbsoluteMax)
           s == InOrder(T)
<1>1. E \in SUBSET S /\ S \ E \in SUBSET S
  BY DEF Exceptional
<1>2. N \in SUBSET (S \ E)
  BY <1>1, SubsetOfFindings, TopIsBounded DEF RulesAssumption
<1>3. N \union E \in SUBSET S /\ Findings(N \union E)
  BY <1>1, <1>2, SubsetOfFindings
<1>4. T \in SUBSET (N \union E) /\ Findings(T)
  BY <1>3, SubsetOfFindings, TopIsBounded DEF RulesAssumption
<1>5. /\ s \in Seq(T) /\ Len(s) = Cardinality(T) /\ ToSet(s) = T
      /\ \A i, k \in DOMAIN s : i < k => Before(s[i], s[k])
  BY <1>4, InOrderSorts
<1>6. T \in SUBSET S /\ T \in SUBSET AnyFinding
  BY <1>3, <1>4
<1> HIDE DEF s, T
<1>7. s \in Seq(AnyFinding)
  BY <1>5, <1>6, SeqMonotonic
<1>8. Fresh(s, notes)
  <2>1. DOMAIN s = 1..Len(s) /\ Len(s) \in Nat /\ \A i \in DOMAIN s : s[i] \in T
    BY <1>5
  <2>2. ASSUME NEW i \in DOMAIN s, NEW k \in DOMAIN s, i < k
        PROVE  s[i].gem # s[k].gem
    <3>1. s[i] # s[k]
      BY <1>4, <1>5, <2>1, <2>2, BeforeIsAnOrder DEF Findings
    <3> QED
      BY <1>4, <2>1, <3>1 DEF Findings, OnePerGem
  <2>3. \A i, k \in DOMAIN s : s[i].gem = s[k].gem => i = k
    <3> SUFFICES ASSUME NEW i \in DOMAIN s, NEW k \in DOMAIN s, s[i].gem = s[k].gem, i # k
                 PROVE  FALSE
      OBVIOUS
    <3>1. i < k \/ k < i
      BY <2>1
    <3> QED
      BY <2>2, <3>1
  <2>4. \A k \in DOMAIN s : FreshOne(s[k], notes)
    BY <1>6, <2>1
  <2> QED
    BY <2>3, <2>4 DEF Fresh
<1>9. S # {} => T # {}
  <2> SUFFICES ASSUME S # {}, T = {}
               PROVE  FALSE
    OBVIOUS
  <2>1. N \union E = {}
    <3> SUFFICES ASSUME N \union E # {}
                 PROVE  FALSE
      OBVIOUS
    <3>1. PICK f \in N \union E : TRUE
      OBVIOUS
    <3>2. AbsoluteMax \in Nat /\ AbsoluteMax # 0
      BY DEF RulesAssumption
    <3>3. Cardinality(T) = AbsoluteMax
      BY <1>3, <3>1, <3>2, TopIsFull DEF T
    <3> QED
      BY <3>2, <3>3, FS_EmptySet
  <2>2. PICK f \in S : TRUE
    OBVIOUS
  <2>3. f \in (S \ E) \ N /\ Findings(S \ E)
    BY <1>1, <2>1, <2>2, SubsetOfFindings
  <2>4. NormalMax \in Nat /\ NormalMax # 0
    BY DEF RulesAssumption
  <2>5. Cardinality(N) = NormalMax
    BY <2>3, <2>4, TopIsFull
  <2> QED
    BY <2>1, <2>4, <2>5, FS_EmptySet
<1>10. S # {} => s # <<>>
  <2>1. s = <<>> => T = {}
    BY <1>5, <1>6, FS_EmptySet, <1>4 DEF Findings
  <2> QED
    BY <1>9, <2>1
<1> QED
  BY <1>7, <1>8, <1>10 DEF Selected, s, T

LEMMA HeadAndRest ==
    ASSUME NEW T, NEW s \in Seq(T), s # <<>>
    PROVE  /\ Head(s) = s[1] /\ Tail(s) \in Seq(T) /\ 1 \in DOMAIN s
           /\ \A i \in DOMAIN Tail(s) : i + 1 \in DOMAIN s /\ i + 1 # 1 /\ Tail(s)[i] = s[i + 1]
           /\ ToSet(s) = {Head(s)} \union ToSet(Tail(s))
<1> DEFINE t == Tail(s)
<1>1. /\ Len(s) \in Nat \ {0} /\ DOMAIN s = 1..Len(s) /\ t \in Seq(T) /\ DOMAIN t = 1..(Len(s) - 1)
      /\ Head(s) = s[1] /\ \A i \in DOMAIN t : t[i] = s[i + 1]
  BY EmptySeq
<1>2. 1 \in DOMAIN s /\ \A i \in DOMAIN t : i + 1 \in DOMAIN s /\ i + 1 # 1
  BY <1>1
<1> HIDE DEF t
<1>3. \A i \in DOMAIN s : i = 1 \/ (i - 1 \in DOMAIN t /\ s[i] = t[i - 1])
  BY <1>1
<1>4. ToSet(s) = {s[i] : i \in DOMAIN s} /\ ToSet(t) = {t[i] : i \in DOMAIN t}
  BY DEF ToSet
<1>5. ToSet(s) \subseteq {Head(s)} \union ToSet(t)
  BY <1>1, <1>3, <1>4
<1>6. {Head(s)} \union ToSet(t) \subseteq ToSet(s)
  BY <1>1, <1>2, <1>4
<1> QED
  BY <1>1, <1>2, <1>5, <1>6 DEF t

(* Saving the first of the findings leaves the others to be saved. *)
LEMMA RestIsFresh ==
    ASSUME NEW s \in Seq(AnyFinding), s # <<>>, NEW notes, NEW more, Fresh(s, notes),
           Len(notes) \in Nat, Len(more) = Len(notes) + 1,
           TriggersOf(more) = TriggersOf(notes) \union {Head(s).trigger}
    PROVE  Fresh(Tail(s), more)
<1> DEFINE t == Tail(s)
<1>1. /\ Head(s) = s[1] /\ 1 \in DOMAIN s /\ t \in Seq(AnyFinding)
      /\ \A i \in DOMAIN t : i + 1 \in DOMAIN s /\ i + 1 # 1 /\ t[i] = s[i + 1]
  BY HeadAndRest
<1>2. (\A i \in DOMAIN t : i \in Nat) /\ \A i \in DOMAIN s : s[i] \in AnyFinding
  BY <1>1
<1> HIDE DEF t
<1>3. ASSUME NEW i \in DOMAIN t
      PROVE  FreshOne(t[i], more)
  <2>1. FreshOne(s[i + 1], notes) /\ FreshOne(s[1], notes) /\ s[i + 1].gem # s[1].gem
    BY <1>1 DEF Fresh
  <2>2. t[i] = s[i + 1] /\ s[i + 1] \in AnyFinding
    BY <1>1, <1>2
  <2>3. t[i].trigger.kind = "SCORE_INCREASE" => t[i].trigger.last \in Nat
    BY <2>2 DEF AnyFinding, AnyTrigger
  <2>4. t[i].trigger # Head(s).trigger
    BY <1>1, <2>1, <2>2 DEF FreshOne
  <2> QED
    BY <2>1, <2>2, <2>3, <2>4 DEF FreshOne
<1>4. \A i, k \in DOMAIN t : t[i].gem = t[k].gem => i = k
  BY <1>1, <1>2 DEF Fresh
<1> QED
  BY <1>3, <1>4 DEF Fresh, t

-----------------------------------------------------------------------------
(* One step of the protocol. *)
LEMMA RowIsThere ==
    ASSUME Typed, Control, pc # "idle"
    PROVE  /\ Row \in DOMAIN db.runs /\ Current \in AnyRow
           /\ db.runs \in Seq(AnyRow) /\ db.notes \in Seq(AnyNote)
  BY DEF Typed, Control, Row, Current, AnyHistory

LEMMA StartRunStep ==
    ASSUME PublicationAssumption, Publishing, StartRun
    PROVE  Publishing'
<1>1. /\ db' = WithRun(pushed)
      /\ run \in 0..MaxRuns /\ run < MaxRuns /\ MaxRuns \in Nat /\ run' = run + 1
      /\ pc = "idle" /\ pc' = "analysing"
      /\ UNCHANGED <<day, world, report, toNotify, found, failure, pushed, issues>>
  <2>1. pushed \in AnyHistory
    BY DEF Publishing, Typed
  <2> QED
    BY <2>1 DEF StartRun, WithRun, AnyHistory, Publishing, Typed, PublicationAssumption
<1>2. /\ db' \in AnyHistory /\ Kept(db', issues')
      /\ Len(db'.runs) = Len(pushed.runs) + 1 /\ db'.runs[Len(db'.runs)] = NoRow
      /\ db'.notes = pushed.notes
  BY <1>1, RunRecorded DEF Publishing, Typed, WithRun
<1>3. Len(pushed.runs) \in Nat /\ Len(db'.runs) >= 1
  BY <1>1, <1>2 DEF Publishing, Typed, AnyHistory
<1>4. Typed'
  BY <1>1, <1>2 DEF Publishing, Typed, Started
<1>5. Honest(issues') /\ Kept(pushed', issues')
  BY <1>1 DEF Publishing
<1>6. Current' = NoRow /\ NoRow.result = "running"
  BY <1>2 DEF Current, Row, NoRow
<1>7. ReportRow' /\ IssueFound' /\ Saving' /\ Remembering'
  BY <1>1, <1>2, <1>6 DEF ReportRow, IssueFound, Saving, Remembering
<1>8. Control'
  BY <1>1, <1>2, <1>3 DEF Control, BeforeIssue, Row, Publishing
<1> QED
  BY <1>2, <1>4, <1>5, <1>7, <1>8 DEF Publishing

LEMMA PublishedStep ==
    ASSUME Publishing, Published
    PROVE  Publishing'
<1> USE DEF Published, Publishing
<1>1. Typed'
  BY DEF Typed, Started
<1>2. Honest(issues') /\ Kept(db', issues') /\ Kept(pushed', issues')
  OBVIOUS
<1>3. ReportRow' /\ IssueFound' /\ Remembering'
  BY DEF ReportRow, IssueFound, Remembering, Current, Row, Started, Fingerprint
<1>4. Saving'
  BY DEF Saving, Current, Row, ToSet
<1>5. Control'
  BY DEF Control, BeforeIssue, Row
<1> QED
  BY <1>1, <1>2, <1>3, <1>4, <1>5

LEMMA NextDayStep ==
    ASSUME PublicationAssumption, Publishing, NextDay
    PROVE  Publishing'
<1> USE DEF NextDay, local, Publishing
<1>1. Typed'
  BY DEF Typed, PublicationAssumption
<1>2. ReportRow' /\ IssueFound' /\ Saving' /\ Remembering' /\ Control'
  BY DEF ReportRow, IssueFound, Saving, Remembering, Control, Current, Row, Started, BeforeIssue
<1> QED
  BY <1>1, <1>2

LEMMA ForgetStep ==
    ASSUME Publishing, Forget, NEW h, h \in {db, pushed}, db' = h, pushed' = h
    PROVE  Publishing'
<1> USE DEF Forget, Publishing
<1>1. Typed'
  <2>1. Unseen \in Observations \union {Unseen} /\ 0 \in 0..Len(issues') /\ <<>> \in Seq(AnyFinding)
    BY DEF Typed
  <2> QED
    BY <2>1 DEF Typed
<1>2. Honest(issues') /\ Kept(db', issues') /\ Kept(pushed', issues')
  OBVIOUS
<1>3. ReportRow' /\ IssueFound' /\ Saving' /\ Remembering' /\ Control'
  BY DEF ReportRow, IssueFound, Saving, Remembering, Control, Started, BeforeIssue
<1> QED
  BY <1>1, <1>2, <1>3

LEMMA PushStep ==
    ASSUME Publishing, Push
    PROVE  Publishing'
  BY ForgetStep DEF Push

LEMMA CrashStep ==
    ASSUME Publishing, Crash
    PROVE  Publishing'
  BY ForgetStep DEF Crash

LEMMA AnalyseStep ==
    ASSUME RulesAssumption, PublicationAssumption, Publishing, Analyse
    PROVE  Publishing'
<1>1. PICK seen \in SUBSET Gems : \E obs \in [seen -> Observations] :
         LET S == {Finding(g, obs[g], Decide(db.notes, g, obs[g])) :
                     g \in {h \in seen : Decide(db.notes, h, obs[h]) # None}}
         IN /\ world' = [g \in Gems |-> IF g \in seen THEN obs[g] ELSE Unseen]
            /\ report' = InOrder(Selected(S))
            /\ pc' \in IF S = {} THEN {"finishing"} ELSE {"publishing", "finishing"}
  BY DEF Analyse
<1>2. PICK obs \in [seen -> Observations] :
         LET S == {Finding(g, obs[g], Decide(db.notes, g, obs[g])) :
                     g \in {h \in seen : Decide(db.notes, h, obs[h]) # None}}
         IN /\ world' = [g \in Gems |-> IF g \in seen THEN obs[g] ELSE Unseen]
            /\ report' = InOrder(Selected(S))
            /\ pc' \in IF S = {} THEN {"finishing"} ELSE {"publishing", "finishing"}
  BY <1>1
<1> DEFINE reported == {h \in seen : Decide(db.notes, h, obs[h]) # None}
           finding  == [g \in reported |-> Finding(g, obs[g], Decide(db.notes, g, obs[g]))]
           S        == {finding[g] : g \in reported}
<1>3. S = {Finding(g, obs[g], Decide(db.notes, g, obs[g])) : g \in reported}
  OBVIOUS
<1>4. /\ world' = [g \in Gems |-> IF g \in seen THEN obs[g] ELSE Unseen]
      /\ report' = InOrder(Selected(S))
      /\ pc' \in IF S = {} THEN {"finishing"} ELSE {"publishing", "finishing"}
  BY <1>2, <1>3
<1>5. /\ pc = "analysing" /\ UNCHANGED <<day, run, toNotify, found, failure, db, pushed, issues>>
  BY DEF Analyse
<1>6. db.notes \in Seq(AnyNote) /\ Sound(db.notes)
  BY DEF Publishing, Typed, AnyHistory, Kept
<1>7. ASSUME NEW g \in reported
      PROVE  finding[g] \in AnyFinding /\ FreshOne(finding[g], db.notes) /\ finding[g].gem = g
  <2>1. g \in Gems /\ obs[g] \in Observations
    OBVIOUS
  <2> QED
    BY <1>6, <2>1, DecisionsAreFresh DEF Finding
<1>8. IsFiniteSet(reported)
  BY FS_Subset DEF RulesAssumption
<1> HIDE DEF finding, reported
<1>9. S \in SUBSET AnyFinding /\ \A f \in S : FreshOne(f, db.notes)
  BY <1>7
<1>10. Findings(S)
  <2>1. finding \in Surjection(reported, S)
    <3>1. finding \in [reported -> S]
      BY DEF finding
    <3> QED
      BY <3>1, Fun_IsSurj
  <2>2. IsFiniteSet(S)
    BY <1>8, <2>1, FS_Surjection
  <2>3. Comparable(S)
    BY <1>9, AnyFindingCompares
  <2>4. OnePerGem(S)
    BY <1>7 DEF OnePerGem
  <2> QED
    BY <2>2, <2>3, <2>4 DEF Findings
<1> HIDE DEF S
<1>11. report' \in Seq(AnyFinding) /\ Fresh(report', db.notes) /\ (S # {} => report' # <<>>)
  BY <1>4, <1>9, <1>10, ReportOfFindings
<1>12. pc' \in {"publishing", "finishing"} /\ (pc' = "publishing" => report' # <<>>)
  BY <1>4, <1>11
<1>13. Typed'
  <2>1. world' \in [Gems -> Observations \union {Unseen}]
    BY <1>4
  <2> QED
    BY <1>5, <1>11, <1>12, <2>1 DEF Publishing, Typed, Started
<1>14. Honest(issues') /\ Kept(db', issues') /\ Kept(pushed', issues')
  BY <1>5 DEF Publishing
<1>15. Current = NoRow /\ NoRow.state = "NONE" /\ found = 0 /\ NoRow.result = "running"
  BY <1>5 DEF Publishing, ReportRow, Control, NoRow
<1>16. ReportRow' /\ IssueFound' /\ Saving' /\ Remembering'
  BY <1>5, <1>12, <1>15 DEF Publishing, ReportRow, IssueFound, Saving, Remembering, Current, Row, Started
<1>17. Control'
  BY <1>5, <1>11, <1>12 DEF Publishing, Control, BeforeIssue, Row
<1> QED
  BY <1>13, <1>14, <1>16, <1>17 DEF Publishing

(* A step that ends the publication and changes neither history nor Issues. *)
LEMMA FailedStep ==
    ASSUME Publishing, pc \in BeforeIssue, pc' = "finishing", failure' \in {"github", "database"},
           UNCHANGED <<day, run, world, report, toNotify, found, db, pushed, issues>>
    PROVE  Publishing'
<1>1. Typed'
  BY DEF Publishing, Typed, Started
<1>2. Honest(issues') /\ Kept(db', issues') /\ Kept(pushed', issues')
  BY DEF Publishing
<1>3. Fingerprint(report)' = Fingerprint(report) /\ Current' = Current /\ Row' = Row
  BY DEF Fingerprint, Current, Row
<1>4. Current.state # "REPORT_PUBLISHED" /\ Current.result = "running"
  <2>1. NoRow.state = "NONE"
    BY DEF NoRow
  <2> QED
    BY <2>1 DEF Publishing, ReportRow, BeforeIssue, Started
<1>5. ReportRow' /\ IssueFound' /\ Saving' /\ Remembering' /\ Control'
  BY <1>3, <1>4 DEF Publishing, ReportRow, IssueFound, Saving, Remembering, Control, Started, BeforeIssue
<1> QED
  BY <1>1, <1>2, <1>5 DEF Publishing

LEMMA SavePendingReportStep ==
    ASSUME PublicationAssumption, Publishing, SavePendingReport
    PROVE  Publishing'
<1> DEFINE row == [NoRow EXCEPT !.state = "PENDING_REPORT", !.fingerprint = Fingerprint(report)]
<1>1. /\ pc = "publishing"
      /\ UNCHANGED <<day, run, world, report, toNotify, found, pushed, issues>>
  BY DEF SavePendingReport
<1>2. CASE pc' = "finishing" /\ failure' = "database" /\ UNCHANGED db
  BY <1>1, <1>2, FailedStep DEF BeforeIssue
<1>3. CASE /\ pc' = "pending" /\ UNCHANGED failure
           /\ db' = [db EXCEPT !.runs[Row].state = "PENDING_REPORT",
                               !.runs[Row].fingerprint = Fingerprint(report)]
  <2>1. /\ Row \in DOMAIN db.runs /\ Current = NoRow /\ db \in AnyHistory
    BY <1>1, RowIsThere DEF Publishing, ReportRow, Typed
  <2>2. db' = WithRow(db, Row, row)
    BY <1>3, <2>1 DEF WithRow, AnyHistory, Current
  <2>3. /\ row.state = "PENDING_REPORT" /\ row.fingerprint = Fingerprint(report) /\ row.result = "running"
        /\ row.issue = 0 /\ row \in AnyRow
    BY FingerprintTyped DEF NoRow, AnyRow, AnyResult, Publishing, Typed
  <2> HIDE DEF row
  <2>4. /\ db' \in AnyHistory /\ db'.notes = db.notes /\ Len(db'.runs) = Len(db.runs)
        /\ db'.runs[Row] = row
    BY <2>1, <2>2, <2>3, RowReplaced
  <2>5. Kept(db', issues)
    BY <2>1, <2>2, <2>3, KeptWithRow DEF Publishing, RowShown
  <2>6. Typed'
    BY <1>1, <1>3, <2>4 DEF Publishing, Typed, Started
  <2>7. Current' = row /\ Row' = Row
    BY <2>4 DEF Current, Row
  <2>8. ReportRow' /\ IssueFound' /\ Saving' /\ Remembering' /\ Control'
    BY <1>1, <1>3, <2>3, <2>4, <2>7 DEF Publishing, ReportRow, IssueFound, Saving, Remembering, Control,
       Started, BeforeIssue, Fingerprint
  <2> QED
    BY <1>1, <2>5, <2>6, <2>8 DEF Publishing
<1> QED
  BY <1>2, <1>3 DEF SavePendingReport, Fail

LEMMA SearchStep ==
    ASSUME Publishing, Search
    PROVE  Publishing'
<1>1. /\ pc = "pending"
      /\ UNCHANGED <<day, run, world, report, toNotify, db, pushed, issues>>
      /\ \/ pc' = "found" /\ failure' = failure /\ found' \in DOMAIN issues
            /\ issues[found'].fingerprint = Fingerprint(report)
         \/ pc' = "searched" /\ failure' = failure /\ found' = found
         \/ pc' = "finishing" /\ failure' = "github" /\ found' = found
  BY DEF Search, Matching, Listed, Fail
<1>2. DOMAIN issues = 1..Len(issues) /\ Len(issues) \in Nat
  BY DEF Publishing, Typed
<1>3. Typed'
  BY <1>1, <1>2 DEF Publishing, Typed, Started
<1>4. Fingerprint(report)' = Fingerprint(report) /\ Current' = Current /\ Row' = Row
  BY <1>1 DEF Fingerprint, Current, Row
<1>5. ReportRow' /\ IssueFound' /\ Saving' /\ Remembering' /\ Control'
  BY <1>1, <1>4 DEF Publishing, ReportRow, IssueFound, Saving, Remembering, Control, Started, BeforeIssue
<1> QED
  BY <1>1, <1>3, <1>5 DEF Publishing

LEMMA NewIssueTyped ==
    ASSUME PublicationAssumption, Typed
    PROVE  /\ NewIssue \in AnyIssue /\ NewIssue.fingerprint = Fingerprint(report)
           /\ NewIssue.gems = report /\ NewIssue.fingerprint[2] = MarksOf(NewIssue.gems)
<1>1. Fingerprint(report) \in AnyFingerprint /\ Fingerprint(report)[2] = MarksOf(report)
  BY FingerprintTyped DEF Typed
<1> QED
  BY <1>1 DEF NewIssue, AnyIssue, Typed

(* However the answer is lost, what is created is this report's Issue. *)
LEMMA IssuesCreated ==
    ASSUME PublicationAssumption, Publishing, CreateIssue
    PROVE  /\ issues' \in Seq(AnyIssue) /\ Grown(issues, issues')
           /\ \A i \in DOMAIN issues' : i \in DOMAIN issues \/ issues'[i] = NewIssue
           /\ Len(issues) \in Nat /\ Len(issues') \in Nat
           /\ pc' = "found" => found' = Len(issues') /\ Len(issues') > Len(issues)
<1>1. issues \in Seq(AnyIssue) /\ NewIssue \in AnyIssue
  BY NewIssueTyped DEF Publishing, Typed
<1>2. CASE issues' = issues /\ pc' = "finishing"
  BY <1>1, <1>2 DEF Grown
<1>3. CASE issues' = Append(issues, NewIssue)
  <2>1. /\ issues' \in Seq(AnyIssue) /\ Len(issues') = Len(issues) + 1
        /\ issues'[Len(issues) + 1] = NewIssue /\ \A i \in 1..Len(issues) : issues'[i] = issues[i]
    BY <1>1, <1>3, AppendProperties
  <2>2. \A i \in DOMAIN issues' : i \in DOMAIN issues \/ i = Len(issues) + 1
    BY <1>1, <2>1
  <2>3. pc' = "found" => found' = Len(issues')
    BY DEF CreateIssue, Fail
  <2> QED
    BY <1>1, <2>1, <2>2, <2>3 DEF Grown
<1>4. CASE issues' = issues \o <<NewIssue, NewIssue>>
  <2> DEFINE two == <<NewIssue, NewIssue>>
  <2>1. two \in Seq(AnyIssue) /\ Len(two) = 2 /\ \A i \in 1..2 : two[i] = NewIssue
    BY <1>1
  <2> HIDE DEF two
  <2>2. /\ issues' \in Seq(AnyIssue) /\ Len(issues') = Len(issues) + 2
        /\ \A i \in 1..(Len(issues) + 2) : issues'[i] = IF i <= Len(issues) THEN issues[i] ELSE two[i - Len(issues)]
    BY <1>1, <1>4, <2>1, ConcatProperties DEF two
  <2>3. \A i \in DOMAIN issues' : i \in DOMAIN issues \/ issues'[i] = NewIssue
    BY <1>1, <2>1, <2>2
  <2>4. pc' = "found" => found' = Len(issues')
    BY DEF CreateIssue, Fail
  <2> QED
    BY <1>1, <2>2, <2>3, <2>4 DEF Grown
<1> QED
  BY <1>2, <1>3, <1>4 DEF CreateIssue, Fail

LEMMA CreateIssueStep ==
    ASSUME PublicationAssumption, Publishing, CreateIssue
    PROVE  Publishing'
<1>1. /\ pc = "searched" /\ UNCHANGED <<day, run, world, report, toNotify, db, pushed>>
      /\ \/ pc' = "found" /\ failure' = failure
         \/ pc' = "finishing" /\ failure' = "github" /\ found' = found
  BY DEF CreateIssue, Fail
<1>2. /\ issues' \in Seq(AnyIssue) /\ Grown(issues, issues')
      /\ \A i \in DOMAIN issues' : i \in DOMAIN issues \/ issues'[i] = NewIssue
      /\ Len(issues) \in Nat /\ Len(issues') \in Nat
      /\ pc' = "found" => found' = Len(issues') /\ Len(issues') > Len(issues)
  BY IssuesCreated
<1>3. Honest(issues')
  <2>1. NewIssue.fingerprint[2] = MarksOf(NewIssue.gems)
    BY NewIssueTyped DEF Publishing
  <2> QED
    BY <1>2, <2>1 DEF Publishing, Honest, Grown
<1>4. Kept(db', issues') /\ Kept(pushed', issues')
  BY <1>1, <1>2, KeptAsIssuesGrow DEF Publishing, Typed
<1>5. pc' = "found" => found' \in DOMAIN issues' /\ issues'[found'].fingerprint = Fingerprint(report)
  <2>1. NewIssue.fingerprint = Fingerprint(report)
    BY NewIssueTyped DEF Publishing
  <2>2. DOMAIN issues = 1..Len(issues) /\ DOMAIN issues' = 1..Len(issues')
    BY <1>2 DEF Publishing, Typed
  <2> QED
    BY <1>2, <2>1, <2>2
<1>6. Typed'
  <2>1. found' \in 0..Len(issues')
    BY <1>1, <1>2 DEF Grown, Publishing, Typed
  <2> QED
    BY <1>1, <1>2, <2>1 DEF Publishing, Typed, Started
<1>7. Fingerprint(report)' = Fingerprint(report) /\ Current' = Current /\ Row' = Row
  BY <1>1 DEF Fingerprint, Current, Row
<1>8. ReportRow' /\ IssueFound' /\ Saving' /\ Remembering' /\ Control'
  BY <1>1, <1>5, <1>7 DEF Publishing, ReportRow, IssueFound, Saving, Remembering, Control, Started, BeforeIssue
<1> QED
  BY <1>3, <1>4, <1>6, <1>8 DEF Publishing

LEMMA MarkReportPublishedStep ==
    ASSUME PublicationAssumption, Publishing, MarkReportPublished
    PROVE  Publishing'
<1> DEFINE row == [Current EXCEPT !.state = "REPORT_PUBLISHED", !.issue = found]
<1>1. /\ pc = "found" /\ IsPending
      /\ UNCHANGED <<day, run, world, report, found, pushed, issues>>
  BY DEF MarkReportPublished, IsPending, Publishing, ReportRow, Current
<1>2. CASE pc' = "finishing" /\ failure' = "database" /\ UNCHANGED <<db, toNotify>>
  BY <1>1, <1>2, FailedStep DEF BeforeIssue
<1>3. CASE /\ pc' = "notifying" /\ toNotify' = report /\ failure' = failure
           /\ db' = [db EXCEPT !.runs[Row].state = "REPORT_PUBLISHED", !.runs[Row].issue = found]
  <2>1. /\ Row \in DOMAIN db.runs /\ Current \in AnyRow /\ db \in AnyHistory
        /\ Current.fingerprint = Fingerprint(report) /\ Current.result = "running"
        /\ found \in DOMAIN issues /\ issues[found].fingerprint = Fingerprint(report)
        /\ found \in Nat
    BY <1>1, RowIsThere DEF Publishing, ReportRow, Typed, Started, IssueFound
  <2>2. db' = WithRow(db, Row, row)
    BY <1>3, <2>1 DEF WithRow, AnyHistory, Current
  <2>3. /\ row.state = "REPORT_PUBLISHED" /\ row.fingerprint = Fingerprint(report) /\ row.issue = found
        /\ row.result = "running" /\ row \in AnyRow
    BY <2>1 DEF AnyRow
  <2> HIDE DEF row
  <2>4. /\ db' \in AnyHistory /\ db'.notes = db.notes /\ Len(db'.runs) = Len(db.runs)
        /\ db'.runs[Row] = row
    BY <2>1, <2>2, <2>3, RowReplaced
  <2>5. Kept(db', issues)
    BY <2>1, <2>2, <2>3, KeptWithRow DEF Publishing, RowShown
  <2>6. Typed'
    BY <1>1, <1>3, <2>4 DEF Publishing, Typed, Started
  <2>7. Current' = row /\ Row' = Row /\ Fingerprint(report)' = Fingerprint(report)
    BY <1>1, <2>4 DEF Current, Row, Fingerprint
  <2>8. ReportRow' /\ IssueFound' /\ Saving' /\ Remembering' /\ Control'
    BY <1>1, <1>3, <2>1, <2>3, <2>4, <2>7 DEF Publishing, ReportRow, IssueFound, Saving, Remembering, Control,
       Started, BeforeIssue
  <2> QED
    BY <1>1, <2>5, <2>6, <2>8 DEF Publishing
<1> QED
  BY <1>1, <1>2, <1>3 DEF MarkReportPublished, Fail

LEMMA SaveNotificationStep ==
    ASSUME Publishing, SaveNotification
    PROVE  Publishing'
<1> DEFINE f    == Head(toNotify)
           note == [gem |-> f.gem, trigger |-> f.trigger, score |-> f.score, issue |-> found,
                    world |-> world[f.gem]]
<1>1. /\ pc = "notifying" /\ toNotify # <<>> /\ toNotify \in Seq(AnyFinding)
      /\ UNCHANGED <<day, run, world, report, found, pushed, issues>>
  BY DEF SaveNotification, Publishing, Typed
<1>2. /\ Row \in DOMAIN db.runs /\ db \in AnyHistory /\ Len(db.notes) \in Nat
      /\ Current.state = "REPORT_PUBLISHED" /\ Current.issue = found
      /\ Current.fingerprint = Fingerprint(report) /\ Current.result = "running"
      /\ found \in DOMAIN issues /\ issues[found].fingerprint = Fingerprint(report)
  BY <1>1, RowIsThere DEF Publishing, ReportRow, Typed, Started, IssueFound, Saving
<1>3. /\ f \in AnyFinding /\ FreshOne(f, db.notes)
      /\ ToSet(toNotify) = {f} \union ToSet(Tail(toNotify)) /\ Tail(toNotify) \in Seq(AnyFinding)
  <2>1. Fresh(toNotify, db.notes)
    BY <1>1 DEF Publishing, Control
  <2>2. DOMAIN toNotify = 1..Len(toNotify) /\ Len(toNotify) \in Nat \ {0} /\ f = toNotify[1]
    BY <1>1, EmptySeq
  <2>3. f \in AnyFinding /\ FreshOne(f, db.notes)
    BY <1>1, <2>1, <2>2 DEF Fresh
  <2> QED
    BY <1>1, <2>3, HeadAndRest
<1>4. f.trigger \notin TriggersOf(db.notes)
  BY <1>3 DEF FreshOne
<1>5. \/ /\ db' = WithNote(db, note) /\ toNotify' = Tail(toNotify) /\ UNCHANGED <<pc, failure>>
      \/ /\ pc' = "finishing" /\ failure' = "database" /\ UNCHANGED <<db, toNotify>>
  <2>1. ~ \E i \in DOMAIN db.notes : db.notes[i].trigger = f.trigger
    BY <1>4 DEF TriggersOf
  <2>2. [db EXCEPT !.notes = Append(@, note)] = WithNote(db, note)
    BY <1>2, AppendedNote
  <2> QED
    BY <2>1, <2>2 DEF SaveNotification, Fail
<1>6. CASE db' = WithNote(db, note) /\ toNotify' = Tail(toNotify) /\ UNCHANGED <<pc, failure>>
  <2>1. note \in AnyNote
    <3>1. world[f.gem] \in Observations \union {Unseen} /\ found \in Nat
      BY <1>3 DEF Publishing, Typed, AnyFinding
    <3> QED
      BY <1>3, <3>1 DEF AnyNote, AnyFinding
  <2>2. NoteShown(note, issues)
    <3>1. f \in ToSet(report)
      BY <1>1, <1>3 DEF Publishing, Saving
    <3>2. MarksOf(report) = MarksOf(issues[found].gems)
      <4>1. Fingerprint(report)[2] = MarksOf(report)
        BY DEF Fingerprint, MarksOf
      <4> QED
        BY <1>2, <4>1 DEF Publishing, Honest
    <3>3. PICK k \in ToSet(issues[found].gems) : k.gem = f.gem /\ k.trigger = f.trigger
      BY <3>1, <3>2, SameMarks
    <3> QED
      BY <1>2, <3>3 DEF NoteShown
  <2>3. /\ note.trigger = f.trigger /\ note.issue = found
        /\ note.trigger.gem = note.gem
        /\ note.trigger.kind = "SCORE_INCREASE" => note.trigger.last <= Len(db.notes)
    BY <1>3 DEF FreshOne
  <2> HIDE DEF note
  <2>4. /\ db' \in AnyHistory /\ Kept(db', issues)
        /\ db'.runs = db.runs /\ Len(db'.notes) = Len(db.notes) + 1
        /\ TriggersOf(db'.notes) = TriggersOf(db.notes) \union {f.trigger}
        /\ \A t, n : Noted(db.notes, t, n) => Noted(db'.notes, t, n)
        /\ Noted(db'.notes, f.trigger, found)
    BY <1>2, <1>6, <2>1, <2>2, <2>3, NoteSaved DEF Publishing
  <2>5. Fresh(toNotify', db'.notes)
    BY <1>1, <1>2, <1>6, <2>4, RestIsFresh DEF Publishing, Control
  <2>6. Typed'
    BY <1>1, <1>3, <1>6, <2>4 DEF Publishing, Typed
  <2>7. Current' = Current /\ Row' = Row /\ Fingerprint(report)' = Fingerprint(report)
    BY <1>1, <2>4 DEF Current, Row, Fingerprint
  <2>8. Saving'
    <3>1. ToSet(toNotify') \subseteq ToSet(report)
      BY <1>1, <1>3, <1>6 DEF Publishing, Saving
    <3>2. ASSUME NEW k \in ToSet(report)
          PROVE  k \in ToSet(toNotify') \/ Noted(db'.notes, k.trigger, found)
      <4>1. k \in ToSet(toNotify) \/ Noted(db.notes, k.trigger, found)
        BY <1>1 DEF Publishing, Saving
      <4>2. k \in ToSet(toNotify) => k = f \/ k \in ToSet(toNotify')
        BY <1>3, <1>6
      <4> QED
        BY <2>4, <4>1, <4>2
    <3> QED
      BY <1>1, <1>2, <1>6, <2>7, <3>1, <3>2 DEF Saving
  <2>9. ReportRow' /\ IssueFound' /\ Remembering' /\ Control'
    BY <1>1, <1>2, <1>6, <2>4, <2>5, <2>7 DEF Publishing, ReportRow, IssueFound, Remembering, Control, Started,
       BeforeIssue
  <2> QED
    BY <1>1, <2>4, <2>6, <2>8, <2>9 DEF Publishing
<1>7. CASE pc' = "finishing" /\ failure' = "database" /\ UNCHANGED <<db, toNotify>>
  <2> HIDE DEF f, note
  <2>1. Typed'
    BY <1>1, <1>7 DEF Publishing, Typed, Started
  <2>2. Current' = Current /\ Row' = Row /\ Fingerprint(report)' = Fingerprint(report)
    BY <1>1, <1>7 DEF Current, Row, Fingerprint
  <2>3. ReportRow' /\ IssueFound' /\ Saving' /\ Remembering' /\ Control'
    BY <1>1, <1>2, <1>7, <2>2 DEF Publishing, ReportRow, IssueFound, Saving, Remembering, Control, Started,
       BeforeIssue
  <2> QED
    BY <1>1, <1>7, <2>1, <2>3 DEF Publishing
<1> QED
  BY <1>5, <1>6, <1>7

LEMMA FinishRunStep ==
    ASSUME PublicationAssumption, Publishing, FinishRun
    PROVE  Publishing'
<1>1. /\ pc = "finishing" /\ pc' = "finished"
      /\ UNCHANGED <<day, run, world, report, toNotify, found, failure, pushed, issues>>
  BY DEF FinishRun
<1>2. PICK result \in Result :
        db' = [db EXCEPT !.runs[Row].result = result,
                         !.runs[Row].fingerprint = IF report = <<>> THEN @ ELSE Fingerprint(report)]
  BY DEF FinishRun
<1> DEFINE row == [Current EXCEPT !.result = result,
                                  !.fingerprint = IF report = <<>> THEN @ ELSE Fingerprint(report)]
<1>3. /\ Row \in DOMAIN db.runs /\ Current \in AnyRow /\ db \in AnyHistory
      /\ Current.state = "REPORT_PUBLISHED" => Current.fingerprint = Fingerprint(report)
  BY <1>1, RowIsThere DEF Publishing, ReportRow, Typed
<1>4. db' = WithRow(db, Row, row)
  BY <1>2, <1>3 DEF WithRow, AnyHistory, Current
<1>5. Fingerprint(report) \in AnyFingerprint /\ Fingerprint(report)[2] = MarksOf(report)
  BY FingerprintTyped DEF Publishing, Typed
<1>6. /\ row.state = Current.state /\ row.issue = Current.issue /\ row.result = result
      /\ row.fingerprint = IF report = <<>> THEN Current.fingerprint ELSE Fingerprint(report)
      /\ row \in AnyRow
  BY <1>3, <1>5 DEF AnyRow, Result, AnyResult
<1>7. RowShown(row, issues)
  <2>1. RowShown(Current, issues)
    BY <1>3 DEF Publishing, Kept, Current
  <2> QED
    BY <1>3, <1>6, <2>1 DEF RowShown
<1>8. row.result = "SUCCESS" => RowComplete(row, db.notes)
  <2> SUFFICES ASSUME result = "SUCCESS"
               PROVE  RowComplete(row, db.notes)
    BY <1>6
  <2>1. failure = "none" /\ report # <<>> /\ found # 0
    BY DEF Result
  <2>2. /\ Current.state = "REPORT_PUBLISHED" /\ Current.issue = found
        /\ \A f \in ToSet(report) : Noted(db.notes, f.trigger, found)
    BY <1>1, <2>1 DEF Publishing, Saving
  <2>3. row.fingerprint[2] = MarksOf(report)
    BY <1>5, <1>6, <2>1
  <2> HIDE DEF row
  <2> QED
    BY <1>6, <2>2, <2>3 DEF RowComplete, MarksOf
<1> HIDE DEF row
<1>9. /\ db' \in AnyHistory /\ db'.notes = db.notes /\ Len(db'.runs) = Len(db.runs)
  BY <1>3, <1>4, <1>6, RowReplaced
<1>10. Kept(db', issues)
  BY <1>3, <1>4, <1>6, <1>7, <1>8, KeptWithRow DEF Publishing
<1>11. Typed'
  BY <1>1, <1>9 DEF Publishing, Typed, Started
<1>12. ReportRow' /\ IssueFound' /\ Saving' /\ Remembering' /\ Control'
  BY <1>1, <1>9 DEF Publishing, ReportRow, IssueFound, Saving, Remembering, Control, Started, BeforeIssue, Row
<1> QED
  BY <1>1, <1>10, <1>11, <1>12 DEF Publishing

LEMMA PublishingInitially ==
    ASSUME RulesAssumption, PublicationAssumption, Init
    PROVE  Publishing
<1> DEFINE none == [runs |-> <<>>, notes |-> <<>>]
<1>1. db = none /\ pushed = none /\ issues = <<>> /\ report = <<>> /\ toNotify = <<>> /\ found = 0
      /\ pc = "idle" /\ day = 1 /\ run = 0 /\ failure = "none" /\ world = [g \in Gems |-> Unseen]
  BY DEF Init
<1>2. none \in AnyHistory /\ none.runs = <<>> /\ none.notes = <<>>
  BY DEF AnyHistory
<1>3. Kept(none, <<>>) /\ Honest(<<>>)
  BY <1>2 DEF Kept, Complete, Sound, Honest
<1> HIDE DEF none
<1>4. Typed
  BY <1>1, <1>2 DEF Typed, PublicationAssumption
<1>5. ReportRow /\ IssueFound /\ Saving /\ Remembering /\ Control
  BY <1>1 DEF ReportRow, IssueFound, Saving, Remembering, Control, Started, BeforeIssue
<1> QED
  BY <1>1, <1>3, <1>4, <1>5 DEF Publishing

LEMMA PublishingStep ==
    ASSUME RulesAssumption, PublicationAssumption, Publishing, [Next]_vars
    PROVE  Publishing'
<1>1. CASE UNCHANGED vars
  <2> USE DEF vars, local, Publishing
  <2>1. Typed' /\ Honest(issues') /\ Kept(db', issues') /\ Kept(pushed', issues')
    BY <1>1 DEF Typed
  <2>2. ReportRow' /\ IssueFound' /\ Saving' /\ Remembering' /\ Control'
    BY <1>1 DEF ReportRow, IssueFound, Saving, Remembering, Control, Current, Row, Fingerprint
  <2> QED
    BY <2>1, <2>2
<1>2. CASE Next
  BY <1>2, StartRunStep, AnalyseStep, SavePendingReportStep, SearchStep, CreateIssueStep, MarkReportPublishedStep,
     SaveNotificationStep, PublishedStep, FinishRunStep, PushStep, CrashStep, NextDayStep DEF Next
<1> QED
  BY <1>1, <1>2

(* The publish protocol keeps its invariant whatever crashes, is lost or fails. *)
LEMMA AlwaysPublishing == Spec => []Publishing
<1>1. Init => Publishing
  BY PublishingInitially, RulesAssumption, PublicationAssumption
<1>2. Publishing /\ [Next]_vars => Publishing'
  BY PublishingStep, RulesAssumption, PublicationAssumption
<1> QED
  BY <1>1, <1>2, PTL DEF Spec

-----------------------------------------------------------------------------
(* Every variable stays within its type, whatever the runs find and lose.     *)
THEOREM TypeCorrect == Spec => []TypeOK
<1>1. ASSUME NEW f \in AnyFinding
      PROVE  IsFinding(f)
  BY DEF AnyFinding, AnyTrigger, IsFinding, Triggers
<1>2. ASSUME NEW f \in AnyNote
      PROVE  IsFinding(f)
  BY DEF AnyNote, AnyTrigger, IsFinding, Triggers
<1>3. Publishing => TypeOK
  <2> SUFFICES ASSUME Publishing
               PROVE  TypeOK
    OBVIOUS
  <2>1. Typed /\ Len(issues) \in Nat /\ DOMAIN issues = 1..Len(issues)
    BY DEF Publishing, Typed
  <2>2. ASSUME NEW h \in AnyHistory, Kept(h, issues)
        PROVE  IsHistory(h)
    <3>1. h.runs \in Seq(AnyRow) /\ h.notes \in Seq(AnyNote)
      BY DEF AnyHistory
    <3>2. ASSUME NEW r \in DOMAIN h.runs
          PROVE  /\ h.runs[r].state \in {"NONE", "PENDING_REPORT", "REPORT_PUBLISHED"}
                 /\ h.runs[r].issue \in 0..Len(issues)
      <4>1. h.runs[r] \in AnyRow /\ RowShown(h.runs[r], issues)
        BY <2>2, <3>1 DEF Kept
      <4> QED
        BY <2>1, <4>1 DEF AnyRow, RowShown
    <3>3. ASSUME NEW i \in DOMAIN h.notes
          PROVE  IsFinding(h.notes[i]) /\ h.notes[i].issue \in DOMAIN issues
      BY <1>2, <2>2, <3>1 DEF Kept, NoteShown
    <3> QED
      BY <3>2, <3>3 DEF IsHistory
  <2>3. IsHistory(db) /\ IsHistory(pushed)
    BY <2>1, <2>2 DEF Publishing, Typed
  <2>4. \A i \in DOMAIN issues : \A k \in DOMAIN issues[i].gems : IsFinding(issues[i].gems[k])
    <3>1. ASSUME NEW i \in DOMAIN issues
          PROVE  issues[i].gems \in Seq(AnyFinding)
      BY IssueLists DEF Publishing, Typed
    <3> QED
      BY <1>1, <3>1
  <2> QED
    BY <1>1, <2>1, <2>3, <2>4 DEF TypeOK, Typed
<1> QED
  BY <1>3, AlwaysPublishing, PTL

(* A run marked published points to an Issue with its fingerprint, and a      *)
(* notification to an Issue that reports it.                                  *)
THEOREM HistoryNeverClaimsMore == Spec => []HistoryMatchesIssues
<1>1. Publishing => HistoryMatchesIssues
  BY DEF Publishing, Kept, RowShown, NoteShown, HistoryMatchesIssues
<1> QED
  BY <1>1, AlwaysPublishing, PTL

(* A SUCCESS remembers every repository of its report.                        *)
THEOREM SuccessRemembersAll == Spec => []SuccessIsComplete
<1>1. Publishing => SuccessIsComplete
  BY DEF Publishing, Kept, Complete, RowComplete, Noted, SuccessIsComplete
<1> QED
  BY <1>1, AlwaysPublishing, PTL

(* The history's constraints never refuse what follows a created Issue.       *)
THEOREM NothingIsRefused == Spec => []BookkeepingNeverConflicts
<1>1. Publishing => BookkeepingNeverConflicts
  BY DEF Publishing, Control, BookkeepingNeverConflicts
<1> QED
  BY <1>1, AlwaysPublishing, PTL

-----------------------------------------------------------------------------
(* What the user is promised: the Issues are a log of announcements in which  *)
(* nothing the pushed history remembers is announced again.                   *)
LEMMA AnnouncedIsASeq ==
    ASSUME Typed
    PROVE  /\ Announced \in Seq(SUBSET AnyTrigger) /\ Len(Announced) = Len(issues)
           /\ DOMAIN Announced = DOMAIN issues
<1>1. Len(issues) \in Nat /\ DOMAIN issues = 1..Len(issues)
  BY DEF Typed
<1>2. ASSUME NEW i \in DOMAIN issues
      PROVE  {f.trigger : f \in ToSet(issues[i].gems)} \subseteq AnyTrigger
  <2>1. issues[i].gems \in Seq(AnyFinding)
    BY IssueLists DEF Typed
  <2>2. ToSet(issues[i].gems) \subseteq AnyFinding
    BY <2>1, ElementsOfSeq
  <2> QED
    BY <2>2 DEF AnyFinding
<1>3. Announced \in [1..Len(issues) -> SUBSET AnyTrigger]
  BY <1>1, <1>2 DEF Announced
<1> QED
  BY <1>1, <1>3

LEMMA NotifiedIsTriggers == Notified = TriggersOf(pushed.notes)
  BY DEF Notified, TriggersOf

LEMMA CreateIssueReports ==
    ASSUME PublicationAssumption, Publishing, Publishing', CreateIssue, issues' # issues
    PROVE  Log!Report
<1>1. /\ pc = "searched" /\ report # <<>> /\ Fresh(report, pushed.notes) /\ report \in Seq(AnyFinding)
      /\ pushed' = pushed
  BY DEF CreateIssue, Publishing, Control, BeforeIssue, Typed
<1>2. /\ issues \in Seq(AnyIssue) /\ issues' \in Seq(AnyIssue) /\ Grown(issues, issues')
      /\ \A i \in DOMAIN issues' : i \in DOMAIN issues \/ issues'[i] = NewIssue
      /\ Len(issues) \in Nat /\ Len(issues') \in Nat
  BY IssuesCreated DEF Publishing, Typed
<1>3. Len(issues') > Len(issues)
  <2> SUFFICES ASSUME Len(issues') = Len(issues)
               PROVE  FALSE
    BY <1>2 DEF Grown
  <2> QED
    BY <1>2, SeqEqual DEF Grown
<1>4. /\ Announced \in Seq(SUBSET AnyTrigger) /\ Len(Announced) = Len(issues)
      /\ Announced' \in Seq(SUBSET AnyTrigger) /\ Len(Announced') = Len(issues')
  <2>1. Announced \in Seq(SUBSET AnyTrigger) /\ Len(Announced) = Len(issues)
    BY AnnouncedIsASeq DEF Publishing
  <2>2. (Typed => Announced \in Seq(SUBSET AnyTrigger) /\ Len(Announced) = Len(issues))'
    BY AnnouncedIsASeq, PTL
  <2> QED
    BY <2>1, <2>2 DEF Publishing
<1>5. \A i \in 1..Len(issues) : Announced'[i] = Announced[i]
  <2>1. DOMAIN issues = 1..Len(issues) /\ DOMAIN issues' = 1..Len(issues')
    BY <1>2
  <2>2. \A i \in 1..Len(issues) : i \in DOMAIN issues' /\ issues'[i] = issues[i]
    BY <1>2, <1>3, <2>1 DEF Grown
  <2> QED
    BY <2>1, <2>2 DEF Announced
<1>6. SubSeq(Announced', 1, Len(Announced)) = Announced
  BY <1>2, <1>3, <1>4, <1>5
<1>7. ASSUME NEW i \in Len(issues) + 1 .. Len(issues')
      PROVE  Announced'[i] # {} /\ Announced'[i] \intersect Notified = {}
  <2>1. issues'[i] = NewIssue /\ i \in DOMAIN issues'
    BY <1>2
  <2>2. Announced'[i] = {f.trigger : f \in ToSet(report)}
    BY <2>1 DEF Announced, NewIssue
  <2>3. 1 \in DOMAIN report
    BY <1>1
  <2>4. \A f \in ToSet(report) : f.trigger \notin TriggersOf(pushed.notes)
    BY <1>1 DEF Fresh, FreshOne, ToSet
  <2>5. report[1] \in ToSet(report)
    BY <2>3 DEF ToSet
  <2> QED
    BY <2>2, <2>4, <2>5, NotifiedIsTriggers
<1>8. Notified' = Notified
  BY <1>1 DEF Notified
<1> QED
  BY <1>3, <1>4, <1>6, <1>7, <1>8 DEF Log!Report

LEMMA PushRemembers ==
    ASSUME Publishing, Push
    PROVE  Log!Remember
<1>1. pushed' = db /\ issues' = issues
  BY DEF Push, Forget
<1>2. Notified' = TriggersOf(db.notes)
  BY <1>1 DEF Notified, TriggersOf
<1>3. Notified \subseteq Notified'
  BY <1>2, NotifiedIsTriggers DEF Publishing, Remembering
<1>4. Notified' \subseteq Log!Announcements(Announced)
  <2>1. ASSUME NEW i \in DOMAIN db.notes
        PROVE  db.notes[i].trigger \in Log!Announcements(Announced)
    <3>1. NoteShown(db.notes[i], issues)
      BY DEF Publishing, Kept
    <3>2. DOMAIN Announced = DOMAIN issues
      BY DEF Announced
    <3>3. db.notes[i].trigger \in Announced[db.notes[i].issue]
      BY <3>1 DEF NoteShown, Announced
    <3> QED
      BY <3>1, <3>2, <3>3 DEF NoteShown, Log!Announcements
  <2> QED
    BY <1>2, <2>1 DEF TriggersOf
<1>5. Announced' = Announced
  BY <1>1 DEF Announced
<1> QED
  BY <1>3, <1>4, <1>5 DEF Log!Remember

(* Every step of the publish protocol is a step of the log or none.           *)
THEOREM RefinesAnnouncementLog == Spec => ImplementsAnnouncements
<1>1. Init => Log!Init
  <2> SUFFICES ASSUME Init
               PROVE  Announced = <<>> /\ Notified = {}
    BY DEF Log!Init
  <2>1. issues = <<>> /\ pushed.notes = <<>>
    BY DEF Init
  <2> QED
    BY <2>1 DEF Announced, Notified
<1>2. Publishing /\ Publishing' /\ [Next]_vars => [Log!Next]_<<Announced, Notified>>
  <2> SUFFICES ASSUME Publishing, Publishing', [Next]_vars, ~ UNCHANGED <<issues, pushed>>
               PROVE  Log!Next
    BY DEF Announced, Notified
  <2>1. CASE CreateIssue /\ issues' # issues
    BY <2>1, CreateIssueReports, PublicationAssumption DEF Log!Next
  <2>2. CASE Push
    BY <2>2, PushRemembers DEF Log!Next
  <2>3. (CreateIssue /\ issues' # issues) \/ Push
    BY DEF Next, vars, local, StartRun, Analyse, SavePendingReport, Search, CreateIssue, MarkReportPublished,
       SaveNotification, Published, FinishRun, Crash, NextDay, Forget
  <2> QED
    BY <2>1, <2>2, <2>3
<1> QED
  BY <1>1, <1>2, AlwaysPublishing, PTL DEF Spec, ImplementsAnnouncements, Log!Spec

-----------------------------------------------------------------------------
(* As long as no answer is lost and the search lists every Issue, a report is *)
(* created once: what is searched for and not found is not there.             *)
NoAnswerIsLost  == "lost_answer" \notin Faults
PageHoldsAll    == MaxRuns <= ScanLimit

OnePerRun ==
    Len(issues) <= IF pc \in {"analysing", "publishing", "pending", "searched"} THEN run - 1 ELSE run
NotThereYet ==
    pc = "searched" => \A i \in DOMAIN issues : issues[i].fingerprint # Fingerprint(report)
Adopting == Publishing /\ OnePerRun /\ NotThereYet /\ OneIssuePerFingerprint

LEMMA AdoptingStep ==
    ASSUME RulesAssumption, PublicationAssumption, NoAnswerIsLost, PageHoldsAll, Adopting, [Next]_vars
    PROVE  Adopting'
<1>1. Publishing'
  BY PublishingStep DEF Adopting
<1>2. /\ issues \in Seq(AnyIssue) /\ Len(issues) \in Nat /\ DOMAIN issues = 1..Len(issues)
      /\ run \in 0..MaxRuns /\ run \in Nat /\ MaxRuns \in Nat /\ ScanLimit \in Nat
  BY DEF Adopting, Publishing, Typed, PublicationAssumption
<1>3. CASE CreateIssue /\ issues' # issues
  <2>1. issues' = Append(issues, NewIssue) /\ run' = run /\ pc = "searched" /\ pc' # "searched"
        /\ pc' \in {"found", "finishing"}
    BY <1>3 DEF CreateIssue, Fail, NoAnswerIsLost
  <2>2. NewIssue \in AnyIssue /\ NewIssue.fingerprint = Fingerprint(report)
    BY NewIssueTyped DEF Adopting, Publishing
  <2>3. /\ Len(issues') = Len(issues) + 1 /\ issues'[Len(issues) + 1] = NewIssue
        /\ \A i \in 1..Len(issues) : issues'[i] = issues[i]
        /\ DOMAIN issues' = 1..(Len(issues) + 1)
    BY <1>2, <2>1, <2>2, AppendProperties
  <2>4. OnePerRun'
    BY <1>2, <2>1, <2>3 DEF Adopting, OnePerRun
  <2>5. OneIssuePerFingerprint'
    <3> SUFFICES ASSUME NEW i \in DOMAIN issues', NEW k \in DOMAIN issues',
                        issues'[i].fingerprint = issues'[k].fingerprint
                 PROVE  i = k
      BY DEF OneIssuePerFingerprint
    <3>1. \A j \in DOMAIN issues : issues'[j].fingerprint # NewIssue.fingerprint
      BY <1>2, <2>1, <2>2, <2>3 DEF Adopting, NotThereYet
    <3>2. (i \in DOMAIN issues \/ i = Len(issues) + 1) /\ (k \in DOMAIN issues \/ k = Len(issues) + 1)
      BY <1>2, <2>3
    <3>3. CASE i \in DOMAIN issues /\ k \in DOMAIN issues
      BY <1>2, <2>3, <3>3 DEF Adopting, OneIssuePerFingerprint
    <3> QED
      BY <2>3, <3>1, <3>2, <3>3
  <2> QED
    BY <1>1, <2>1, <2>4, <2>5 DEF Adopting, NotThereYet
<1>4. CASE UNCHANGED issues
  <2>1. OneIssuePerFingerprint'
    BY <1>4 DEF Adopting, OneIssuePerFingerprint
  <2>2. OnePerRun'
    <3> DEFINE Owing(p) == p \in {"analysing", "publishing", "pending", "searched"}
    <3>1. \/ pc = "idle" /\ run' = run + 1
          \/ run' = run /\ (Owing(pc') => Owing(pc))
      BY DEF Next, vars, local, StartRun, Analyse, SavePendingReport, Search, CreateIssue, MarkReportPublished,
         SaveNotification, Published, FinishRun, Push, Crash, NextDay, Forget, Fail
    <3>2. Len(issues) <= IF Owing(pc) THEN run - 1 ELSE run
      BY DEF Adopting, OnePerRun
    <3>3. Len(issues') <= IF Owing(pc') THEN run' - 1 ELSE run'
      <4> HIDE DEF Owing
      <4>1. Len(issues') = Len(issues)
        BY <1>4
      <4>2. pc = "idle" => ~ Owing(pc)
        BY DEF Owing
      <4> QED
        BY <1>2, <3>1, <3>2, <4>1, <4>2
    <3> QED
      BY <3>3 DEF OnePerRun
  <2>3. NotThereYet'
    <3> SUFFICES ASSUME pc' = "searched", NEW i \in DOMAIN issues
                 PROVE  issues[i].fingerprint # Fingerprint(report)'
      BY <1>4 DEF NotThereYet
    <3>1. Search \/ UNCHANGED vars
      BY DEF Next, StartRun, Analyse, SavePendingReport, CreateIssue, MarkReportPublished, SaveNotification,
         Published, FinishRun, Push, Crash, NextDay, Forget, Fail, local, Started
    <3>2. CASE UNCHANGED vars
      BY <3>2 DEF vars, local, Adopting, NotThereYet, Fingerprint
    <3>3. CASE Search
      <4>1. /\ Matching(Fingerprint(report)) = {} /\ pc = "pending"
            /\ Fingerprint(report)' = Fingerprint(report)
        BY <3>3 DEF Search, Fail, Fingerprint
      <4>2. i \in Listed
        BY <1>2, <4>1 DEF Listed, Adopting, OnePerRun, PageHoldsAll
      <4> QED
        BY <4>1, <4>2 DEF Matching
    <3> QED
      BY <3>1, <3>2, <3>3
  <2> QED
    BY <1>1, <2>1, <2>2, <2>3 DEF Adopting
<1>5. (CreateIssue /\ issues' # issues) \/ UNCHANGED issues
  BY DEF Next, vars, local, StartRun, Analyse, SavePendingReport, Search, CreateIssue, MarkReportPublished,
     SaveNotification, Published, FinishRun, Push, Crash, NextDay, Forget
<1> QED
  BY <1>3, <1>4, <1>5

(* A report that is published again, also after a crash, adopts its Issue,    *)
(* where no answer to a creation is lost and the page the search reads holds  *)
(* the Issues of all the runs.                                                *)
THEOREM ReportsAreCreatedOnce ==
    ASSUME NoAnswerIsLost, PageHoldsAll PROVE Spec => []OneIssuePerFingerprint
<1>1. Init => Adopting
  <2> SUFFICES ASSUME Init
               PROVE  Adopting
    OBVIOUS
  <2>1. Publishing
    BY PublishingInitially, RulesAssumption, PublicationAssumption
  <2>2. issues = <<>> /\ pc = "idle" /\ run = 0
    BY DEF Init
  <2> QED
    BY <2>1, <2>2 DEF Adopting, OnePerRun, NotThereYet, OneIssuePerFingerprint
<1>2. Adopting /\ [Next]_vars => Adopting'
  BY AdoptingStep, RulesAssumption, PublicationAssumption
<1>3. Adopting => OneIssuePerFingerprint
  BY DEF Adopting
<1> QED
  BY <1>1, <1>2, <1>3, PTL DEF Spec
================================================================================
