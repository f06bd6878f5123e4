--------------------------- MODULE IssuePublication ---------------------------
(***************************************************************************)
(* The publish protocol of the daily run: orchestrator.py (start_run, the  *)
(* notification decisions, _publish, finish_run), github/issues.py (find   *)
(* or create the Issue) and the rows history/repository.py keeps of it.    *)
(*                                                                         *)
(* Each job works on its own copy of the pushed history and only the end   *)
(* of the job pushes it back; the Issues are created on the way and stay.  *)
(***************************************************************************)
EXTENDS NotificationRules

CONSTANTS Observations,   \* what a run may find out about a repository
          MaxRuns,        \* bound: runs ever started
          MaxDays,        \* bound: run dates
          ScanLimit,      \* how many of the newest report Issues the search lists
          Faults          \* what may go wrong around the publication

ASSUME PublicationAssumption ==
    /\ MaxRuns \in Nat /\ MaxDays \in Nat \ {0}
    /\ ScanLimit \in Nat \ {0}
    /\ \A obs \in Observations :
         /\ obs.score \in Nat
         /\ obs.parts.novelty \in Nat /\ obs.parts.visibility \in Nat /\ obs.parts.activity \in Nat
    /\ Faults \subseteq {"crash", "lost_answer", "db_error"}

VARIABLES day,      \* the run date
          run,      \* the number of runs started; the id of the newest
          pc,       \* where the newest run is
          world,    \* what this run observed, per repository
          report,   \* `selected`, in report order
          toNotify, \* the findings whose notification is still to be saved
          found,    \* the Issue publisher.publish returned, 0 for none
          failure,  \* the exception that ended publication, if any
          db,       \* the job's copy of the history: runs and notifications
          pushed,   \* the history on the state branch
          issues    \* the report Issues on GitHub, oldest first

local == <<run, pc, world, report, toNotify, found, failure, db>>
vars  == <<day, local, pushed, issues>>

NoRowIdle == [state |-> "IDLE", fingerprint |-> <<>>, issue |-> 0, result |-> "running"]    \* mutant
NoRow   == [state |-> "NONE", fingerprint |-> <<>>, issue |-> 0, result |-> "running"]
Unseen  == [score |-> 0]
Started == {"analysing", "publishing", "pending", "searched", "found", "notifying", "finishing",
            "finished"}

Init ==
    /\ day = 1 /\ run = 0 /\ pc = "idle"
    /\ world = [g \in Gems |-> Unseen]
    /\ report = <<>> /\ toNotify = <<>>
    /\ found = 0 /\ failure = "none"
    /\ db = [runs |-> <<>>, notes |-> <<>>]
    /\ pushed = db
    /\ issues = <<>>

-----------------------------------------------------------------------------
(* The workflow checks the history out; run_pipeline records its run. *)
StartRun ==
    /\ pc = "idle" /\ run < MaxRuns
    /\ run' = run + 1
    /\ db' = [pushed EXCEPT !.runs = Append(@, NoRow)]
    /\ pc' = "analysing"
    /\ UNCHANGED <<day, world, report, toNotify, found, failure, pushed, issues>>

Finding(g, obs, trigger) ==
    [gem |-> g, score |-> obs.score, confidence |-> obs.confidence, parts |-> obs.parts, trigger |-> trigger]

(* report_fingerprint: the run date and who is reported why at which score. *)
Fingerprint(selected) ==
    <<day, {[gem |-> f.gem, trigger |-> f.trigger, score |-> f.score] : f \in ToSet(selected)}>>

(* Discovery to scoring, for the repositories this run got to; then the       *)
(* decisions and the selection.  A rate limit on the way leaves a report that *)
(* is not published.                                                          *)
Analyse ==
    /\ pc = "analysing"
    /\ \E seen \in SUBSET Gems : \E obs \in [seen -> Observations] :
         LET findings == {Finding(g, obs[g], Decide(db.notes, g, obs[g])) :
                            g \in {h \in seen : Decide(db.notes, h, obs[h]) # None}}
         IN /\ world' = [g \in Gems |-> IF g \in seen THEN obs[g] ELSE Unseen]
            /\ report' = InOrder(Selected(findings))
            /\ pc' \in IF findings = {} THEN {"finishing"} ELSE {"publishing", "finishing"}
    /\ UNCHANGED <<day, run, toNotify, found, failure, db, pushed, issues>>

Row          == Len(db.runs)
Fail(reason) == pc' = "finishing" /\ failure' = reason

SavePendingReport ==
    /\ pc = "publishing"
    /\ \/ /\ db' = [db EXCEPT !.runs[Row].state = "PENDING_REPORT",
                               !.runs[Row].fingerprint = Fingerprint(report)]
          /\ pc' = "pending"
          /\ UNCHANGED failure
       \/ /\ "db_error" \in Faults
          /\ Fail("database")
          /\ UNCHANGED db
    /\ UNCHANGED <<day, run, world, report, toNotify, found, pushed, issues>>

(* find_by_fingerprint reads one page of the newest labelled Issues. *)
Listed == {i \in DOMAIN issues : i + ScanLimit > Len(issues)}
MatchingDay(fingerprint)   == {i \in Listed : issues[i].fingerprint[1] = fingerprint[1]}    \* mutant
MatchingNever(fingerprint) == {}                                                            \* mutant
Matching(fingerprint) == {i \in Listed : issues[i].fingerprint = fingerprint}

Search ==
    /\ pc = "pending"
    /\ \/ /\ \E i \in Matching(Fingerprint(report)) :
               /\ \A k \in Matching(Fingerprint(report)) : k <= i
               /\ found' = i
          /\ pc' = "found"
          /\ failure' = failure
       \/ /\ Matching(Fingerprint(report)) = {}
          /\ pc' = "searched"
          /\ UNCHANGED <<found, failure>>
       \/ /\ Fail("github")
          /\ found' = found
    /\ UNCHANGED <<day, run, world, report, toNotify, db, pushed, issues>>

NewIssue == [fingerprint |-> Fingerprint(report), gems |-> report]

(* One POST: carried out and answered; refused; or, where answers get lost,   *)
(* carried out without the client knowing, and perhaps once more by a retry.  *)
CreateIssue ==
    /\ pc = "searched"
    /\ \/ /\ issues' = Append(issues, NewIssue)
          /\ found' = Len(issues')
          /\ pc' = "found"
          /\ failure' = failure
       \/ /\ Fail("github")
          /\ UNCHANGED <<issues, found>>
       \/ /\ "lost_answer" \in Faults
          /\ issues' = Append(issues, NewIssue)
          /\ Fail("github")
          /\ found' = found
       \/ /\ "lost_answer" \in Faults
          /\ issues' = issues \o <<NewIssue, NewIssue>>
          /\ found' = Len(issues')
          /\ pc' = "found"
          /\ failure' = failure
    /\ UNCHANGED <<day, run, world, report, toNotify, db, pushed>>

(* mark_report_published updates exactly the pending row of this report. *)
IsPending == db.runs[Row].state = "PENDING_REPORT" /\ db.runs[Row].fingerprint = Fingerprint(report)

MarkReportPublished ==
    /\ pc = "found"
    /\ \/ /\ IsPending
          /\ db' = [db EXCEPT !.runs[Row].state = "REPORT_PUBLISHED", !.runs[Row].issue = found]
          /\ pc' = "notifying"
          /\ toNotify' = report
          /\ UNCHANGED failure
       \/ /\ ~IsPending
          /\ Fail("stale")
          /\ UNCHANGED <<db, toNotify>>
       \/ /\ "db_error" \in Faults
          /\ Fail("database")
          /\ UNCHANGED <<db, toNotify>>
    /\ UNCHANGED <<day, run, world, report, found, pushed, issues>>

(* save_notification, one transaction per finding; the trigger is UNIQUE. *)
SaveNotification ==
    /\ pc = "notifying" /\ toNotify # <<>>
    /\ LET f == Head(toNotify) IN
         \/ /\ \A i \in DOMAIN db.notes : db.notes[i].trigger # f.trigger
            /\ db' = [db EXCEPT !.notes = Append(@, [gem |-> f.gem, trigger |-> f.trigger, score |-> f.score,
                                                     issue |-> found, world |-> world[f.gem]])]
            /\ toNotify' = Tail(toNotify)
            /\ UNCHANGED <<pc, failure>>
         \/ /\ \E i \in DOMAIN db.notes : db.notes[i].trigger = f.trigger
            /\ Fail("unique")
            /\ UNCHANGED <<db, toNotify>>
         \/ /\ "db_error" \in Faults
            /\ Fail("database")
            /\ UNCHANGED <<db, toNotify>>
    /\ UNCHANGED <<day, run, world, report, found, pushed, issues>>

Published ==
    /\ pc = "notifying" /\ toNotify = <<>>
    /\ pc' = "finishing"
    /\ UNCHANGED <<day, run, world, report, toNotify, found, failure, db, pushed, issues>>

(* Mutant: an exception of the publication does not show in the result. *)
ResultHopeful == IF report = <<>> THEN {"SUCCESS_NO_FINDINGS"} ELSE IF found = 0 THEN {"PARTIAL_SUCCESS_RATE_LIMIT"}
                 ELSE {"SUCCESS", "PARTIAL_SUCCESS"}

(* The run's result, the COALESCEd columns of finish_run.  The Issue reaches  *)
(* the summary only when _publish returned.                                   *)
Result ==
    IF failure # "none" THEN {"PARTIAL_SUCCESS"}
    ELSE IF report = <<>> THEN {"SUCCESS_NO_FINDINGS", "PARTIAL_SUCCESS", "PARTIAL_SUCCESS_RATE_LIMIT"}
    ELSE IF found = 0 THEN {"PARTIAL_SUCCESS_RATE_LIMIT"}
    ELSE {"SUCCESS", "PARTIAL_SUCCESS"}

FinishRun ==
    /\ pc = "finishing"
    /\ \E result \in Result :
         db' = [db EXCEPT !.runs[Row].result = result,
                          !.runs[Row].fingerprint = IF report = <<>> THEN @ ELSE Fingerprint(report)]
    /\ pc' = "finished"
    /\ UNCHANGED <<day, run, world, report, toNotify, found, failure, pushed, issues>>

Forget ==
    /\ pc' = "idle"
    /\ world' = [g \in Gems |-> Unseen]
    /\ report' = <<>> /\ toNotify' = <<>>
    /\ found' = 0 /\ failure' = "none"
    /\ UNCHANGED <<day, run, issues>>

(* stage-live and the push of the state branch. *)
Push ==
    /\ pc = "finished"
    /\ pushed' = db
    /\ db' = db
    /\ Forget

(* The job dies, the history cannot record its start or its end, or a later   *)
(* step of it refuses to push: its copy is gone.                              *)
Crash ==
    /\ pc \in Started /\ "crash" \in Faults
    /\ db' = pushed
    /\ pushed' = pushed
    /\ Forget

NextDay ==
    /\ pc = "idle" /\ day < MaxDays
    /\ day' = day + 1
    /\ UNCHANGED <<local, pushed, issues>>

Next ==
    \/ StartRun \/ Analyse \/ SavePendingReport \/ Search \/ CreateIssue
    \/ MarkReportPublished \/ SaveNotification \/ Published \/ FinishRun
    \/ Push \/ Crash \/ NextDay

Spec == Init /\ [][Next]_vars

-----------------------------------------------------------------------------
Triggers == {"FIRST_DISCOVERY", "SCORE_INCREASE", "NEW_RELEASE", "MAJOR_CHANGE"}
IsFinding(f) == f.gem \in Gems /\ f.trigger.kind \in Triggers /\ f.score \in Nat
IsHistory(h) ==
    /\ \A r \in DOMAIN h.runs : /\ h.runs[r].state \in {"NONE", "PENDING_REPORT", "REPORT_PUBLISHED"}
                                /\ h.runs[r].issue \in 0..Len(issues)
    /\ \A i \in DOMAIN h.notes : IsFinding(h.notes[i]) /\ h.notes[i].issue \in DOMAIN issues

(* Every variable stays within its type. *)
TypeOK ==
    /\ day \in 1..MaxDays /\ run \in 0..MaxRuns
    /\ pc \in {"idle"} \union Started
    /\ world \in [Gems -> Observations \union {Unseen}]
    /\ \A i \in DOMAIN report : IsFinding(report[i])
    /\ \A i \in DOMAIN toNotify : IsFinding(toNotify[i])
    /\ found \in 0..Len(issues)
    /\ failure \in {"none", "github", "stale", "unique", "database"}
    /\ IsHistory(db) /\ IsHistory(pushed)
    /\ \A i \in DOMAIN issues : \A k \in DOMAIN issues[i].gems : IsFinding(issues[i].gems[k])

(* The history never claims more than GitHub shows: a run marked published    *)
(* points to an Issue with its fingerprint, and a notification to an Issue    *)
(* that reports that repository for that reason, whatever crashed or was lost *)
(* in between.                                                                *)
HistoryMatchesIssues ==
    \A h \in {db, pushed} :
        /\ \A r \in DOMAIN h.runs : h.runs[r].state = "REPORT_PUBLISHED" =>
              /\ h.runs[r].issue \in DOMAIN issues
              /\ issues[h.runs[r].issue].fingerprint = h.runs[r].fingerprint
        /\ \A i \in DOMAIN h.notes : h.notes[i].issue \in DOMAIN issues =>
              \E f \in ToSet(issues[h.notes[i].issue].gems) :
                 f.gem = h.notes[i].gem /\ f.trigger = h.notes[i].trigger

(* A run that reports SUCCESS has an Issue and remembers every repository of  *)
(* its report: none of them is announced for the same reason again.           *)
SuccessIsComplete ==
    \A r \in DOMAIN db.runs : db.runs[r].result = "SUCCESS" =>
        /\ db.runs[r].state = "REPORT_PUBLISHED"
        /\ \A m \in db.runs[r].fingerprint[2] :
              \E i \in DOMAIN db.notes : /\ db.notes[i].trigger = m.trigger
                                          /\ db.notes[i].issue = db.runs[r].issue

(* What is saved after the Issue exists is never refused by the history's own *)
(* constraints: the triggers the decisions hand out are fresh (`fingerprint   *)
(* TEXT NOT NULL UNIQUE`), and the report is still the pending one.           *)
BookkeepingNeverConflicts == failure \notin {"stale", "unique"}

(* Re-running a report with the same fingerprint adopts its Issue, also after *)
(* a crash, as long as no answer to a creation is lost (a repeated POST is    *)
(* GitHubClient's CreatesAtMostOnce).                                         *)
OneIssuePerFingerprint ==
    \A i, k \in DOMAIN issues : issues[i].fingerprint = issues[k].fingerprint => i = k

(* Whatever crashes, is lost or fails, the Issues implement AnnouncementLog   *)
(* with the pushed notifications as its memory: what the history remembers    *)
(* was announced, is never forgotten, and is not announced again.             *)
Announced == [i \in DOMAIN issues |-> {f.trigger : f \in ToSet(issues[i].gems)}]
Notified  == {pushed.notes[i].trigger : i \in DOMAIN pushed.notes}
Log       == INSTANCE AnnouncementLog WITH log <- Announced, remembered <- Notified
ImplementsAnnouncements == Log!Spec

(* "If a run crashes between creation and confirmation, simply re-run the     *)
(* same workflow: the publisher looks up the existing Issue by fingerprint    *)
(* and adopts it instead of creating a duplicate" (docs/operations.md:        *)
(* 120-122): no two Issues announce the same thing.                           *)
RerunCreatesNoDuplicate == \A i, k \in DOMAIN issues : i # k => Announced[i] \intersect Announced[k] = {}

(* "Re-notification requires `+10` over the last notified score" (README.md:  *)
(* 65): at the very least, a repository of which nothing changed since its    *)
(* last notification is not notified again.                                   *)
NothingNewIsNotRenotified ==
    \A i, k \in DOMAIN db.notes :
        i < k /\ db.notes[i].gem = db.notes[k].gem => db.notes[i].world # db.notes[k].world
===============================================================================
