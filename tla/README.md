# A verification project for github-hidden-gems

TLA+ models of the daily run of `github-hidden-gems`, the TLC configurations that check
them and the TLAPS proofs of what matters most. Paths are relative to the repository;
Python files are under `src/hidden_gems/`. `PROJECT.json` is the machine-readable index:
which definition models which lines, which run checks what, and which change of the model
each property would notice.

## 1. The system

A scheduled GitHub Actions job looks for little-known repositories, scores them, and
reports the best in one GitHub Issue. Its memory is an SQLite history on the `state` branch
of the project's own repository. One process, one thread; what makes it hard is everything
around it: a history that is copied, changed and pushed back; an Issue that exists before
the history knows; a remote API with quotas, lost answers and retries; a paid LLM; and jobs
that die anywhere.

| Component | State | Operations | Talks to | What is hard |
|---|---|---|---|---|
| State branch manager (`history/state_branch.py`) | branch, working directory, manifest, backups | load, checkpoint, rotate, persist | git, history store | writers racing, crashes, directories reused |
| Live state guard (`history/live_state_guard.py`, `.github/workflows/daily_discovery.yml`) | checkout, app directory, archives | verify, restore, stage, push | state branch, command line | fail closed on damage only, never lose the old history |
| GitHub client (`github/client.py`, `rate_limits.py`) | attempt, remembered limit, quota budget | request, retry, refuse | GitHub; used by every phase | retries of what was done, limits swallowed by callers |
| Orchestrator (`orchestrator.py`) | budgets, `rate_limited`, errors, result | `run_pipeline` and its phases | all of the others | phases failing, limits noticed late |
| Discovery (`discovery/`) | candidates, stop reason | query plan of the day, query loop | GitHub client | raw budget in mid-page, zones that change, errors |
| Relationship explorer (`relationships/`) | collected candidates | one-hop expansion | GitHub client, discovery | what is new while sources overlap |
| Hard filter (`filtering/`) | none | evaluate, twice per candidate | light analysis | reads that failed |
| Light and deep analysis (`light_analysis/`, `deep_analysis/`) | none kept | analyze | GitHub client | bounded reads, order of the rules |
| Scoring (`scoring/`) | none | preliminary, final, maximum possible | configuration | pruning must not lose a candidate |
| Configuration (`config.py`) | none | load, validate | all of the others | ranges that only hold together |
| Notification rules (`reporting/selector.py`, `fingerprints.py`) | none | decide, select | history store | chains of triggers over many runs |
| Issue publication (`github/issues.py`, `orchestrator._publish`) | pending report, Issue | find, create, mark, notify | GitHub client, history store | the Issue exists before the record |
| History store (`history/repository.py`, `database.py`) | SQLite tables | transactions | | one transaction per row, UNIQUE columns |
| LLM (`llm/`) | budget, cache | analyze, retry, cache | DeepSeek, history store | paying for failures, caps at their boundary |
| Acceptance gate (`validation/acceptance.py`) | none | window, criteria, verdict | history store, grades | gaps and doubles of days, late grades |
| Knowledge harvest (`knowledge_harvest/`) | artifacts | harvest, plan, fit, replay, queue | LLM, GitHub client | one step of several failing, claims without evidence |
| Command line, rendering, security, helpers | none | | | formatting and parsing |

How they interact in a live run: the workflow checks the `state` branch out, verifies it and
copies database and manifest to the app directory; `hidden-gems run --live` runs the
orchestrator on the copy (discovery → filter → light analysis → relationships → ranking →
deep analysis and LLM → scores → decisions → selection → publication) and writes the
manifest; `stage-live` verifies copy and checkout, keeps the old database as an archive,
replaces it, and the workflow pushes. All GitHub traffic of a run goes through one client,
whose limit the phases learn from an exception or by polling it.

## 2. Modules

| Module | Models | Checked by | Proofs |
|---|---|---|---|
| `StateBranch` | StateBranchManager, several writers | `MCStateBranch` | `StateBranchProofs` |
| `LinearHistory` | what the branch promises its writers (abstract) | refined by `StateBranch` | `StateBranchProofs` |
| `LiveStateGuard` | the guard inside the job, cycle after cycle | `MCLiveStateGuard` | `LiveStateGuardProofs` |
| `GitHubClient` | `_request` and the quota budget, against a server | `MCGitHubClient` | `StateBranchProofs` |
| `NotificationRules` | decisions and selection as operators | through `IssuePublication`, `Screening` | `NotificationRulesProofs` |
| `IssuePublication` | the publish protocol over runs, days and crashes | `MCIssuePublication` | `IssuePublicationProofs` |
| `AnnouncementLog` | what the user is promised (abstract) | refined by `IssuePublication` | `IssuePublicationProofs` |
| `Pipeline` | `run_pipeline`: phases, budgets, limits, errors | `MCPipeline` | `PipelineProofs` |
| `Discovery`, `Relationships` | the query plan and loop; the one-hop expansion after it | `MCRelationships` | `RelationshipsProofs` |
| `Configuration` | what `load_config` accepts, as operators | through `Screening` | `ScreeningProofs` |
| `LightAnalysis`, `HardFilter`, `Scoring` | the evaluation of one candidate, as operators | through `Screening` | `ScreeningProofs` |
| `Screening` | one candidate after the other from metadata to the report | `MCScreening` | `ScreeningProofs` |
| `ReportSelection` | the findings and the report cut from them (abstract) | refined by `Screening` | `ScreeningProofs` |
| `LLMBudget` | caps, retries, billing, cache over the runs | `MCLLMBudget` | `PipelineProofs` |
| `AcceptanceGate` | the verdict, while runs and grades come in | `MCAcceptanceGate` | `KnowledgeTransferProofs` |
| `KnowledgeTransfer` | harvest, plan, fit, replay and queue | `MCKnowledgeTransfer` | `KnowledgeTransferProofs` |

How the modules compose. `Pipeline` and `Screening` are two views of `run_pipeline`: the
first counts candidates and follows the run, the second follows a candidate and leaves the
run's budgets and limits out. `Screening` extends `HardFilter`, `LightAnalysis`, `Scoring`
(which extends `Configuration`) and `NotificationRules`, and implements `ReportSelection`.
`IssuePublication` extends `NotificationRules` too, with the history the decisions read.
`Relationships` extends `Discovery` with what follows it on the same client. `Pipeline` and
`Discovery` know the client as a zone and a limit that never goes away, which `GitHubClient`
establishes (`LimitsStayVisible`, `LimitsAreFinal`), and `Pipeline` the publication as one
step, which `IssuePublication` takes apart. `LiveStateGuard` takes a run as one step that
extends the history or is damaged; `IssuePublication` takes the guard and the push as one
step that happens or does not.

### State and actions against the code

- **StateBranch.** `branch` is the ref as the chain of its trees (a hash fixes the chain
  below it); `work[r]` a writer's directory with database, manifest and archives; `parent[r]`
  is `snapshot.parent_sha`. `persist` is two actions, because the comparison with the
  expected parent and `update-ref` are separate git processes; `rotate_backups` is two,
  because the archives are unlinked before the manifest is written. `Crash` keeps the
  directory, and a later `Load` runs `git checkout` over it, which leaves untracked files.
- **LiveStateGuard.** `remote` is the origin's branch, `dir[j]` a job's checkout, `app[j]` its
  app directory. One action per workflow step, and one per write of `stage_live`
  (`StageBackup`, `StageDatabase`, `StageManifest`, `StageRotate`). `Mishaps` lists what a
  wrong restore, another tool or a hand edit can make of the app database: rows missing,
  rewritten or added, a report state the guard has not confirmed, a dry run, a corrupt file.
  `Rot` destroys an archive of the checkout. `tainted` remembers that one of these happened,
  so that "refused" can be told from "refused for a reason". `Carriers` are
  the jobs that copy the manifest to the app directory, without the archives it names: in
  production every job (`daily_discovery.yml:92-94`). The others start from the database alone,
  as the tests of the guard do (`tests/unit/test_live_safety_b1_b4.py`). `Burdened(j)` says that
  the manifest a job carries names an archive.
- **GitHubClient.** One action per branch of the loop in `_request`. The server's quota and
  the resources a POST created are the environment's state. A header may be missing, an
  answer may be lost before or after the server did the work, and a 5xx may hide success.
- **NotificationRules / IssuePublication.** An observation has a score, a star band, a
  confidence, the three parts of its score that break ties, a release and a content. `Key` is
  `ordering_key`, all six keys of it, which `Before` compares in order. `db` is the job's copy of `runs` and `notifications`,
  `pushed` the one on the branch. `_publish` is one action per transaction or request,
  and a database error can end each of its transactions.
- **Pipeline.** Candidates are counted: what an analysis or a score says is a choice, what
  the run does with it is not. `limited` is the code's local `rate_limited`, `client` the
  truth it is a copy of, taken exactly where the code polls. `Abort` is the `except
  Exception` around everything. `lost` and `analyses` are counters the code does not keep;
  they only serve the properties.
- **Discovery / Relationships.** `Planned(day)` is `build_query_plan`: every core template
  for every area and the star band and term of the day's slot, then the rotating pairs. One
  action per branch of the query loop (`Answer`, `Limited`, `Denied`, `Failed`), with a page
  of any repositories recorded one by one. After an analysis of any of them (`Analyse`), the
  sources of each seed are read in the code's order; a link leads anywhere. `known` is what
  the source was told to exclude, computed before it is read, as in the code. A limit
  (`ExplorationLimited`) or any other exception (`ExplorationFailed`) loses what was collected.
- **Screening and its operators.** A candidate is a record of metadata (`meta`), of what its
  files, releases and commits would show (`contents`), and the set of reads that succeed
  (`reads`): `ReadOf` turns a failed one into the empty value the code puts in its place.
  `wording` is the set of patterns its texts match, so that the regular expressions stay out
  while the rules that combine them are all in. Scores are the code's arithmetic, number by
  number, under `Config`, a record of the configuration files. `Prune`, `DeepAnalyse` and
  `DecideAndCollect` are the three parts of the loop in `run_pipeline`; a score out of range
  raises there, which is the stage "aborted". The orchestrator passes no originality
  evidence, hence only the answer of the model or none decides on originality (`Outcome`).
- **LLMBudget.** `need` is the provider's `projected_cost`, computed before each attempt;
  `billed` is what the provider charges, which the code never sees when the answer is lost.
- **AcceptanceGate.** The gate only reads, so the actions are those of what it reads: runs
  that end live or dry, days that pass, grades that come in. A live run has an Issue with all,
  some or none of its notifications recorded, since `_publish` can break off behind the Issue,
  or neither; with or without a violation. Of the results the gate tells
  `SUCCESS_NO_FINDINGS` from all others, which are one value here, the missing result of a run
  that never finished included. The verdict is an operator of the state, one operator per
  criterion. As in the code it looks at recorded days only and never at today's date, a grade
  belongs to a repository and not to one of its notifications, an Issue is a duplicate when
  notifications of two runs carry it, and a run with neither Issue nor notification that is not
  silent (a dry one that found something, or one that a limit cut short) fails the silent-day
  criterion. GOOD and MAYBE, which count the same, are one grade.
- **KnowledgeTransfer.** One action per step of the three commands: collect the evidence of a
  repository or target, an answer that is admitted, refused or never comes, and the files
  written in between. `plan`, `fit` and `queue` are the artifacts on disk, which a crash
  leaves as they are and a replay starts from. An evidence bundle is the set of kinds it
  holds. `Answers` is every answer that passes the validator, with the labels recomputed from
  the evidence as the code does.

## 3. Runs

`tlc -config <cfg> <module>`; each takes from seconds to two minutes. Passing runs:

| Run (cfg) | What it shows | Bounds, and why they suffice |
|---|---|---|
| `MCStateBranch` | acknowledged runs survive, commits are whole, refinement of `LinearHistory` | two writers, 3 commits, 2 backups with 1 kept: every pair of steps of two writers interleaves, and the rotation drops one |
| `MCLiveStateGuard` | published histories grow, states and backups are whole, staging loses nothing, only damage and an inherited index are refused and with the latter nothing is staged | two jobs without the concurrency group, one that carries the manifest and one that does not, 3 runs, 1 backup: both stage and push against each other, the one that carries is blocked from the first backup on, and the other goes on until the index overflows |
| `MCGitHubClient` | limits are final, every call ends | 3 calls with up to 3 retries, small quotas so that both floors are crossed |
| `MCIssuePublication` | the history never claims more than GitHub shows, SUCCESS is complete | two repositories, 2 runs on 2 days, all faults: reports of two findings, whose bookkeeping can stop in between |
| `MCIssuePublicationDecisions` | nothing remembered is announced again, one Issue per fingerprint, no UNIQUE conflict | one repository, 3 runs on one day, 14 observations, crashes and database errors: every branch of the decision in every order, and re-runs with the same fingerprint |
| `MCPipeline` | budgets, no truncated publication, earned success, termination | 5 candidates and 4 related ones against budgets of 4, 3 and 2: every budget is exceeded |
| `MCScreening` | nothing reportable is pruned, failed reads reject nothing, chores never make a repository strong, no score aborts, refinement of `ReportSelection` (limits, order, nothing better left out) | the shipped configuration; a candidate for the filter (every rule, pair of signals and kind of tree), one for the score (every dimension at both ends, every subset of failing reads, all answers at their extremes), then two more so that reports overflow both limits |
| `MCRelationships` | the raw budget, true stop reasons, new candidates only, termination | 4 repositories, budget 2, pages of 2: the budget is reached inside a page and across pages; two areas, bands and days: the rotation turns; two seeds and two sources with one result each and a ceiling of one |
| `MCLLMBudget` | caps, upper bound, cache | 3 repositories, 2 runs, 3 calls, budget 5, 1 retry |
| `MCAcceptanceGate` | acceptance is earned, violations stick, dry runs shadow nothing, early grades decide nothing | 2 required days, 3 days, 3 runs, one ordinary and one exceptional repository: gaps, doubles, windows that end early and Issues with some or none of their notifications all occur |
| `MCKnowledgeTransfer` | queued experiments are earned, a queue accounts for its plan, calls do not run out | two repositories and two targets (one without a repository of its own), one retry, one replay: any of them fails while the others succeed |

A run of one day or a few is enough where the code keeps nothing else between runs than
what the model keeps. Constants are small stand-ins for the configuration: only their order
matters (a score below, at and above each threshold; quotas above, at and below each floor).
`MCScreening` alone uses the real numbers, because its question is whether they fit together.
`MCStateBranch` uses the symmetry of the writers, which nothing in the code tells apart. Where a theorem states that the variables keep their types,
no run repeats it. What is not in a run and can be added to a configuration: `TypeOK` of
`LiveStateGuard` and `Relationships` (no theorem yet), `UsageAddsUp` and
`PublishedIsNeverRewritten`; and, proved below,
`BoundedCall`, `LimitIsVisible`, `ExplorationIsBounded` (the ceiling plus one seed), the
types of `Screening` and `AcceptanceGate`, and the action property `NeverOverwritten`.

**Deadlock** is checked for `LiveStateGuard` and `StateBranch`. The others switch it off
where the system stops by design: after `MaxCalls`, `MaxRuns`, the end of a run or command.

**Violation.** `MCLiveStateGuardCycle` has the production workflow, where every job carries
the manifest, and checks what a document says of it: the manifest copied without its archives
blocks the next cycle, though nothing was damaged
(`docs/validation/live-hardening-b1-b4.md:22`).

**Other disagreements.** These have a configuration to reproduce them (TLC reports the named
property violated; with `-workers 1 -continue` all those of one configuration) but are not among the
runs of `PROJECT.json`.

| Configuration | Property | What happens | What is said |
|---|---|---|---|
| `MCIssuePublicationRerun` | `RerunCreatesNoDuplicate` | the re-run after a crash sees another day, score or release, has another fingerprint and creates a duplicate (`fingerprints.py:45`) | `docs/operations.md:120` |
| `MCIssuePublicationUnchanged` | `NothingNewIsNotRenotified` | an unchanged repository is notified up to three times (`selector.py:99`) | `README.md:65` |
| `MCPipelineClaims` | `LightAnalysesWithinBudget` | more light analyses than the budget, because the second loop's part is computed from those kept (`orchestrator.py:179`) | `docs/operations.md:88` |
| | `YellowStopsExploration` | exploration in the YELLOW zone (`orchestrator.py:169`) | `github/rate_limits.py:3` |
| | `RedIsNotASuccess` | RED in the last answer of the deep phase is called a success (`orchestrator.py:292`) | `docs/operations.md:95` |
| `MCStateBranchRace` | `NeverOverwritten` | two writers create the branch; the second `update-ref` has no old value and overwrites the first (`state_branch.py:339`) | docstring of `state_branch.py` |
| `MCLiveStateGuardEmpty` | `OnlyDamageIsRefused` | an empty first commit is refused by the preflight (`live_state_guard.py:145`) | `docs/operations.md:67` |
| `MCScreeningClaims` | `MetadataAloneRejectsNothing` | the first look, without any read, rejects what the README would save (`orchestrator.py:120`) | `filtering/hard_filter.py:5` |
| | `LanguageIsNoReason` | files in a language without a listed suffix count as no source (`rules.py:342`) | `filtering/rules.py:5` |
| | `MoreSignalsNeverAdmit` | a second signal can hide the one that would reject (`rules.py:505`) | `filtering/rules.py:3` |
| | `ChoresAreWeak` | a repository with bot commits only can be of medium activity (`activity.py:163`) | `light_analysis/activity.py:3` |
| | `ExtraPositionsAreExceptional` | exceptional findings come on top of the normal ones and the two are sorted together, so that normal ones stand at positions 6-10 (`selector.py:137`) | `README.md:66` |
| `MCScreeningConfig` | `NoScoreAborts` | `validate_config` checks the strong activity only; a medium one above what a score may hold is accepted, and a run with such a candidate ends in an exception (`config.py:879`) | `config.py:836` |
| `MCAcceptanceGateRows` | `AcceptedIsEarned` | the gate reads the newest rows only: behind enough dry runs a violation of the first day is not seen | `acceptance.py:139` |
| | `EveryReportIsGraded` | a run that broke off between its Issue and its notifications (`orchestrator.py:712`) is neither silent nor ungraded, so that a window is accepted without a grade for anything it reported (`acceptance.py:295`) | `acceptance.py:515` |
| `MCKnowledgeTransferCrowded` | `EveryTargetCanBeJudged` | a plan may give a target more opportunities than an answer may hold, and it can then never be judged (`target_fit.py:103`) | `docs/knowledge-harvest.md:77` |

Four more need only their name added to a configuration as an invariant:
`CreatesAtMostOnce` to `MCGitHubClient.cfg` (a POST whose answer is lost is repeated,
`client.py:256`), `EveryTermMeetsEveryBand` to `MCRelationships.cfg` (the term of a slot is
`(day + area + slot) % Terms` and its band `(day + slot) % Bands`, `queries.py:93`: where
Bands divides Terms, as in the shipped configuration with 3 and 6, every term of an area only
ever meets one band, while `queries.py:7` promises the bands to every run), `CeilingHolds` to `MCRelationships.cfg` (the ceiling is looked at before a
seed, so one seed can go beyond it, `explorer.py:26`), and `ExceptionStarsCanBeReported` to
`MCScreening.cfg` (no repository of 500-2,000 stars can reach the 80 points it needs,
`README.md:63`).

Read in the source, without a model: the manifest of a rate-limited run with a selection
says PENDING_REPORT while the database says NONE (`cli.py:452`); `full_name` is UNIQUE while
the upsert resolves only `github_repo_id`, so a clash ends the run that `orchestrator.py:57`
calls fail-soft; an exhausted LLM budget also refuses answers the cache holds
(`orchestrator.py:626`); a network error of the target fit is recorded but not counted as a
call (`target_fit.py:361`); a `fit_id` digests the plan, the prompt and the snapshots but not
the results, so that two fits that judge differently share one (`target_fit.py:592`); and
`queue-experiments` accepts a partial fit (`cli.py:762`).

**Fairness.** Three liveness properties, each with weak fairness of the program's own steps.
`GitHubClient`: `WF(Attempt)`, because every attempt has connect and read timeouts; the next
call is not fair, nobody has to call. `Pipeline`: `WF(Progress)`, because every call a phase
makes ends; exceptions (`Abort`) are not part of it, so the run must end without their help.
`Relationships`: `WF(Next)`, for the same reason: every step is one call or one step of a
single-threaded loop. No other module states fairness: a job, a writer, a day or a command
may stop at any point.

## 4. Proofs

`tlapm <module>` checks them; every obligation is proved with Z3, Zenon and, for the
temporal steps, LS4. Every invariant and action property of a passing run is a theorem, and
so are the three refinements. Some carry a hypothesis on the constants or on what the history
holds; each is named below, with what happens without it.

- **StateBranchProofs**, for any sets of writers and any bounds. Type correctness is
  inductive. That acknowledged runs survive is not: the invariant also says that whatever a
  writer holds includes what its parent commit recorded, that a parent is a prefix of the
  branch as it is, and that the writer between the two halves of `persist` has such a
  directory. With it the compare-and-swap of `RefMoves` means that a new commit extends the
  newest. The same invariant gives `NeverOverwritten` and the refinement of `LinearHistory`.
  `CommittedTreesAreAlwaysWhole` adds (`WInv`) that a loaded directory holds what its index
  names and that one about to be committed is whole. All four assume `BranchExists`. Without
  it two writers overwrite each other (`MCStateBranchRace`), and a crash between the two
  halves of the rotation leaves an index that names a deleted archive, which the next load,
  with nothing to check out, keeps and commits.

  The module also has the **GitHub client**, for any quotas, floors and delays. `Bounded` is
  inductive: it ties the time slept and the resources created to the attempts made, says that
  a call under way has no outcome yet, and that a limit met is remembered. The action
  property `LimitIsFinal` follows from it.
- **LiveStateGuardProofs**, for any jobs, runs and backups. `Guarded` says what each working
  job's checkout has to do with the branch it started from, and that every committed database
  only has notes of its own runs; the check of `Continuous` and the fast-forward of `Push`
  then make every commit an extension of the one before. `Safe` follows the four writes of
  `stage_live` one by one: the old database is in place or in an archive, and what an index
  names is there. `Whole` keeps a catalogue of every commit: the archives that its index names
  are the databases of the commits before it, in order and under distinct names, so that
  `rotate_backups` drops the oldest one and no other. From it follow that every published
  state verifies and that its backups are the previous states.
  `RefusalsAreAlwaysExplained` goes the other way, from the checks to the data: `Unharmed` says
  of a job nothing tampered with, and that inherits no index, that each check of the preflight
  and of `stage_live` passes; and of one that inherits an index that it is not staged. It holds
  whichever jobs carry the manifest over, all of them in production, and assumes only that the branch does not start
  empty, since the preflight refuses an empty one (`MCLiveStateGuardEmpty`).
- **PipelineProofs**, for any budgets and numbers of candidates. `LoopsFit` says how many
  candidates each loop may still let through (`lights + todo <= LightBudget`, `deep + todo <=
  lights`); `LossIsRemembered` says phase by phase how a rate limit that took candidates away
  is known: in the local flag, or, while the related candidates are analysed, only in the
  client, until it is polled. `ResultsAreLate` says that results and Issues only exist when
  the loops are over. `TypeOK` is split into flags and numbers for the provers.

  The module also has the **LLM budget**, for any caps, projections, excess, repositories and
  runs. The lemma `RequestPays` says what one request does to both accounts; the money cap
  then follows from the check before it, and the upper bound from charging the projection
  whenever the answer does not state its usage. That a stored analysis is never paid again
  needs that the repository being tried is not stored.
- **NotificationRulesProofs** holds the lemmas on the report, for any finite set of findings:
  the keys of two findings compare (`KeysCompare`), `Before` is a strict order when no two
  findings share a repository (`BeforeIsAnOrder`), each place is taken by one finding
  (`PlacesAreTaken`), `InOrder` sorts, `Top` takes the first n and is full when there are n,
  and what the two cuts of `select_report_candidates` leave is within the limits and leaves no
  better finding out (`SelectionIsTheBest`). The order is by counting who is ahead,
  so that no induction over a sort is needed.
- **IssuePublicationProofs**, for any repositories, observations, runs, days and faults.
  `Publishing` follows one report: the decisions hand out triggers the history does not know
  (`Fresh`), nothing is remembered between there and the Issue, and from the Issue on every
  finding is saved with it or still to be saved (`Saving`); an error in any transaction leaves
  what was saved and ends the report (`FailedStep`). Whatever is in the working copy or
  on the branch is shown by an Issue (`Kept`). Hence `HistoryNeverClaimsMore`,
  `SuccessRemembersAll`, `NothingIsRefused` (the UNIQUE trigger is never met twice) and, step
  by step, the refinement of `AnnouncementLog`. `ReportsAreCreatedOnce` (`Adopting`) needs two
  hypotheses: `NoAnswerIsLost`, since the client repeats a POST whose answer it never saw, and
  `PageHoldsAll`, since the search lists one page of Issues.
- **ScreeningProofs**, for every accepted configuration and all inputs. The lemmas bound each
  dimension of the final score by what the preliminary one counts or reserves: visibility,
  novelty, activity and intersection are the same in both, relevance stays below its cap, and
  the ten points reserved for originality cover the two it can really get and the four that
  the bonus of a deep analysis can add to quality. Hence a pruned candidate is below the
  lowest notification threshold whatever the model answers. It rests on `Accepted(Config)` and
  on the orchestrator passing no originality evidence of its own; with it up to four more
  points could come, and `maximum_possible_score` would not be a bound.
  `FailedReadsNeverReject` (`Filtered`) compares the filter with and without the reads that
  failed, rule by rule; `ChoresNeverMakeAnythingStrong` is about the activity level, which
  counts them towards no level above the weakest. The refinement of `ReportSelection`
  (`Reporting`) rests on the lemmas above: the abstract report is described by what must hold
  of it (limits, membership, order, nobody forgotten) and not by how it is selected, so that
  the proof is about sorting, splitting and cutting. `NoScoreEverAborts`
  assumes `PointsFit`, that the points of every activity level, star band and age band fit
  their dimension: `validate_config` looks at the strong activity only, and
  `MCScreeningConfig` is the exception another level then raises.
- **RelationshipsProofs**, for any plan, pages, seeds and links. `Listed` says that the found
  repositories are distinct, explained by a query and fewer than the budget while the loop
  goes on; `Excluding` that what a source must exclude contains all that was found.
  `StopsAreAlwaysTrue` (`Telling`) needs the shape of the plan: by lemmas on `div` and `%` the
  core queries of a day are the product of templates and areas, so that a loop which asked
  all of them has met what the reason says. It assumes `CorePlain`, that no core template is
  the intersection search the YELLOW zone holds back. The shipped `discovery.yml` is so,
  though its loader does not ask for it; with such a template TLC finds `StopsAreTrue`
  violated. `ExplorationIsAlwaysBounded` (`Ceiled`) counts source by source what one seed may
  add once the ceiling was looked at.
- **KnowledgeTransferProofs**, for any repositories, targets, packets, answers and retries.
  `Judged` carries what earned an experiment from the answer over the fit to the queue.
  `Counted` says that the calls made and those that everything still to come may need are
  together within the cap. `Accounted` adds to the property that results are only of the
  targets asked about, and that there is no plan, fit or queue before the harvest is over;
  that a queue has every opportunity then is a matter of finite sets of the same size.

  The module also has the **acceptance gate**, for any history of runs and grades. `Kept` says
  that rows are in the order of their days and that there are notifications only where there
  is an Issue; not the reverse, as a run can break off between the two. `SharedIsDuplicate`
  turns an Issue with notifications of two runs into a violation of both. The
  lemmas `WindowIsShort`, `GroupStands` and `WholeWindow` turn the gate's count of recorded
  days into the statement about calendar days that its criteria mean: when the window is
  whole, it is the last `Required` days. `RowsSuffice` is the hypothesis, inside the
  invariant, that every run of these days is among the rows the gate reads;
  `MCAcceptanceGateRows` is the verdict where it is not. Only `NoEarlyGradeDecides` holds
  without it.

The assumptions are the named `ASSUME`s of the modules: naturals, a positive number of
backups and of days, finite sets of repositories, targets and packets, scores that are
naturals, and for the screening the shapes of its inputs (`IsMeta`, `IsContents`,
`IsAnswer`: the ranges the code's own parsing leaves). `RecordedCostIsAnUpperBound` rests on
the projection being what the code means it to be, a ceiling of what one request can cost
when its usage is unknown.

Definitions that a proof unfolds use `IF` where `CASE` would read as well: the prover's
translation of a `CASE` without `OTHER` for the SMT solver looks at its conditions and not at
its values, so a step that needs the values could pass for the wrong reason.

**Only model-checked:** the three liveness properties `EveryCallEnds`, `EveryRunEnds` and
`EveryExplorationEnds` (TLAPS does not do fairness or ENABLED), and the invariants outside
the runs that section 3 lists without a proof. Induction over data, such as what a sort of
any list returns, is out of this prover's reach; where a report is sorted, the model counts
places instead.

## 5. Not modelled

- Text: the patterns of the hard filter and of the classification, rendering, sanitising,
  prompts. Which of them match is an input where it matters.
- The deep analysis picks and cuts files within fixed byte limits and keeps nothing; its
  outcome (evidence, failure, rate limit) is a choice of `Screening` and `Pipeline`.
- The rows of discovery hits, filter decisions, observations and scores: written and never
  read back by the run. `upsert_repository` can raise (`full_name` is UNIQUE), which is
  `Pipeline`'s `Abort`.
- In the knowledge harvest: which files a bundle takes, digests and identifiers, the CSV and
  per-target copies, and `build_experiment_result`, which nothing in the program calls.
- In the live state guard: the comparison of columns (`live_state_guard.py:83-86`), since the
  tables are the same in every cycle.
- In the acceptance gate: the Markdown report, the parsing of the grades, and the limit of 200
  on the notifications read (`acceptance.py:542`), which a window of seven days only reaches
  with 21 full reports a day.
- SQLite and git themselves: a transaction happens or does not, `update-ref` with an old
  value compares and swaps.

## 6. Plan

1. `StateBranch` with `LinearHistory`, checked and proved. *Done.*
2. `LiveStateGuard`: the cycle of production, checked and proved. *Done; left: `TypeOK` as a
   theorem.*
3. `GitHubClient`, checked and proved. *Done.*
4. `NotificationRules`, `IssuePublication`, `AnnouncementLog`, checked and proved. *Done.*
5. `Pipeline`, `LLMBudget`, checked and proved. *Done.*
6. `Configuration`, `LightAnalysis`, `HardFilter`, `Scoring`, `Screening` with
   `ReportSelection`, checked and proved. *Done.*
7. `Discovery` with `Relationships`, checked and proved. *Done; left: `TypeOK` as a theorem.*
8. `AcceptanceGate`, checked and proved. *Done.*
9. `KnowledgeTransfer`, checked and proved. *Done.*
10. Left for later: the repositories table with its two unique columns, and the byte budgets
    of the file selectors.
